-------------------------- MODULE IoLibraryProofs --------------------------
(***************************************************************************)
(* What the procedures of the I/O library do with every string and every   *)
(* number, and what follows for their clients.  Strings are as long as     *)
(* they like and a register has any even size, so all of it is proved by   *)
(* induction: over the length of a string, and over the number printed.    *)
(***************************************************************************)
EXTENDS IoLibrary, WellFoundedInduction, TLAPS

-----------------------------------------------------------------------------
(* Induction and division.                                                 *)

\* Every set of numbers has a least one,
LEMMA Least ==
  ASSUME NEW T, T \subseteq Nat, T # {}
  PROVE  \E x \in T : \A y \in T : x <= y
<1> DEFINE R == OpToRel(<, Nat)
<1>1. IsWellFoundedOn(R, Nat)
  BY NatLessThanWellFounded, Zenon
<1>2. \A x, y \in Nat : y < x => <<y, x>> \in R
  BY DEF OpToRel
<1> HIDE DEF R
<1>3. \E x \in T : \A y \in T : ~ (<<y, x>> \in R)
  BY <1>1, WFMin, Zenon
<1>4. PICK x \in T : \A y \in T : ~ (<<y, x>> \in R)
  BY <1>3
<1>5. \A y \in T : ~ (y < x)
  BY <1>2, <1>4, Zenon
<1>6. \A y \in T : x <= y
  BY <1>5
<1> QED BY <1>6

\* so a set with zero and the successor of each of its numbers has them all.
LEMMA Induction ==
  ASSUME NEW T, 0 \in T, \A n \in Nat : n \in T => n + 1 \in T
  PROVE  Nat \subseteq T
<1> DEFINE U == Nat \ T
<1> SUFFICES ASSUME U # {} PROVE FALSE
  OBVIOUS
<1>1. PICK x \in U : \A y \in U : x <= y
  BY Least
<1>2. x # 0 /\ x \in Nat /\ x - 1 \in Nat /\ x - 1 \in T
  BY <1>1
<1> QED BY <1>2, <1>1

\* Division with remainder has one result.
LEMMA QuotientUnique ==
  ASSUME NEW w \in Nat \ {0}, NEW i \in Int, NEW k \in Int,
         NEW j \in 0 .. w - 1, NEW l \in 0 .. w - 1, i * w + j = k * w + l
  PROVE  i = k /\ j = l
<1>1. ASSUME NEW a \in Int, NEW b \in Int, a < b
      PROVE  a * w + w <= b * w
  <2>1. (b - a - 1) * w >= 0
    BY <1>1
  <2>2. (b - a - 1) * w = b * w - a * w - w
    OBVIOUS
  <2>3. a * w \in Int /\ b * w \in Int
    OBVIOUS
  <2> QED BY <2>1, <2>2, <2>3
<1>2. i * w \in Int /\ k * w \in Int
  OBVIOUS
<1>3. ~(i < k)
  BY <1>1, <1>2
<1>4. ~(k < i)
  BY <1>1, <1>2
<1>5. i = k
  BY <1>3, <1>4
<1> QED BY <1>2, <1>5

\* Quotient and remainder, as the provers need them.
LEMMA Division ==
  ASSUME NEW w \in Nat \ {0}, NEW k \in Nat
  PROVE  /\ k \div w \in Int /\ k % w \in 0 .. w - 1
         /\ k = (k \div w) * w + (k % w)
<1>1. k \div w \in Int /\ k % w \in 0 .. w - 1 /\ k = w * (k \div w) + (k % w)
  OBVIOUS
<1>2. w * (k \div w) = (k \div w) * w
  BY <1>1
<1> QED BY <1>1, <1>2

\* A remainder may be taken before the next digit is added or after.
LEMMA RemainderFirst ==
  ASSUME NEW m \in Nat \ {0}, NEW h \in Nat, NEW d \in Nat
  PROVE  ((h % m) * 10 + d) % m = (h * 10 + d) % m
<1>1. PICK q \in Int, r \in 0 .. m - 1 : r = h % m /\ h = q * m + r
  BY Division
<1>2. r * 10 + d \in Nat /\ h * 10 + d \in Nat
  BY <1>1
<1>3. PICK k \in Int, l \in 0 .. m - 1 : l = (r * 10 + d) % m /\ r * 10 + d = k * m + l
  BY <1>2, Division
<1>4. PICK p \in Int, n \in 0 .. m - 1 : n = (h * 10 + d) % m /\ h * 10 + d = p * m + n
  BY <1>2, Division
<1>5. (q * 10 + k) * m + l = p * m + n
  <2>1. (q * 10 + k) * m = (q * m) * 10 + k * m
    OBVIOUS
  <2>2. q * m \in Int /\ k * m \in Int /\ p * m \in Int /\ r \in Int /\ l \in Int /\ n \in Int
    OBVIOUS
  <2> DEFINE a == q * m
             b == k * m
             c == p * m
  <2>3. /\ a \in Int /\ b \in Int /\ c \in Int /\ r \in Int /\ l \in Int /\ n \in Int
        /\ h = a + r /\ r * 10 + d = b + l /\ h * 10 + d = c + n
    BY <1>1, <1>3, <1>4, <2>2
  <2> HIDE DEF a, b, c
  <2>4. a * 10 + b + l = c + n
    BY <2>3
  <2> QED BY <2>1, <2>4 DEF a, b, c
<1>6. q * 10 + k \in Int
  OBVIOUS
<1>7. l = n
  BY <1>5, <1>6, QuotientUnique
<1> QED BY <1>1, <1>3, <1>4, <1>7

-----------------------------------------------------------------------------
(* Looking for the end of a string.                                        *)

\* The loops of string_length and parse_uint: from n on to the next of Z.
Stops(f, Z) == f = [n \in Nat |-> IF n \in Z THEN n ELSE f[n + 1]]

\* There is such a function, whether or not there is a next one,
LEMMA StopsExist ==
  ASSUME NEW Z, Z \subseteq Nat
  PROVE  \E f : Stops(f, Z)
<1> DEFINE Above(n) == {m \in Z : n <= m}
           Next1(n) == CHOOSE x \in Above(n) : \A y \in Above(n) : x <= y
           g == [n \in Nat |-> IF Above(n) = {} THEN 0 ELSE Next1(n)]
<1>1. ASSUME NEW n \in Nat
      PROVE  g[n] = IF n \in Z THEN n ELSE g[n + 1]
  <2>1. CASE n \in Z
    <3>1. n \in Above(n) /\ \A y \in Above(n) : n <= y
      BY <2>1
    <3>2. \A x \in Above(n) : (\A y \in Above(n) : x <= y) => x = n
      BY <3>1
    <3>3. Next1(n) = n
      BY <3>1, <3>2
    <3> QED BY <2>1, <3>1, <3>3
  <2>2. CASE n \notin Z
    <3>1. Above(n) = Above(n + 1)
      <4>1. ASSUME NEW m \in Z PROVE n <= m <=> n + 1 <= m
        BY <2>2
      <4> QED BY <4>1
    <3>2. Next1(n) = Next1(n + 1)
      BY <3>1, Zenon
    <3>3. n + 1 \in Nat
      OBVIOUS
    <3>4. g[n] = (IF Above(n) = {} THEN 0 ELSE Next1(n))
      OBVIOUS
    <3>5. g[n + 1] = (IF Above(n + 1) = {} THEN 0 ELSE Next1(n + 1))
      BY <3>3, Zenon
    <3> HIDE DEF g, Above, Next1
    <3> QED BY <2>2, <3>1, <3>2, <3>4, <3>5
  <2> QED BY <2>1, <2>2
<1> HIDE DEF g
<1>2. g = [n \in Nat |-> g[n]]
  BY DEF g
<1>3. g = [n \in Nat |-> IF n \in Z THEN n ELSE g[n + 1]]
  BY <1>1, <1>2
<1> QED BY <1>3 DEF Stops

\* and if there is one, it is found.
LEMMA StopsAt ==
  ASSUME NEW Z, NEW f, Stops(f, Z), NEW m \in Nat, m \in Z, \A k \in 0 .. m - 1 : k \notin Z
  PROVE  f[0] = m
<1> DEFINE T == {j \in Nat : j <= m => f[0] = f[j]}
<1>1. 0 \in T
  OBVIOUS
<1>2. ASSUME NEW j \in Nat, j \in T
      PROVE  j + 1 \in T
  BY <1>2 DEF Stops
<1> HIDE DEF T
<1>3. Nat \subseteq T
  BY <1>1, <1>2, Induction
<1>4. f[0] = f[m]
  BY <1>3 DEF T
<1> QED BY <1>4 DEF Stops

\* string_length finds the first zero byte.
LEMMA StringLengthIs ==
  ASSUME NEW M, NEW p \in Nat, NEW m \in Nat, M[p + m] = NUL,
         \A k \in 0 .. m - 1 : M[p + k] # NUL
  PROVE  StringLength(M, p) = m
<1> DEFINE Z == {n \in Nat : M[p + n] = NUL}
           f == CHOOSE f : f = [n \in Nat |-> IF M[p + n] = NUL THEN n ELSE f[n + 1]]
<1>1. StringLength(M, p) = f[0]
  BY DEF StringLength
<1>2. PICK g : Stops(g, Z)
  BY StopsExist
<1>3. g = [n \in Nat |-> IF M[p + n] = NUL THEN n ELSE g[n + 1]]
  BY <1>2 DEF Stops
<1>4. f = [n \in Nat |-> IF M[p + n] = NUL THEN n ELSE f[n + 1]]
  BY <1>3
<1> HIDE DEF f
<1>5. Stops(f, Z)
  BY <1>4 DEF Stops
<1>6. m \in Z /\ \A k \in 0 .. m - 1 : k \notin Z
  OBVIOUS
<1> HIDE DEF Z
<1> QED BY <1>1, <1>5, <1>6, StopsAt

\* parse_uint finds the first byte that is no digit.
LEMMA DigitCountIs ==
  ASSUME NEW M, NEW p \in Nat, NEW m \in Nat, IsDigit(M[p + m]) = 10,
         \A k \in 0 .. m - 1 : IsDigit(M[p + k]) # 10
  PROVE  DigitCount(M, p) = m
<1> DEFINE Z == {n \in Nat : IsDigit(M[p + n]) = 10}
           f == CHOOSE f : f = [n \in Nat |-> IF IsDigit(M[p + n]) = 10 THEN n ELSE f[n + 1]]
<1>1. DigitCount(M, p) = f[0]
  BY DEF DigitCount
<1>2. PICK g : Stops(g, Z)
  BY StopsExist
<1>3. g = [n \in Nat |-> IF IsDigit(M[p + n]) = 10 THEN n ELSE g[n + 1]]
  BY <1>2 DEF Stops
<1>4. f = [n \in Nat |-> IF IsDigit(M[p + n]) = 10 THEN n ELSE f[n + 1]]
  BY <1>3
<1> HIDE DEF f
<1>5. Stops(f, Z)
  BY <1>4 DEF Stops
<1>6. m \in Z /\ \A k \in 0 .. m - 1 : k \notin Z
  OBVIOUS
<1> HIDE DEF Z
<1> QED BY <1>1, <1>5, <1>6, StopsAt

\* is_digit knows digits.
LEMMA IsDigitIs ==
  ASSUME NEW ch \in 0 .. 255
  PROVE  IF ch \in Digits THEN IsDigit(ch) = ch - ZERO ELSE IsDigit(ch) = 10
BY DEF IsDigit, Digits, ZERO
-----------------------------------------------------------------------------
(* The value of a string of digits.                                        *)

Numerals == Seq(Digits)

\* The value of the first digits, computed as parse_uint does it, but never cut
\* to the size of a register.
Reads(h, s) == h = [k \in 0 .. Len(s) |-> IF k = 0 THEN 0 ELSE h[k - 1] * 10 + (s[k] - ZERO)]

\* The first n of them.
ReadsTo(h, s, n) == h = [k \in 0 .. n |-> IF k = 0 THEN 0 ELSE h[k - 1] * 10 + (s[k] - ZERO)]

\* There is exactly one such function.
LEMMA ReadsExists ==
  ASSUME NEW s \in Numerals
  PROVE  \E h : Reads(h, s) /\ h \in [0 .. Len(s) -> Nat]
<1> DEFINE T == {n \in Nat : n <= Len(s) => \E h : ReadsTo(h, s, n) /\ h \in [0 .. n -> Nat]}
<1>0. /\ Len(s) \in Nat
      /\ \A k \in 1 .. Len(s) : s[k] - ZERO \in Nat
  <2>1. Len(s) \in Nat
    BY DEF Numerals
  <2>2. ASSUME NEW k \in 1 .. Len(s) PROVE s[k] - ZERO \in Nat
    <3>1. s[k] \in Digits
      BY DEF Numerals
    <3> QED BY <3>1 DEF Digits, ZERO
  <2> QED BY <2>1, <2>2
<1>1. 0 \in T
  <2> DEFINE h == [k \in 0 .. 0 |-> 0]
  <2>1. h \in [0 .. 0 -> Nat]
    OBVIOUS
  <2>2. ReadsTo(h, s, 0)
    BY DEF ReadsTo
  <2> QED BY <2>1, <2>2
<1>2. ASSUME NEW n \in Nat, n \in T
      PROVE  n + 1 \in T
  <2>1. CASE n + 1 <= Len(s)
    <3>1. PICK h : ReadsTo(h, s, n) /\ h \in [0 .. n -> Nat]
      BY <1>0, <1>2, <2>1
    <3>2. s[n + 1] - ZERO \in Nat
      BY <1>0, <2>1
    <3> DEFINE g == [k \in 0 .. n + 1 |->
                       IF k = n + 1 THEN h[n] * 10 + (s[n + 1] - ZERO) ELSE h[k]]
    <3>3. g \in [0 .. n + 1 -> Nat]
      BY <3>1, <3>2
    <3>4. ASSUME NEW k \in 0 .. n + 1
          PROVE  g[k] = IF k = 0 THEN 0 ELSE g[k - 1] * 10 + (s[k] - ZERO)
      BY <3>1 DEF ReadsTo
    <3>5. ReadsTo(g, s, n + 1)
      BY <3>4 DEF ReadsTo
    <3> HIDE DEF g
    <3> QED BY <3>3, <3>5
  <2>2. CASE ~(n + 1 <= Len(s))
    BY <2>2
  <2> QED BY <2>1, <2>2
<1>3. Nat \subseteq T
  <2> HIDE DEF T
  <2> QED BY <1>1, <1>2, Induction
<1>4. Len(s) \in T
  BY <1>0, <1>3
<1>5. \E h : ReadsTo(h, s, Len(s)) /\ h \in [0 .. Len(s) -> Nat]
  BY <1>0, <1>4
<1> QED BY <1>5 DEF Reads, ReadsTo

\* Its values depend on the digits read only.
LEMMA ReadsUnique ==
  ASSUME NEW s \in Numerals, NEW t \in Numerals, NEW h, NEW g, Reads(h, s), Reads(g, t),
         NEW n \in Nat, n <= Len(s), n <= Len(t), \A k \in 1 .. n : s[k] = t[k]
  PROVE  h[n] = g[n]
<1> DEFINE T == {k \in Nat : k <= n => h[k] = g[k]}
<1>1. 0 \in T
  BY DEF Reads, Numerals
<1>2. ASSUME NEW k \in Nat, k \in T
      PROVE  k + 1 \in T
  BY <1>2 DEF Reads, Numerals
<1> HIDE DEF T
<1>3. Nat \subseteq T
  BY <1>1, <1>2, Induction
<1> QED BY <1>3 DEF T

\* The powers of ten that Value takes.
Powers(w, n) == w = [k \in 0 .. n |-> IF k = 0 THEN 1 ELSE 10 * w[k - 1]]

\* They exist,
LEMMA PowersExist == \A n \in Nat : \E w : Powers(w, n)
<1> DEFINE T == {n \in Nat : \E w : Powers(w, n)}
<1>1. 0 \in T
  <2>1. Powers([k \in 0 .. 0 |-> 1], 0)
    BY DEF Powers
  <2> QED BY <2>1
<1>2. ASSUME NEW n \in Nat, n \in T
      PROVE  n + 1 \in T
  <2>1. PICK w : Powers(w, n)
    BY <1>2
  <2> DEFINE v == [k \in 0 .. n + 1 |-> IF k = n + 1 THEN 10 * w[n] ELSE w[k]]
  <2>2. ASSUME NEW k \in 0 .. n + 1
        PROVE  v[k] = IF k = 0 THEN 1 ELSE 10 * v[k - 1]
    BY <2>1 DEF Powers
  <2>3. Powers(v, n + 1)
    BY <2>2 DEF Powers
  <2> QED BY <2>3
<1> HIDE DEF T
<1>3. Nat \subseteq T
  BY <1>1, <1>2, Induction
<1> QED BY <1>3 DEF T

\* and are numbers.
LEMMA PowersAre ==
  ASSUME NEW n \in Nat, NEW w, Powers(w, n)
  PROVE  \A k \in 0 .. n : w[k] \in Nat
<1> DEFINE T == {k \in Nat : k <= n => w[k] \in Nat}
<1>1. 0 \in T
  BY DEF Powers
<1>2. ASSUME NEW k \in Nat, k \in T
      PROVE  k + 1 \in T
  BY <1>2 DEF Powers
<1> HIDE DEF T
<1>3. Nat \subseteq T
  BY <1>1, <1>2, Induction
<1> QED BY <1>3 DEF T
\* The sums that Value takes, for some powers.
Sums(f, s, w, n) ==
  f = [k \in 0 .. n |-> IF k = 0 THEN 0 ELSE f[k - 1] + (s[k] - ZERO) * w[n - k]]

\* There is at most one such function.
LEMMA SumsUnique ==
  ASSUME NEW s, NEW w, NEW n \in Nat, NEW f, NEW g, Sums(f, s, w, n), Sums(g, s, w, n)
  PROVE  f[n] = g[n]
<1> DEFINE T == {k \in Nat : k <= n => f[k] = g[k]}
<1>1. 0 \in T
  BY DEF Sums
<1>2. ASSUME NEW k \in Nat, k \in T
      PROVE  k + 1 \in T
  BY <1>2 DEF Sums
<1> HIDE DEF T
<1>3. Nat \subseteq T
  BY <1>1, <1>2, Induction
<1> QED BY <1>3 DEF T

\* The value of a string of digits, as test.py takes it from the powers of ten,
\* is what parse_uint adds up, multiplying by ten at each digit.
LEMMA ValueIs ==
  ASSUME NEW s \in Numerals, NEW h \in [0 .. Len(s) -> Nat], Reads(h, s)
  PROVE  Value(s) = h[Len(s)]
<1> DEFINE n == Len(s)
           w == CHOOSE w : w = [k \in 0 .. Len(s) |-> IF k = 0 THEN 1 ELSE 10 * w[k - 1]]
           f == CHOOSE f : f = [k \in 0 .. Len(s) |->
                  IF k = 0 THEN 0 ELSE f[k - 1] + (s[k] - ZERO) * w[Len(s) - k]]
           g == [k \in 0 .. Len(s) |-> h[k] * w[Len(s) - k]]
<1>1. Value(s) = f[Len(s)]
  BY DEF Value
<1>2. /\ Len(s) \in Nat
      /\ \A k \in 1 .. Len(s) : s[k] - ZERO \in Nat
  <2>1. Len(s) \in Nat
    BY DEF Numerals
  <2>2. ASSUME NEW k \in 1 .. Len(s) PROVE s[k] - ZERO \in Nat
    <3>1. s[k] \in Digits
      BY DEF Numerals
    <3> QED BY <3>1 DEF Digits, ZERO
  <2> QED BY <2>1, <2>2
<1>3. Powers(w, Len(s))
  <2>1. PICK v : Powers(v, Len(s))
    BY <1>2, PowersExist
  <2>2. v = [k \in 0 .. Len(s) |-> IF k = 0 THEN 1 ELSE 10 * v[k - 1]]
    BY <2>1 DEF Powers
  <2>3. w = [k \in 0 .. Len(s) |-> IF k = 0 THEN 1 ELSE 10 * w[k - 1]]
    BY <2>2
  <2> HIDE DEF w
  <2> QED BY <2>3 DEF Powers
<1> HIDE DEF w
<1>4. \A k \in 0 .. Len(s) : w[k] \in Nat
  BY <1>2, <1>3, PowersAre
<1>5. Sums(g, s, w, Len(s))
  <2>1. ASSUME NEW k \in 0 .. Len(s)
        PROVE  g[k] = IF k = 0 THEN 0 ELSE g[k - 1] + (s[k] - ZERO) * w[Len(s) - k]
    <3>1. CASE k = 0
      <4>1. h[0] = 0
        BY <1>2 DEF Reads
      <4>2. w[Len(s) - 0] \in Nat
        BY <1>2, <1>4
      <4> QED BY <3>1, <4>1, <4>2, <1>2
    <3>2. CASE k # 0
      <4> DEFINE v == w[Len(s) - k]
                 d == s[k] - ZERO
                 b == h[k - 1]
      <4>0. Len(s) - k \in 0 .. Len(s) /\ k - 1 \in 0 .. Len(s) /\ k \in 1 .. Len(s)
        BY <1>2, <3>2
      <4>1. v \in Nat /\ d \in Nat /\ b \in Nat
        <5>1. v \in Nat
          BY <1>4, <4>0
        <5>2. d \in Nat
          BY <1>2, <4>0
        <5>3. b \in Nat
          BY <4>0
        <5> QED BY <5>1, <5>2, <5>3
      <4>2. h[k] = b * 10 + d
        BY <1>2, <3>2 DEF Reads
      <4>3. w[Len(s) - (k - 1)] = 10 * v
        <5>1. \A j \in 0 .. Len(s) : j # 0 => w[j] = 10 * w[j - 1]
          BY <1>3 DEF Powers
        <5>2. /\ Len(s) - (k - 1) \in 0 .. Len(s) /\ Len(s) - (k - 1) # 0
              /\ (Len(s) - (k - 1)) - 1 = Len(s) - k
          BY <1>2, <4>0
        <5> HIDE DEF w
        <5> QED BY ONLY <5>1, <5>2 DEF v
      <4>4. g[k] = h[k] * v /\ g[k - 1] = b * w[Len(s) - (k - 1)]
        BY <1>2, <3>2
      <4> HIDE DEF g, v, d, b
      <4>5. (b * 10 + d) * v = b * (10 * v) + d * v
        BY <4>1
      <4>6. g[k] = g[k - 1] + d * v
        BY ONLY <4>2, <4>3, <4>4, <4>5, Zenon
      <4> QED BY <3>2, <4>6 DEF d, v
    <3> QED BY <3>1, <3>2
  <2> QED BY <2>1 DEF Sums
<1>6. Sums(f, s, w, Len(s))
  <2>1. g = [k \in 0 .. Len(s) |->
               IF k = 0 THEN 0 ELSE g[k - 1] + (s[k] - ZERO) * w[Len(s) - k]]
    BY <1>5 DEF Sums
  <2> HIDE DEF g
  <2>2. f = [k \in 0 .. Len(s) |->
               IF k = 0 THEN 0 ELSE f[k - 1] + (s[k] - ZERO) * w[Len(s) - k]]
    BY <2>1
  <2> HIDE DEF f
  <2> QED BY <2>2 DEF Sums
<1>7. g[Len(s)] = h[Len(s)]
  <2>1. w[Len(s) - Len(s)] = 1
    BY <1>2, <1>3 DEF Powers
  <2>2. h[Len(s)] \in Nat
    BY <1>2
  <2> QED BY <1>2, <2>1, <2>2
<1> HIDE DEF f, g
<1>8. f[Len(s)] = g[Len(s)]
  BY <1>2, <1>5, <1>6, SumsUnique
<1> QED BY <1>1, <1>7, <1>8

\* An empty string stands for zero, and a further digit counts ten times less
\* than those before it.
LEMMA ValueEmpty == Value(<<>>) = 0
<1>1. <<>> \in Numerals /\ Len(<<>>) = 0
  BY DEF Numerals
<1>2. PICK h : Reads(h, <<>>) /\ h \in [0 .. Len(<<>>) -> Nat]
  BY <1>1, ReadsExists
<1>3. Value(<<>>) = h[Len(<<>>)]
  BY <1>1, <1>2, ValueIs
<1> QED BY <1>1, <1>2, <1>3 DEF Reads

LEMMA ValueAppend ==
  ASSUME NEW s \in Numerals, NEW c \in Digits
  PROVE  /\ Append(s, c) \in Numerals
         /\ Value(s) \in Nat
         /\ Value(Append(s, c)) = Value(s) * 10 + (c - ZERO)
<1> DEFINE t == Append(s, c)
<1>1. /\ t \in Numerals /\ Len(s) \in Nat /\ Len(t) = Len(s) + 1 /\ t[Len(s) + 1] = c
      /\ \A k \in 1 .. Len(s) : s[k] = t[k]
  BY DEF Numerals
<1> HIDE DEF t
<1>2. PICK h : Reads(h, s) /\ h \in [0 .. Len(s) -> Nat]
  BY ReadsExists
<1>3. PICK g : Reads(g, t) /\ g \in [0 .. Len(t) -> Nat]
  BY <1>1, ReadsExists
<1>4. Value(s) = h[Len(s)]
  BY <1>2, ValueIs
<1>5. Value(t) = g[Len(t)]
  BY <1>1, <1>3, ValueIs
<1>6. h[Len(s)] = g[Len(s)]
  <2>1. Len(s) \in Nat /\ Len(s) <= Len(s) /\ Len(s) <= Len(t)
    BY <1>1
  <2>2. /\ t \in Numerals /\ s \in Numerals /\ Reads(h, s) /\ Reads(g, t)
        /\ \A k \in 1 .. Len(s) : s[k] = t[k]
    BY <1>1, <1>2, <1>3
  <2> QED BY ONLY <2>1, <2>2, ReadsUnique
<1>7. g[Len(t)] = g[Len(s)] * 10 + (c - ZERO)
  BY <1>1, <1>3 DEF Reads
<1>8. h[Len(s)] \in Nat
  BY <1>1, <1>2
<1> QED BY <1>1, <1>4, <1>5, <1>6, <1>7, <1>8 DEF t
-----------------------------------------------------------------------------
(* parse_uint.                                                             *)

\* The values its loop passes through.
Cuts(f, M, p, n) ==
  f = [k \in 0 .. n |-> IF k = 0 THEN 0 ELSE (f[k - 1] * 10 + IsDigit(M[p + k - 1])) % RegMod]

\* There is at most one such function.
LEMMA CutsUnique ==
  ASSUME NEW M, NEW p, NEW n \in Nat, NEW f, NEW g, Cuts(f, M, p, n), Cuts(g, M, p, n)
  PROVE  f[n] = g[n]
<1> DEFINE T == {k \in Nat : k <= n => f[k] = g[k]}
<1>1. 0 \in T
  BY DEF Cuts
<1>2. ASSUME NEW k \in Nat, k \in T
      PROVE  k + 1 \in T
  BY <1>2 DEF Cuts
<1> HIDE DEF T
<1>3. Nat \subseteq T
  BY <1>1, <1>2, Induction
<1> QED BY <1>3 DEF T

\* The digits of s lie at p, and something else behind them.
DigitsAt(M, p, s) ==
  /\ \A k \in 1 .. Len(s) : M[p + k - 1] = s[k]
  /\ IsDigit(M[p + Len(s)]) = 10

\* parse_uint counts the digits and returns their value, reduced to the size of
\* a register.  That it is reduced at each digit makes no difference.
LEMMA ParseUintIs ==
  ASSUME NEW M, NEW p \in Nat, NEW s \in Numerals, DigitsAt(M, p, s)
  PROVE  /\ ParseUint(M, p).rax = Value(s) % RegMod
         /\ ParseUint(M, p).rdx = Len(s)
<1> DEFINE n == Len(s)
           f == CHOOSE f : f = [k \in 0 .. DigitCount(M, p) |->
                  IF k = 0 THEN 0 ELSE (f[k - 1] * 10 + IsDigit(M[p + k - 1])) % RegMod]
<1>1. n \in Nat /\ RegMod \in Nat \ {0}
  BY RegAssumption DEF Numerals
<1>2. ASSUME NEW k \in 1 .. n
      PROVE  IsDigit(M[p + k - 1]) = s[k] - ZERO /\ s[k] - ZERO \in 0 .. 9
  <2>1. s[k] \in Digits /\ s[k] \in 0 .. 255
    <3>1. s[k] \in Digits
      BY DEF Numerals
    <3> QED BY <3>1 DEF Digits, ZERO
  <2>2. IsDigit(s[k]) = s[k] - ZERO
    BY <2>1, IsDigitIs
  <2> QED BY <2>1, <2>2 DEF DigitsAt, Digits, ZERO
<1> HIDE DEF n
<1>3. \A k \in 0 .. n - 1 : IsDigit(M[p + k]) # 10
  <2> SUFFICES ASSUME NEW k \in 0 .. n - 1 PROVE IsDigit(M[p + k]) # 10
    OBVIOUS
  <2>1. k + 1 \in 1 .. n /\ p + (k + 1) - 1 = p + k
    BY <1>1
  <2>2. IsDigit(M[p + (k + 1) - 1]) \in 0 .. 9
    BY <1>2, <2>1
  <2> QED BY <2>1, <2>2
<1>4. DigitCount(M, p) = n
  <2>1. IsDigit(M[p + n]) = 10
    BY DEF DigitsAt, n
  <2> QED BY <1>1, <1>3, <2>1, DigitCountIs
<1>5. PICK h : Reads(h, s) /\ h \in [0 .. n -> Nat]
  BY ReadsExists DEF n
<1> DEFINE g == [k \in 0 .. n |-> h[k] % RegMod]
<1>6. Cuts(g, M, p, n)
  <2>1. ASSUME NEW k \in 0 .. n
        PROVE  g[k] = IF k = 0 THEN 0 ELSE (g[k - 1] * 10 + IsDigit(M[p + k - 1])) % RegMod
    <3>1. CASE k = 0
      <4>1. h[0] = 0 /\ 0 \in 0 .. n
        BY <1>1, <1>5 DEF Reads, n
      <4>2. 0 % RegMod = 0
        BY <1>1
      <4> QED BY <3>1, <4>1, <4>2
    <3>2. CASE k # 0
      <4> DEFINE d == s[k] - ZERO
                 b == h[k - 1]
      <4>1. k - 1 \in 0 .. n /\ k \in 1 .. n
        BY <1>1, <3>2
      <4>2. b \in Nat
        BY <1>5, <4>1
      <4>3. d \in Nat /\ IsDigit(M[p + k - 1]) = d
        BY <1>2, <4>1
      <4>4. h[k] = b * 10 + d
        BY <1>5, <3>2, <4>1 DEF Reads, n
      <4>5. g[k] = h[k] % RegMod /\ g[k - 1] = b % RegMod
        BY <4>1
      <4> HIDE DEF g, b, d
      <4>6. ((b % RegMod) * 10 + d) % RegMod = (b * 10 + d) % RegMod
        BY <1>1, <4>2, <4>3, RemainderFirst
      <4> QED BY ONLY <3>2, <4>3, <4>4, <4>5, <4>6
    <3> QED BY <3>1, <3>2
  <2>2. g = [k \in 0 .. n |-> g[k]]
    OBVIOUS
  <2> HIDE DEF g
  <2> QED BY <2>1, <2>2, Zenon DEF Cuts
<1>7. Cuts(f, M, p, n)
  <2>1. g = [k \in 0 .. DigitCount(M, p) |->
               IF k = 0 THEN 0 ELSE (g[k - 1] * 10 + IsDigit(M[p + k - 1])) % RegMod]
    <3> HIDE DEF g
    <3> QED BY <1>4, <1>6, Zenon DEF Cuts
  <2> HIDE DEF g
  <2>2. f = [k \in 0 .. DigitCount(M, p) |->
               IF k = 0 THEN 0 ELSE (f[k - 1] * 10 + IsDigit(M[p + k - 1])) % RegMod]
    BY <2>1, Zenon
  <2> HIDE DEF f
  <2> QED BY <1>4, <2>2, Zenon DEF Cuts
<1>8. /\ ParseUint(M, p).rax = f[DigitCount(M, p)]
      /\ ParseUint(M, p).rdx = DigitCount(M, p)
  BY DEF ParseUint
<1>9. n \in 0 .. n
  BY <1>1
<1>10. g[n] = h[n] % RegMod
  BY <1>9
<1>11. Value(s) = h[n]
  BY <1>5, ValueIs DEF n
<1> HIDE DEF f, g
<1>12. f[n] = g[n]
  BY <1>1, <1>6, <1>7, CutsUnique
<1> QED BY <1>4, <1>8, <1>10, <1>11, <1>12 DEF n

-----------------------------------------------------------------------------
(* print_uint.                                                             *)

\* What its loop leaves for the numbers up to n.
Prints(f, n) ==
  f = [k \in 0 .. n |->
         IF k < 10 THEN <<ZERO + k>> ELSE Append(f[k \div 10], ZERO + (k % 10))]

LEMMA PrintsAt ==
  ASSUME NEW f, NEW n \in Nat, Prints(f, n), NEW k \in 0 .. n
  PROVE  f[k] = IF k < 10 THEN <<ZERO + k>> ELSE Append(f[k \div 10], ZERO + (k % 10))
BY Zenon DEF Prints

\* The quotient is smaller than the number.
LEMMA QuotientSmaller ==
  ASSUME NEW k \in Nat, k # 0
  PROVE  k \div 10 \in Nat /\ k \div 10 <= k - 1 /\ k % 10 \in 0 .. 9
         /\ k = (k \div 10) * 10 + (k % 10)
OBVIOUS

LEMMA PrintsExist == \A n \in Nat : \E f : Prints(f, n)
<1> DEFINE T == {n \in Nat : \E f : Prints(f, n)}
<1>1. 0 \in T
  <2>1. Prints([k \in 0 .. 0 |-> <<ZERO + k>>], 0)
    BY DEF Prints
  <2> QED BY <2>1
<1>2. ASSUME NEW n \in Nat, n \in T
      PROVE  n + 1 \in T
  <2>1. PICK f : Prints(f, n)
    BY <1>2
  <2> DEFINE g == [k \in 0 .. n + 1 |->
                     IF k <= n THEN f[k]
                     ELSE IF k < 10 THEN <<ZERO + k>>
                     ELSE Append(f[k \div 10], ZERO + (k % 10))]
  <2>2. ASSUME NEW k \in 0 .. n + 1
        PROVE  g[k] = IF k < 10 THEN <<ZERO + k>> ELSE Append(g[k \div 10], ZERO + (k % 10))
    <3>1. CASE k < 10
      BY <2>1, <3>1 DEF Prints
    <3>2. CASE ~(k < 10)
      <4>1. k \div 10 \in 0 .. n
        BY <3>2, QuotientSmaller
      <4>2. g[k \div 10] = f[k \div 10]
        BY <4>1
      <4>3. CASE k <= n
        <5>1. k \in 0 .. n /\ g[k] = f[k]
          BY <4>3
        <5> HIDE DEF g
        <5> QED BY <2>1, <3>2, <4>2, <5>1 DEF Prints
      <4>4. CASE ~(k <= n)
        <5>1. g[k] = Append(f[k \div 10], ZERO + (k % 10))
          BY <3>2, <4>4
        <5> HIDE DEF g
        <5> QED BY <3>2, <4>2, <5>1
      <4> QED BY <4>3, <4>4
    <3> QED BY <3>1, <3>2
  <2>3. Prints(g, n + 1)
    BY <2>2 DEF Prints
  <2> QED BY <2>3
<1> HIDE DEF T
<1>3. Nat \subseteq T
  BY <1>1, <1>2, Induction
<1> QED BY <1>3 DEF T

LEMMA PrintsUnique ==
  ASSUME NEW m \in Nat, NEW n \in Nat, NEW f, NEW g, Prints(f, m), Prints(g, n)
  PROVE  \A k \in Nat : k <= m /\ k <= n => f[k] = g[k]
<1> DEFINE Same(k) == k <= m /\ k <= n => f[k] = g[k]
           T == {k \in Nat : \A j \in 0 .. k : Same(j)}
<1>1. 0 \in T
  BY DEF Prints
<1>2. ASSUME NEW k \in Nat, k \in T
      PROVE  k + 1 \in T
  <2>1. Same(k + 1)
    <3> SUFFICES ASSUME k + 1 <= m, k + 1 <= n PROVE f[k + 1] = g[k + 1]
      OBVIOUS
    <3>1. CASE k + 1 < 10
      BY <3>1 DEF Prints
    <3>2. CASE ~(k + 1 < 10)
      <4>1. (k + 1) \div 10 \in 0 .. k
        BY <3>2, QuotientSmaller
      <4>2. f[(k + 1) \div 10] = g[(k + 1) \div 10]
        BY <1>2, <4>1
      <4>3. /\ f[k + 1] = Append(f[(k + 1) \div 10], ZERO + ((k + 1) % 10))
            /\ g[k + 1] = Append(g[(k + 1) \div 10], ZERO + ((k + 1) % 10))
        <5>1. k + 1 \in 0 .. m /\ k + 1 \in 0 .. n
          OBVIOUS
        <5>2. f[k + 1] = IF k + 1 < 10 THEN <<ZERO + (k + 1)>>
                         ELSE Append(f[(k + 1) \div 10], ZERO + ((k + 1) % 10))
          BY <5>1, PrintsAt, Zenon
        <5>3. g[k + 1] = IF k + 1 < 10 THEN <<ZERO + (k + 1)>>
                         ELSE Append(g[(k + 1) \div 10], ZERO + ((k + 1) % 10))
          BY <5>1, PrintsAt, Zenon
        <5> QED BY <3>2, <5>2, <5>3, Zenon
      <4> QED BY <4>2, <4>3, Zenon
    <3> QED BY <3>1, <3>2
  <2> HIDE DEF Same
  <2>2. ASSUME NEW j \in 0 .. k + 1 PROVE Same(j)
    BY <1>2, <2>1
  <2> QED BY <2>2
<1>3. Nat \subseteq T
  <2> HIDE DEF T
  <2> QED BY <1>1, <1>2, Induction
<1>4. ASSUME NEW k \in Nat PROVE Same(k)
  <2> HIDE DEF Same
  <2> QED BY <1>3
<1> QED BY <1>4

LEMMA PrintUintAt ==
  ASSUME NEW m \in Nat, NEW f, Prints(f, m), NEW n \in Nat, n <= m
  PROVE  PrintUint(n) = f[n]
<1> DEFINE g == CHOOSE f2 : f2 = [k \in 0 .. n |->
                  IF k < 10 THEN <<ZERO + k>> ELSE Append(f2[k \div 10], ZERO + (k % 10))]
<1>1. PrintUint(n) = g[n]
  BY DEF PrintUint
<1>2. PICK h : Prints(h, n)
  BY PrintsExist
<1>3. h = [k \in 0 .. n |->
             IF k < 10 THEN <<ZERO + k>> ELSE Append(h[k \div 10], ZERO + (k % 10))]
  BY <1>2 DEF Prints
<1>4. g = [k \in 0 .. n |->
             IF k < 10 THEN <<ZERO + k>> ELSE Append(g[k \div 10], ZERO + (k % 10))]
  BY <1>3
<1> HIDE DEF g
<1>5. Prints(g, n)
  BY <1>4 DEF Prints
<1>6. \A k \in Nat : k <= m /\ k <= n => f[k] = g[k]
  BY <1>5, PrintsUnique
<1> QED BY <1>1, <1>6

\* print_uint of a number with several digits: that of the quotient, and the
\* digit of the remainder.
LEMMA PrintUintIs ==
  ASSUME NEW n \in Nat
  PROVE  PrintUint(n) = IF n < 10 THEN <<ZERO + n>>
                        ELSE Append(PrintUint(n \div 10), ZERO + (n % 10))
<1>1. PICK f : Prints(f, n)
  BY PrintsExist
<1>2. PrintUint(n) = f[n]
  BY <1>1, PrintUintAt
<1>3. CASE n < 10
  BY <1>1, <1>2, <1>3 DEF Prints
<1>4. CASE ~(n < 10)
  <2>1. n \div 10 \in Nat /\ n \div 10 <= n
    BY <1>4, QuotientSmaller
  <2>2. PrintUint(n \div 10) = f[n \div 10]
    BY <1>1, <2>1, PrintUintAt
  <2>3. f[n] = Append(f[n \div 10], ZERO + (n % 10))
    <3>1. n \in 0 .. n
      OBVIOUS
    <3>2. f[n] = IF n < 10 THEN <<ZERO + n>> ELSE Append(f[n \div 10], ZERO + (n % 10))
      BY <1>1, <3>1, PrintsAt, Zenon
    <3> QED BY <1>4, <3>2, Zenon
  <2> QED BY <1>2, <1>4, <2>2, <2>3
<1> QED BY <1>3, <1>4
\* A numeral that stands for n, written the only way there is.
Writes(s, n) ==
  /\ s \in Numerals /\ s # <<>>
  /\ Value(s) = n
  /\ s[1] = ZERO => s = <<ZERO>>

\* A single digit,
LEMMA WritesDigit ==
  ASSUME NEW d \in 0 .. 9
  PROVE  Writes(<<ZERO + d>>, d)
<1>1. ZERO + d \in Digits /\ (ZERO + d) - ZERO = d
  BY DEF Digits, ZERO
<1>2. <<>> \in Numerals
  BY DEF Numerals
<1>3. <<ZERO + d>> = Append(<<>>, ZERO + d)
  OBVIOUS
<1>4. Append(<<>>, ZERO + d) \in Numerals
  BY <1>1, <1>2, ValueAppend
<1>5. Value(Append(<<>>, ZERO + d)) = Value(<<>>) * 10 + ((ZERO + d) - ZERO)
  BY <1>1, <1>2, ValueAppend
<1>6. Value(<<ZERO + d>>) = d
  BY <1>1, <1>3, <1>5, ValueEmpty
<1>7. <<ZERO + d>> # <<>> /\ (<<ZERO + d>>[1] = ZERO => <<ZERO + d>> = <<ZERO>>)
  OBVIOUS
<1> QED BY <1>3, <1>4, <1>6, <1>7 DEF Writes

\* and one more digit.
LEMMA WritesMore ==
  ASSUME NEW s, NEW n \in Nat, Writes(s, n), n # 0, NEW d \in 0 .. 9
  PROVE  Writes(Append(s, ZERO + d), n * 10 + d)
<1>1. ZERO + d \in Digits /\ (ZERO + d) - ZERO = d
  BY DEF Digits, ZERO
<1>2. s \in Numerals /\ s # <<>> /\ Value(s) = n
  BY DEF Writes
<1>3. Append(s, ZERO + d) \in Numerals
  BY <1>1, <1>2, ValueAppend
<1>4. Value(Append(s, ZERO + d)) = Value(s) * 10 + ((ZERO + d) - ZERO)
  BY <1>1, <1>2, ValueAppend
<1>5. Value(<<ZERO>>) = 0
  <2>1. Writes(<<ZERO + 0>>, 0)
    BY WritesDigit
  <2>2. ZERO + 0 = ZERO
    BY DEF ZERO
  <2> QED BY <2>1, <2>2 DEF Writes
<1>6. s[1] # ZERO
  BY <1>2, <1>5 DEF Writes
<1>7. Append(s, ZERO + d) # <<>> /\ Append(s, ZERO + d)[1] = s[1]
  BY <1>2 DEF Numerals
<1> QED BY <1>1, <1>2, <1>3, <1>4, <1>6, <1>7 DEF Writes

\* print_uint writes every number.
LEMMA PrintUintWrites == \A n \in Nat : Writes(PrintUint(n), n)
<1> DEFINE T == {n \in Nat : \A k \in 0 .. n : Writes(PrintUint(k), k)}
<1>1. ASSUME NEW n \in Nat, n < 10
      PROVE  Writes(PrintUint(n), n)
  <2>1. PrintUint(n) = <<ZERO + n>>
    BY <1>1, PrintUintIs
  <2>2. n \in 0 .. 9
    BY <1>1
  <2> QED BY <2>1, <2>2, WritesDigit
<1>2. ASSUME NEW n \in Nat, ~(n < 10), Writes(PrintUint(n \div 10), n \div 10)
      PROVE  Writes(PrintUint(n), n)
  <2>1. PrintUint(n) = Append(PrintUint(n \div 10), ZERO + (n % 10))
    BY <1>2, PrintUintIs
  <2>2. n \div 10 \in Nat /\ n \div 10 # 0 /\ n % 10 \in 0 .. 9
        /\ (n \div 10) * 10 + (n % 10) = n
    BY <1>2, QuotientSmaller
  <2>3. Writes(Append(PrintUint(n \div 10), ZERO + (n % 10)), (n \div 10) * 10 + (n % 10))
    BY <1>2, <2>2, WritesMore
  <2> QED BY <2>1, <2>2, <2>3
<1>3. 0 \in T
  BY <1>1
<1>4. ASSUME NEW n \in Nat, n \in T
      PROVE  n + 1 \in T
  <2>1. Writes(PrintUint(n + 1), n + 1)
    <3>1. CASE n + 1 < 10
      BY <1>1, <3>1
    <3>2. CASE ~(n + 1 < 10)
      <4>1. (n + 1) \div 10 \in 0 .. n
        BY <3>2, QuotientSmaller
      <4>2. Writes(PrintUint((n + 1) \div 10), (n + 1) \div 10)
        BY <1>4, <4>1
      <4> QED BY <1>2, <3>2, <4>2
    <3> QED BY <3>1, <3>2
  <2>2. ASSUME NEW k \in 0 .. n + 1 PROVE Writes(PrintUint(k), k)
    BY <1>4, <2>1
  <2> QED BY <2>2
<1>5. Nat \subseteq T
  <2> HIDE DEF T
  <2> QED BY <1>3, <1>4, Induction
<1>6. ASSUME NEW n \in Nat PROVE Writes(PrintUint(n), n)
  <2>1. n \in T /\ n \in 0 .. n
    BY <1>5
  <2> QED BY <2>1
<1> QED BY <1>6

-----------------------------------------------------------------------------
(* Strings in memory.                                                      *)

Text == Seq(1 .. 255)

LEMMA TextIs ==
  ASSUME NEW s \in Text
  PROVE  Len(s) \in Nat /\ \A k \in 1 .. Len(s) : s[k] \in 1 .. 255
<1>1. Len(s) \in Nat
  BY DEF Text
<1>2. ASSUME NEW k \in 1 .. Len(s) PROVE s[k] \in 1 .. 255
  <2> DEFINE B == 1 .. 255
  <2>1. s \in Seq(B)
    BY DEF Text
  <2> HIDE DEF B
  <2>2. s[k] \in B
    BY <2>1
  <2> QED BY <2>2 DEF B
<1> QED BY <1>1, <1>2

\* The string s lies at p.
StrAt(M, p, s) ==
  /\ \A k \in 1 .. Len(s) : M[p + k - 1] = s[k]
  /\ M[p + Len(s)] = NUL

\* The longest prefix of digits of a string ends before its first character
\* that is no digit.
LEMMA PrefixIs ==
  ASSUME NEW s \in Text, NEW m \in 0 .. Len(s), \A k \in 1 .. m : s[k] \in Digits,
         m = Len(s) \/ s[m + 1] \notin Digits
  PROVE  /\ Prefix(s) \in Numerals /\ Len(Prefix(s)) = m
         /\ \A k \in 1 .. m : Prefix(s)[k] = s[k]
<1> DEFINE lengths == {n \in 0 .. Len(s) : \A k \in 1 .. n : s[k] \in Digits}
           longest == CHOOSE n \in lengths : \A j \in lengths : j <= n
<1>1. Prefix(s) = SubSeq(s, 1, longest)
  BY DEF Prefix
<1>2. Len(s) \in Nat /\ \A k \in 1 .. Len(s) : s[k] \in 1 .. 255
  BY TextIs
<1>3. m \in lengths
  OBVIOUS
<1>4. \A j \in lengths : j <= m
  <2> SUFFICES ASSUME NEW j \in lengths, ~(j <= m) PROVE FALSE
    OBVIOUS
  <2>1. m + 1 \in 1 .. j /\ m # Len(s)
    BY <1>2
  <2> QED BY <2>1
<1>5. longest = m
  <2>1. \A n \in lengths : (\A j \in lengths : j <= n) => n = m
    BY <1>2, <1>3, <1>4
  <2> HIDE DEF lengths
  <2> QED BY <1>3, <1>4, <2>1
<1> HIDE DEF longest
<1>6. Len(SubSeq(s, 1, m)) = m /\ \A k \in 1 .. m : SubSeq(s, 1, m)[k] = s[k]
  BY <1>2 DEF Text
<1>7. SubSeq(s, 1, m) \in Numerals
  <2>1. SubSeq(s, 1, m) = [k \in 1 .. m |-> s[k]]
    BY <1>2 DEF Text
  <2>2. [k \in 1 .. m |-> s[k]] \in [1 .. m -> Digits]
    OBVIOUS
  <2>3. m \in Nat
    BY <1>2
  <2> QED BY <2>1, <2>2, <2>3 DEF Numerals
<1> QED BY <1>1, <1>5, <1>6, <1>7

\* There is such a character, or the string is all digits.
LEMMA PrefixEnds ==
  ASSUME NEW s \in Text
  PROVE  \E m \in 0 .. Len(s) : /\ \A k \in 1 .. m : s[k] \in Digits
                                /\ m = Len(s) \/ s[m + 1] \notin Digits
<1> DEFINE T == {n \in 0 .. Len(s) : n = Len(s) \/ s[n + 1] \notin Digits}
<1>1. Len(s) \in Nat
  BY DEF Text
<1>2. T \subseteq Nat /\ Len(s) \in T
  BY <1>1
<1>3. PICK m \in T : \A y \in T : m <= y
  <2> HIDE DEF T
  <2> QED BY <1>2, Least
<1>4. ASSUME NEW k \in 1 .. m PROVE s[k] \in Digits
  <2>1. k - 1 \in 0 .. Len(s) /\ k - 1 # Len(s) /\ (k - 1) + 1 = k /\ ~(m <= k - 1)
    BY <1>1
  <2>2. k - 1 \notin T
    BY <1>3, <2>1
  <2> QED BY <2>1, <2>2
<1>5. m \in 0 .. Len(s) /\ (m = Len(s) \/ s[m + 1] \notin Digits)
  OBVIOUS
<1> QED BY <1>4, <1>5

\* What parse_uint makes of any string.
LEMMA ParseUintPrefix ==
  ASSUME NEW M, NEW p \in Nat, NEW s \in Text, StrAt(M, p, s)
  PROVE  /\ Prefix(s) \in Numerals
         /\ ParseUint(M, p).rax = Value(Prefix(s)) % RegMod
         /\ ParseUint(M, p).rdx = Len(Prefix(s))
<1>1. PICK m \in 0 .. Len(s) : /\ \A k \in 1 .. m : s[k] \in Digits
                               /\ m = Len(s) \/ s[m + 1] \notin Digits
  BY PrefixEnds
<1>2. Prefix(s) \in Numerals
  BY <1>1, PrefixIs
<1>3. Len(Prefix(s)) = m
  BY <1>1, PrefixIs
<1>4. \A k \in 1 .. m : Prefix(s)[k] = s[k]
  BY <1>1, PrefixIs
<1>5. Len(s) \in Nat /\ \A k \in 1 .. Len(s) : s[k] \in 1 .. 255
  BY TextIs
<1>6. IsDigit(M[p + m]) = 10
  <2>1. CASE m = Len(s)
    <3>1. M[p + m] = 0 /\ 0 \in 0 .. 255 /\ 0 \notin Digits
      BY <2>1 DEF StrAt, NUL, Digits, ZERO
    <3> QED BY <3>1, IsDigitIs
  <2>2. CASE m # Len(s)
    <3>1. m + 1 \in 1 .. Len(s) /\ p + (m + 1) - 1 = p + m
      BY <1>5, <2>2
    <3>2. M[p + m] = s[m + 1]
      BY <3>1 DEF StrAt
    <3>3. s[m + 1] \in 0 .. 255 /\ s[m + 1] \notin Digits
      BY <1>1, <1>5, <2>2, <3>1
    <3> QED BY <3>2, <3>3, IsDigitIs
  <2> QED BY <2>1, <2>2
<1>7. DigitsAt(M, p, Prefix(s))
  <2>1. ASSUME NEW k \in 1 .. m PROVE M[p + k - 1] = Prefix(s)[k]
    <3>1. k \in 1 .. Len(s)
      BY <1>5
    <3> QED BY <1>4, <3>1 DEF StrAt
  <2> QED BY <1>3, <1>6, <2>1 DEF DigitsAt
<1>8. ParseUint(M, p).rax = Value(Prefix(s)) % RegMod
  BY <1>2, <1>7, ParseUintIs
<1>9. ParseUint(M, p).rdx = Len(Prefix(s))
  BY <1>2, <1>7, ParseUintIs
<1> QED BY <1>2, <1>8, <1>9
\* A minus is not a digit.
LEMMA MinusNoDigit ==
  ASSUME NEW s, NEW n, Writes(s, n)
  PROVE  ~Minus(s)
<1>1. s \in Numerals /\ s # <<>>
  BY DEF Writes
<1>2. s[1] \in Digits
  BY <1>1 DEF Numerals
<1> QED BY <1>2 DEF Digits, ZERO, MINUS, Minus

\* A numeral is its own longest prefix of digits.
LEMMA PrefixOfNumeral ==
  ASSUME NEW s \in Numerals
  PROVE  s \in Text /\ Prefix(s) = s
<1>1. Len(s) \in Nat /\ DOMAIN s = 1 .. Len(s) /\ \A k \in 1 .. Len(s) : s[k] \in Digits
  <2>1. Len(s) \in Nat /\ DOMAIN s = 1 .. Len(s)
    BY DEF Numerals
  <2>2. ASSUME NEW k \in 1 .. Len(s) PROVE s[k] \in Digits
    BY DEF Numerals
  <2> QED BY <2>1, <2>2
<1>2. Digits \subseteq 1 .. 255
  BY DEF Digits, ZERO
<1>3. s \in Text
  <2> DEFINE B == 1 .. 255
  <2>1. s \in Seq(Digits) /\ Digits \subseteq B
    BY <1>2 DEF Numerals
  <2> HIDE DEF B
  <2>2. s \in Seq(B)
    BY ONLY <2>1
  <2> QED BY <2>2 DEF Text, B
<1>4. Len(s) \in 0 .. Len(s)
  BY <1>1
<1>5. Prefix(s) \in Numerals
  BY <1>1, <1>3, <1>4, PrefixIs
<1>6. Len(Prefix(s)) = Len(s)
  BY <1>1, <1>3, <1>4, PrefixIs
<1>7. \A k \in 1 .. Len(s) : Prefix(s)[k] = s[k]
  BY <1>1, <1>3, <1>4, PrefixIs
<1>8. Prefix(s) = s
  <2> DEFINE t == Prefix(s)
  <2>1. t \in Seq(Digits) /\ s \in Seq(Digits) /\ Len(t) = Len(s)
        /\ \A k \in 1 .. Len(s) : t[k] = s[k]
    BY <1>5, <1>6, <1>7 DEF Numerals
  <2> HIDE DEF t
  <2>2. t = s
    BY ONLY <2>1
  <2> QED BY <2>2 DEF t
<1> QED BY <1>3, <1>8

\* Half of the registers.
LEMMA Half ==
  /\ RegMod \in Nat /\ RegMod \div 2 \in Nat /\ RegMod \div 2 > 0
  /\ RegMod \div 2 < RegMod
<1>1. RegMod \in Nat /\ RegMod >= 2
  <2>1. RegMod \in Nat /\ RegMod # 0 /\ RegMod % 256 = 0
    BY RegAssumption
  <2>2. RegMod # 1
    BY <2>1
  <2> QED BY <2>1, <2>2
<1> QED BY <1>1

\* neg of a value: together they are a multiple of the size of a register.
LEMMA NegIs ==
  ASSUME NEW m \in Nat \ {0}, NEW v \in Nat
  PROVE  /\ (m - (v % m)) % m \in 0 .. m - 1
         /\ (((m - (v % m)) % m) + v) % m = 0
<1>1. PICK q \in Int, u \in 0 .. m - 1 : u = v % m /\ v = q * m + u
  BY Division
<1>2. CASE u = 0
  <2>1. (m - u) % m = 0
    BY <1>2
  <2>2. v % m = 0
    BY <1>1, <1>2
  <2>3. (m - u) % m \in 0 .. m - 1 /\ ((m - u) % m) + v = v
    BY <2>1
  <2>4. u = v % m
    BY <1>1
  <2> QED BY ONLY <2>2, <2>3, <2>4, Zenon
<1>3. CASE u # 0
  <2>1. m - u \in 0 .. m - 1
    BY <1>3
  <2>2. (m - u) % m = m - u
    BY <2>1
  <2>3. (m - u) + v \in Nat
    BY <1>1, <2>1
  <2>4. PICK k \in Int, l \in 0 .. m - 1 :
          l = ((m - u) + v) % m /\ (m - u) + v = k * m + l
    BY <2>3, Division
  <2>5. (q + 1) * m + 0 = k * m + l
    <3>1. (q + 1) * m = q * m + m
      OBVIOUS
    <3>2. q * m \in Int /\ k * m \in Int /\ u \in Int /\ l \in Int
      OBVIOUS
    <3> DEFINE a == q * m
               b == k * m
    <3>3. a \in Int /\ b \in Int /\ v = a + u /\ (m - u) + v = b + l
      BY <1>1, <2>4, <3>2
    <3> HIDE DEF a, b
    <3>4. a + m = b + l
      BY <3>2, <3>3
    <3> QED BY <3>1, <3>2, <3>4 DEF a, b
  <2>6. q + 1 \in Int /\ 0 \in 0 .. m - 1
    OBVIOUS
  <2>7. 0 = l
    BY <2>4, <2>5, <2>6, QuotientUnique
  <2>8. (((m - u) % m) + v) % m = 0
    BY <2>2, <2>4, <2>7
  <2> QED BY <1>1, <2>1, <2>2, <2>8
<1> QED BY <1>2, <1>3

\* The rest of a string behind its first character.
LEMMA TailAt ==
  ASSUME NEW M, NEW p \in Nat, NEW s \in Text, StrAt(M, p, s), s # <<>>
  PROVE  Tail(s) \in Text /\ StrAt(M, p + 1, Tail(s)) /\ M[p] = s[1]
<1>1. Len(s) \in Nat /\ Len(s) # 0
  BY DEF Text
<1>2. Tail(s) \in Text /\ Len(Tail(s)) = Len(s) - 1
  <2> DEFINE B == 1 .. 255
  <2>1. s \in Seq(B) /\ s # <<>>
    BY DEF Text
  <2> HIDE DEF B
  <2>2. Tail(s) \in Seq(B) /\ Len(Tail(s)) = Len(s) - 1
    BY ONLY <2>1
  <2> QED BY <2>2 DEF Text, B
<1>3. ASSUME NEW k \in 1 .. Len(Tail(s))
      PROVE  M[(p + 1) + k - 1] = Tail(s)[k]
  <2>1. Tail(s)[k] = s[k + 1]
    <3> DEFINE B == 1 .. 255
    <3>1. s \in Seq(B) /\ s # <<>>
      BY DEF Text
    <3> HIDE DEF B
    <3> QED BY ONLY <3>1, k \in 1 .. Len(Tail(s))
  <2>2. k + 1 \in 1 .. Len(s) /\ p + (k + 1) - 1 = (p + 1) + k - 1
    BY <1>1, <1>2
  <2> QED BY <2>1, <2>2 DEF StrAt
<1>4. M[(p + 1) + Len(Tail(s))] = NUL
  <2>1. (p + 1) + Len(Tail(s)) = p + Len(s)
    BY <1>1, <1>2
  <2> QED BY <2>1 DEF StrAt
<1>5. M[p] = s[1]
  <2>1. 1 \in 1 .. Len(s) /\ p + 1 - 1 = p
    BY <1>1
  <2> QED BY <2>1 DEF StrAt
<1> QED BY <1>2, <1>3, <1>4, <1>5 DEF StrAt

\* What parse_int makes of any string.
LEMMA ParseIntPrefix ==
  ASSUME NEW M, NEW p \in Nat, NEW s \in Text, StrAt(M, p, s)
  PROVE  IF Minus(s)
         THEN /\ Prefix(Tail(s)) \in Numerals
              /\ ParseInt(M, p).rax = (RegMod - (Value(Prefix(Tail(s))) % RegMod)) % RegMod
              /\ ParseInt(M, p).rdx = Len(Prefix(Tail(s))) + 1
         ELSE ParseInt(M, p) = ParseUint(M, p)
<1>1. CASE Minus(s)
  <2>1. s # <<>> /\ s[1] = MINUS
    BY <1>1 DEF Minus
  <2>2. Tail(s) \in Text /\ StrAt(M, p + 1, Tail(s)) /\ M[p] = MINUS
    BY <2>1, TailAt
  <2>3. p + 1 \in Nat
    OBVIOUS
  <2>4. Prefix(Tail(s)) \in Numerals
    BY <2>2, <2>3, ParseUintPrefix
  <2>5. ParseUint(M, p + 1).rax = Value(Prefix(Tail(s))) % RegMod
    BY <2>2, <2>3, ParseUintPrefix
  <2>6. ParseUint(M, p + 1).rdx = Len(Prefix(Tail(s)))
    BY <2>2, <2>3, ParseUintPrefix
  <2>7. ParseInt(M, p) = [rax |-> (RegMod - ParseUint(M, p + 1).rax) % RegMod,
                          rdx |-> ParseUint(M, p + 1).rdx + 1]
    BY <2>2, Zenon DEF ParseInt
  <2> QED BY <1>1, <2>4, <2>5, <2>6, <2>7
<1>2. CASE ~Minus(s)
  <2>1. M[p] # MINUS
    <3>1. CASE s = <<>>
      <4>1. p + Len(s) = p
        BY <3>1
      <4> QED BY <4>1 DEF StrAt, NUL, MINUS
    <3>2. CASE s # <<>>
      BY <1>2, <3>2, TailAt DEF Minus
    <3> QED BY <3>1, <3>2
  <2> QED BY <1>2, <2>1 DEF ParseInt
<1> QED BY <1>1, <1>2
-----------------------------------------------------------------------------
(* Numbers out and back in.                                                *)

Decimal(s, n) == IF s THEN PrintInt(n) ELSE PrintUint(n)
Parses(s, M, p) == IF s THEN ParseInt(M, p) ELSE ParseUint(M, p)

\* The bytes that are parsed when a string was printed.
Printed(s) == [a \in 0 .. Len(s) |-> IF a = Len(s) THEN NUL ELSE s[a + 1]]

LEMMA PrintedAt ==
  ASSUME NEW s \in Text
  PROVE  StrAt(Printed(s), 0, s)
<1>1. Len(s) \in Nat
  BY TextIs
<1>2. ASSUME NEW k \in 1 .. Len(s) PROVE Printed(s)[0 + k - 1] = s[k]
  <2>1. k - 1 \in 0 .. Len(s) /\ k - 1 # Len(s) /\ (k - 1) + 1 = k /\ 0 + k - 1 = k - 1
    BY <1>1
  <2> QED BY <2>1 DEF Printed
<1>3. Printed(s)[0 + Len(s)] = NUL
  BY <1>1 DEF Printed
<1> QED BY <1>2, <1>3 DEF StrAt

\* A minus in front of a numeral.
LEMMA WithMinus ==
  ASSUME NEW d \in Numerals
  PROVE  /\ <<MINUS>> \o d \in Text /\ Minus(<<MINUS>> \o d)
         /\ Tail(<<MINUS>> \o d) = d /\ Len(<<MINUS>> \o d) = Len(d) + 1
         /\ <<MINUS>> \o d \in Seq({MINUS} \union Digits)
<1> DEFINE B == 1 .. 255
           C == {MINUS} \union Digits
           s == <<MINUS>> \o d
<1>1. MINUS \in B /\ MINUS \in C /\ Digits \subseteq B /\ Digits \subseteq C
  BY DEF MINUS, Digits, ZERO
<1>2. d \in Seq(Digits)
  BY DEF Numerals
<1> HIDE DEF B, C
<1>3. d \in Seq(B) /\ d \in Seq(C) /\ <<MINUS>> \in Seq(B) /\ <<MINUS>> \in Seq(C)
  BY ONLY <1>1, <1>2
<1>4. s \in Seq(B) /\ s \in Seq(C)
  BY <1>3
<1>5. Len(s) = Len(d) + 1 /\ s # <<>> /\ s[1] = MINUS
  BY <1>3
<1>6. Tail(s) = d
  <2>1. Len(d) \in Nat /\ Tail(s) \in Seq(B) /\ Len(Tail(s)) = Len(d)
    BY <1>3, <1>4, <1>5
  <2>2. ASSUME NEW k \in 1 .. Len(d) PROVE Tail(s)[k] = d[k]
    <3>1. Tail(s)[k] = s[k + 1]
      BY <1>4, <1>5, <2>1
    <3>2. s[k + 1] = d[k]
      BY <1>3, <2>1
    <3> QED BY <3>1, <3>2
  <2> HIDE DEF s
  <2> QED BY ONLY <1>3, <2>1, <2>2
<1> QED BY <1>4, <1>5, <1>6 DEF B, C, Text, Minus

\* A number that was printed is read back, and all of its text is used.
LEMMA PrintParse ==
  ASSUME NEW b \in BOOLEAN, NEW n \in 0 .. RegMod - 1
  PROVE  /\ Parses(b, Printed(Decimal(b, n)), 0).rax = n
         /\ Parses(b, Printed(Decimal(b, n)), 0).rdx = Len(Decimal(b, n))
<1> DEFINE s == Decimal(b, n)
           M == Printed(s)
<1>1. RegMod \in Nat /\ n \in Nat /\ n < RegMod
  BY Half
<1>2. ASSUME NEW v \in Nat, v < RegMod PROVE v % RegMod = v
  BY <1>1, <1>2
<1>3. CASE ~b \/ n < RegMod \div 2
  <2>1. s = PrintUint(n)
    BY <1>3 DEF Decimal, PrintInt
  <2>2. Writes(s, n)
    BY <1>1, <2>1, PrintUintWrites
  <2>3. s \in Numerals /\ Value(s) = n /\ ~Minus(s)
    BY <2>2, MinusNoDigit DEF Writes
  <2>4. s \in Text /\ Prefix(s) = s
    BY <2>3, PrefixOfNumeral
  <2>5. StrAt(M, 0, s)
    BY <2>4, PrintedAt
  <2> HIDE DEF s, M
  <2>6. Parses(b, M, 0) = ParseUint(M, 0)
    <3>1. ParseInt(M, 0) = ParseUint(M, 0)
      BY <2>3, <2>4, <2>5, ParseIntPrefix
    <3> QED BY <3>1 DEF Parses
  <2>7. ParseUint(M, 0).rax = Value(Prefix(s)) % RegMod
    BY <2>4, <2>5, ParseUintPrefix
  <2>8. ParseUint(M, 0).rdx = Len(Prefix(s))
    BY <2>4, <2>5, ParseUintPrefix
  <2>9. Value(Prefix(s)) = n
    BY <2>3, <2>4
  <2>10. Parses(b, M, 0).rax = n
    BY <1>1, <1>2, <2>6, <2>7, <2>9
  <2>11. Parses(b, M, 0).rdx = Len(s)
    BY <2>4, <2>6, <2>8
  <2> QED BY <2>10, <2>11 DEF s, M
<1>4. CASE b /\ ~(n < RegMod \div 2)
  <2> DEFINE v == RegMod - n
             d == PrintUint(v)
  <2>1. v \in Nat /\ v < RegMod /\ v # 0
    BY <1>1, <1>4, Half
  <2>2. s = <<MINUS>> \o d
    BY <1>4 DEF Decimal, PrintInt
  <2>3. Writes(d, v)
    BY <2>1, PrintUintWrites
  <2>4. d \in Numerals /\ Value(d) = v
    BY <2>3 DEF Writes
  <2>5. s \in Text /\ Minus(s) /\ Tail(s) = d /\ Len(s) = Len(d) + 1
    BY <2>2, <2>4, WithMinus
  <2>6. Prefix(d) = d
    BY <2>4, PrefixOfNumeral
  <2>7. StrAt(M, 0, s)
    BY <2>5, PrintedAt
  <2> HIDE DEF s, M, d
  <2>8. ParseInt(M, 0).rax = (RegMod - (Value(Prefix(Tail(s))) % RegMod)) % RegMod
    BY <2>5, <2>7, ParseIntPrefix
  <2>9. ParseInt(M, 0).rdx = Len(Prefix(Tail(s))) + 1
    BY <2>5, <2>7, ParseIntPrefix
  <2>10. v % RegMod = v /\ n % RegMod = n /\ RegMod - v = n
    BY <1>1, <1>2, <2>1
  <2>11. Parses(b, M, 0) = ParseInt(M, 0)
    BY <1>4 DEF Parses
  <2>12. Value(Prefix(Tail(s))) = v /\ Len(Prefix(Tail(s))) = Len(d)
    BY <2>4, <2>5, <2>6
  <2> HIDE DEF v
  <2>13. Parses(b, M, 0).rax = n
    BY ONLY <2>8, <2>10, <2>11, <2>12, Zenon
  <2>14. Parses(b, M, 0).rdx = Len(s)
    BY ONLY <2>5, <2>9, <2>11, <2>12, Zenon
  <2> QED BY <2>13, <2>14 DEF s, M
<1> QED BY <1>3, <1>4
\* What is printed is the only way to write the number.
LEMMA PrintCanonical ==
  ASSUME NEW b \in BOOLEAN, NEW n \in 0 .. RegMod - 1
  PROVE  LET s == Decimal(b, n)
             digits == IF Minus(s) THEN Tail(s) ELSE s
         IN  /\ s \in Seq({MINUS} \union Digits)
             /\ digits # <<>> /\ \A k \in DOMAIN digits : digits[k] \in Digits
             /\ digits[1] = ZERO => s = <<ZERO>>
             /\ Value(digits) = IF Minus(s) THEN RegMod - n ELSE n
<1> DEFINE s == Decimal(b, n)
           digits == IF Minus(s) THEN Tail(s) ELSE s
<1>1. RegMod \in Nat /\ n \in Nat /\ n < RegMod
  BY Half
<1>2. CASE ~b \/ n < RegMod \div 2
  <2>1. s = PrintUint(n)
    BY <1>2 DEF Decimal, PrintInt
  <2>2. Writes(s, n)
    BY <1>1, <2>1, PrintUintWrites
  <2>3. ~Minus(s)
    BY <2>2, MinusNoDigit
  <2> HIDE DEF s
  <2>4. digits = s
    BY <2>3
  <2>5. \A k \in DOMAIN s : s[k] \in Digits
    BY <2>2 DEF Writes, Numerals
  <2>6. s \in Seq({MINUS} \union Digits)
    BY <2>2 DEF Writes, Numerals
  <2> HIDE DEF digits
  <2>7. /\ digits # <<>> /\ \A k \in DOMAIN digits : digits[k] \in Digits
        /\ digits[1] = ZERO => s = <<ZERO>>
        /\ Value(digits) = n
    BY <2>2, <2>4, <2>5 DEF Writes
  <2> QED BY <2>3, <2>6, <2>7 DEF digits, s
<1>3. CASE b /\ ~(n < RegMod \div 2)
  <2> DEFINE v == RegMod - n
             d == PrintUint(v)
  <2>1. v \in Nat /\ v < RegMod /\ v # 0
    BY <1>1, <1>3, Half
  <2>2. s = <<MINUS>> \o d
    BY <1>3 DEF Decimal, PrintInt
  <2>3. Writes(d, v)
    BY <2>1, PrintUintWrites
  <2>4. d \in Numerals /\ Value(d) = v /\ d # <<>>
    BY <2>3 DEF Writes
  <2>5. Minus(s) /\ Tail(s) = d /\ s \in Seq({MINUS} \union Digits)
    BY <2>2, <2>4, WithMinus
  <2> HIDE DEF s, d
  <2>6. digits = d
    BY <2>5
  <2>7. \A k \in DOMAIN d : d[k] \in Digits
    BY <2>4 DEF Numerals
  <2>8. d[1] # ZERO
    <3>1. Value(<<ZERO>>) = 0
      <4>1. Writes(<<ZERO + 0>>, 0)
        BY WritesDigit
      <4>2. ZERO + 0 = ZERO
        BY DEF ZERO
      <4> QED BY <4>1, <4>2 DEF Writes
    <3> QED BY <2>1, <2>3, <2>4, <3>1 DEF Writes
  <2> HIDE DEF digits
  <2>9. /\ digits # <<>> /\ \A k \in DOMAIN digits : digits[k] \in Digits
        /\ digits[1] # ZERO /\ Value(digits) = RegMod - n
    BY <2>4, <2>6, <2>7, <2>8
  <2> QED BY <2>5, <2>9 DEF digits, s
<1> QED BY <1>2, <1>3

-----------------------------------------------------------------------------
(* The client's memory.                                                    *)

\* The text is a string at TEXT.
LEMMA TextAt ==
  ASSUME NEW s \in Text, NEW n \in Nat
  PROVE  StrAt(Memory(s, n), TEXT, s)
<1>1. Len(s) \in Nat
  BY TextIs
<1>2. ASSUME NEW k \in 1 .. Len(s) PROVE Memory(s, n)[TEXT + k - 1] = s[k]
  <2>1. /\ TEXT + k - 1 \in 0 .. Len(s) + n + 4 /\ TEXT + k - 1 < Len(s)
        /\ (TEXT + k - 1) + 1 = k
    BY <1>1 DEF TEXT
  <2> QED BY <2>1 DEF Memory
<1>3. Memory(s, n)[TEXT + Len(s)] = NUL
  <2>1. TEXT + Len(s) = Len(s) /\ Len(s) \in 0 .. Len(s) + n + 4 /\ ~(Len(s) < Len(s))
    BY <1>1 DEF TEXT
  <2> QED BY <2>1 DEF Memory
<1> QED BY <1>2, <1>3 DEF StrAt

\* The memory holds bytes.
LEMMA MemoryBytes ==
  ASSUME NEW s \in Text, NEW n \in Nat
  PROVE  /\ DOMAIN Memory(s, n) = 0 .. Len(s) + n + 4
         /\ \A a \in 0 .. Len(s) + n + 4 : Memory(s, n)[a] \in 0 .. 255
<1>1. Len(s) \in Nat /\ \A k \in 1 .. Len(s) : s[k] \in 1 .. 255
  BY TextIs
<1>2. ASSUME NEW a \in 0 .. Len(s) + n + 4 PROVE Memory(s, n)[a] \in 0 .. 255
  <2>1. a < Len(s) => s[a + 1] \in 1 .. 255
    <3>1. a < Len(s) => a + 1 \in 1 .. Len(s)
      BY <1>1
    <3> QED BY <1>1, <3>1
  <2> QED BY <1>1, <2>1 DEF Memory, NUL, BEHIND
<1>3. DOMAIN Memory(s, n) = 0 .. Len(s) + n + 4
  BY DEF Memory
<1> QED BY <1>2, <1>3

\* string_length of a string.
LEMMA LengthOfString ==
  ASSUME NEW M, NEW p \in Nat, NEW s \in Text, StrAt(M, p, s)
  PROVE  StringLength(M, p) = Len(s)
<1>1. Len(s) \in Nat /\ \A k \in 1 .. Len(s) : s[k] \in 1 .. 255
  BY TextIs
<1>2. ASSUME NEW k \in 0 .. Len(s) - 1 PROVE M[p + k] # NUL
  <2>1. k + 1 \in 1 .. Len(s) /\ p + (k + 1) - 1 = p + k
    BY <1>1
  <2>2. M[p + k] = s[k + 1]
    BY <2>1 DEF StrAt
  <2>3. s[k + 1] \in 1 .. 255
    BY <1>1, <2>1
  <2>4. \A x \in 1 .. 255 : x # NUL
    BY DEF NUL
  <2> QED BY ONLY <2>2, <2>3, <2>4, Zenon
<1>3. M[p + Len(s)] = NUL
  BY DEF StrAt
<1> QED BY <1>1, <1>2, <1>3, StringLengthIs

\* What becomes of the memory: the whole text is copied with its terminator, or
\* nothing is.
Whole(s, n, c) ==
  /\ DOMAIN c.mem = 0 .. Len(s) + n + 4
  /\ \A a \in DOMAIN c.mem : c.mem[a] \in 0 .. 255
  /\ Len(s) # n => \A a \in Len(s) + 1 + n .. Len(s) + n + 4 : c.mem[a] = BEHIND
  /\ IF Len(s) <= n THEN c.rax = Len(s) /\ StringEquals(c.mem, TEXT, Len(s) + 1)
     ELSE c.rax = 0 /\ c.mem = Memory(s, n)

\* string_copy to the buffer behind the text.
CopyOf(s, n) == StringCopy(Memory(s, n), TEXT, Len(s) + 1, n)

LEMMA CopyIs ==
  ASSUME NEW s \in Text, NEW n \in Nat
  PROVE  Whole(s, n, CopyOf(s, n))
<1> DEFINE M == Memory(s, n)
           c == CopyOf(s, n)
<1>0. c = StringCopy(M, TEXT, Len(s) + 1, n)
  BY DEF CopyOf
<1> HIDE DEF c, M
<1> SUFFICES Whole(s, n, c)
  BY DEF c
<1> DEFINE L == Len(s)
           A == 0 .. L + n + 4
<1>1. L \in Nat
  BY TextIs
<1>2. DOMAIN M = A /\ \A a \in A : M[a] \in 0 .. 255
  BY MemoryBytes DEF M
<1>3. StrAt(M, TEXT, s)
  BY TextAt DEF M
<1>4. StringLength(M, TEXT) = L
  BY <1>3, LengthOfString DEF TEXT
<1>5. ASSUME NEW a \in L + 1 + n .. L + n + 4
      PROVE  a \in A /\ M[a] = BEHIND
  <2>1. a \in A /\ ~(a < L) /\ a # L /\ ~(a <= L + n)
    BY <1>1
  <2> QED BY <2>1 DEF Memory, M
<1>6. CASE ~(L <= n)
  <2>1. c = [mem |-> M, rax |-> 0]
    BY <1>0, <1>1, <1>4, <1>6 DEF StringCopy
  <2>2. c.mem = M /\ c.rax = 0
    BY <2>1
  <2>3. \A a \in L + 1 + n .. L + n + 4 : M[a] = BEHIND
    BY <1>5
  <2>4. DOMAIN c.mem = A /\ \A a \in DOMAIN c.mem : c.mem[a] \in 0 .. 255
    <3> HIDE DEF A
    <3> QED BY <1>2, <2>2, Zenon
  <2>5. \A a \in L + 1 + n .. L + n + 4 : c.mem[a] = BEHIND
    BY <2>2, <2>3, Zenon
  <2> QED BY <1>6, <2>2, <2>4, <2>5, Zenon DEF A, L, M, Whole
<1>7. CASE L <= n
  <2> DEFINE N == [a \in DOMAIN M |->
                     IF a \in L + 1 .. L + 1 + L THEN M[TEXT + a - (L + 1)] ELSE M[a]]
  <2>1. c = [mem |-> N, rax |-> L]
    BY <1>0, <1>1, <1>4, <1>7 DEF StringCopy
  <2>2. ASSUME NEW a \in A
        PROVE  /\ a \in L + 1 .. L + 1 + L => /\ a - (L + 1) \in A
                                              /\ N[a] = M[a - (L + 1)]
               /\ a \notin L + 1 .. L + 1 + L => N[a] = M[a]
    <3>1. TEXT + a - (L + 1) = a - (L + 1)
      BY <1>1 DEF TEXT
    <3>2. a \in L + 1 .. L + 1 + L => a - (L + 1) \in A
      BY <1>1
    <3>3. N[a] = IF a \in L + 1 .. L + 1 + L THEN M[TEXT + a - (L + 1)] ELSE M[a]
      BY <1>2
    <3> HIDE DEF N, A
    <3> QED BY <3>1, <3>2, <3>3
  <2>3. DOMAIN N = A
    BY <1>2
  <2> HIDE DEF N
  <2>4. \A a \in A : N[a] \in 0 .. 255
    <3> SUFFICES ASSUME NEW a \in A PROVE N[a] \in 0 .. 255
      OBVIOUS
    <3>1. CASE a \in L + 1 .. L + 1 + L
      <4>1. a - (L + 1) \in A /\ N[a] = M[a - (L + 1)]
        BY <2>2, <3>1
      <4> HIDE DEF A
      <4> QED BY <1>2, <4>1
    <3>2. CASE a \notin L + 1 .. L + 1 + L
      <4>1. N[a] = M[a]
        BY <2>2, <3>2
      <4> HIDE DEF A
      <4> QED BY <1>2, <4>1
    <3> QED BY <3>1, <3>2
  <2>5. ASSUME L # n, NEW a \in L + 1 + n .. L + n + 4
        PROVE  N[a] = BEHIND
    <3>1. a \in A /\ a \notin L + 1 .. L + 1 + L
      BY <1>1, <1>7, <2>5
    <3> QED BY <1>5, <2>2, <2>5, <3>1
  <2>6. \A k \in 0 .. L : N[k] = M[k]
    <3> SUFFICES ASSUME NEW k \in 0 .. L PROVE N[k] = M[k]
      OBVIOUS
    <3>1. k \in A /\ k \notin L + 1 .. L + 1 + L
      BY <1>1
    <3> QED BY <2>2, <3>1
  <2>7. StrAt(N, TEXT, s)
    <3>1. ASSUME NEW k \in 1 .. Len(s) PROVE N[TEXT + k - 1] = s[k]
      <4>1. TEXT + k - 1 \in 0 .. L
        BY <1>1 DEF TEXT
      <4> QED BY <1>3, <2>6, <4>1 DEF StrAt
    <3>2. TEXT + Len(s) \in 0 .. L
      BY <1>1 DEF TEXT
    <3> QED BY <1>3, <2>6, <3>1, <3>2 DEF StrAt
  <2>8. StringLength(N, TEXT) = L
    BY <2>7, LengthOfString DEF TEXT
  <2>9. ASSUME NEW k \in 0 .. L
        PROVE  N[TEXT + k] = N[(L + 1) + k]
    <3>1. /\ TEXT + k = k /\ (L + 1) + k \in A /\ (L + 1) + k \in L + 1 .. L + 1 + L
          /\ ((L + 1) + k) - (L + 1) = k
      BY <1>1, <1>7 DEF TEXT
    <3>2. N[(L + 1) + k] = M[((L + 1) + k) - (L + 1)]
      BY <2>2, <3>1
    <3> QED BY <2>6, <3>1, <3>2
  <2>10. StringEquals(N, TEXT, L + 1)
    <3> HIDE DEF L
    <3> QED BY <2>8, <2>9 DEF StringEquals
  <2>11. c.mem = N /\ c.rax = L
    BY <2>1
  <2> HIDE DEF A, L
  <2> QED BY <1>7, <2>3, <2>4, <2>5, <2>10, <2>11, Zenon DEF A, L, M, Whole
<1> QED BY <1>6, <1>7
-----------------------------------------------------------------------------
(* The clients.  Each procedure is called once, so what the variables hold *)
(* is what the last call makes of what the client started with.            *)

\* What the client keeps, and what it gets.
Kept ==
  /\ text \in Texts /\ size \in BufferSizes /\ signed \in BOOLEAN
  /\ pc \in {"start", "parsed", "number", "printed", "read_back", "copied"}
  /\ number \in 0 .. RegMod - 1

\* The results of the parser, and the memory and the result of the copy.
Results ==
  /\ pc \in {"start", "number"} => rax = 0 /\ rdx = 0
  /\ pc \in {"parsed", "printed"} =>
       \/ rax = 0 /\ rdx = 0
       \/ rax = Parses(signed, mem, TEXT).rax /\ rdx = Parses(signed, mem, TEXT).rdx
  /\ pc = "parsed" =>
       rax = Parses(signed, mem, TEXT).rax /\ rdx = Parses(signed, mem, TEXT).rdx
  /\ pc = "read_back" =>
       /\ rax = Parses(signed, Printed(stdout), 0).rax
       /\ rdx = Parses(signed, Printed(stdout), 0).rdx
  /\ pc = "copied" =>
       mem = CopyOf(text, size).mem /\ rax = CopyOf(text, size).rax /\ rdx = 0
  /\ pc # "copied" => mem = Memory(text, size)

\* What was printed.
Output == stdout = IF pc \in {"printed", "read_back"} THEN Decimal(signed, number) ELSE <<>>

Calls == Kept /\ Results /\ Output

\* A text and a buffer as the client's.
LEMMA KeptIs ==
  ASSUME Kept
  PROVE  /\ text \in Text /\ size \in Nat /\ Len(text) \in Nat
         /\ Len(text) < RegMod /\ BUFFER = Len(text) + 1 /\ RegMod \in Nat \ {0}
<1>1. text \in Text /\ size \in Nat
  BY TextsAssumption DEF Kept, Text
<1>2. Len(text) \in Nat /\ RegMod \in Nat
  BY <1>1, Half, TextIs
<1>3. Len(text) + size + 4 < RegMod
  BY TextsAssumption DEF Kept
<1> QED BY <1>1, <1>2, <1>3, Half DEF BUFFER

\* A parser's results fit the registers.
LEMMA ParsesFit ==
  ASSUME NEW b \in BOOLEAN, NEW M, NEW p \in Nat, NEW s \in Text, StrAt(M, p, s)
  PROVE  Parses(b, M, p).rax \in 0 .. RegMod - 1 /\ Parses(b, M, p).rdx \in Nat
<1>1. RegMod \in Nat \ {0}
  BY Half
<1>2. \A v \in Nat : v % RegMod \in 0 .. RegMod - 1
  BY <1>1
<1>3. \A t \in Numerals : Value(t) \in Nat /\ Len(t) \in Nat
  <2> SUFFICES ASSUME NEW t \in Numerals PROVE Value(t) \in Nat /\ Len(t) \in Nat
    OBVIOUS
  <2>1. PICK d : d \in Digits
    BY DEF Digits, ZERO
  <2>2. Value(t) \in Nat
    BY <2>1, ValueAppend
  <2> QED BY <2>2 DEF Numerals
<1>4. ParseUint(M, p).rax \in 0 .. RegMod - 1 /\ ParseUint(M, p).rdx \in Nat
  <2>1. Prefix(s) \in Numerals
    BY ParseUintPrefix
  <2>2. ParseUint(M, p).rax = Value(Prefix(s)) % RegMod
    BY ParseUintPrefix
  <2>3. ParseUint(M, p).rdx = Len(Prefix(s))
    BY ParseUintPrefix
  <2> QED BY <1>2, <1>3, <2>1, <2>2, <2>3
<1>5. ParseInt(M, p).rax \in 0 .. RegMod - 1 /\ ParseInt(M, p).rdx \in Nat
  <2>1. CASE Minus(s)
    <3> DEFINE v == Value(Prefix(Tail(s)))
    <3>1. Prefix(Tail(s)) \in Numerals
      BY <2>1, ParseIntPrefix
    <3>2. ParseInt(M, p).rax = (RegMod - (v % RegMod)) % RegMod
      BY <2>1, ParseIntPrefix
    <3>3. ParseInt(M, p).rdx = Len(Prefix(Tail(s))) + 1
      BY <2>1, ParseIntPrefix
    <3>4. v \in Nat /\ Len(Prefix(Tail(s))) \in Nat
      BY <1>3, <3>1
    <3> HIDE DEF v
    <3>5. (RegMod - (v % RegMod)) % RegMod \in 0 .. RegMod - 1
      BY <1>1, <3>4, NegIs
    <3> QED BY <3>2, <3>3, <3>4, <3>5
  <2>2. CASE ~Minus(s)
    <3>1. ParseInt(M, p) = ParseUint(M, p)
      BY <2>2, ParseIntPrefix
    <3> QED BY <1>4, <3>1
  <2> QED BY <2>1, <2>2
<1> QED BY <1>4, <1>5 DEF Parses

LEMMA InitCalls == Init => Calls
<1> SUFFICES ASSUME Init PROVE Calls
  OBVIOUS
<1>1. Kept
  BY Half DEF Init, Kept
<1>2. Results
  BY DEF Init, Results
<1>3. Output
  BY DEF Init, Output
<1> QED BY <1>1, <1>2, <1>3 DEF Calls

LEMMA NextCalls == Calls /\ [Next]_vars => Calls'
<1> SUFFICES ASSUME Calls, [Next]_vars PROVE Calls'
  OBVIOUS
<1>1. Kept /\ Results /\ Output
  BY DEF Calls
<1>2. text \in Text /\ size \in Nat /\ BUFFER = Len(text) + 1
  BY <1>1, KeptIs
<1>3. CASE Parse
  <2>1. /\ pc = "start" /\ pc' = "parsed" /\ number' = rax'
        /\ rax' = Parses(signed, mem, TEXT).rax /\ rdx' = Parses(signed, mem, TEXT).rdx
        /\ UNCHANGED <<text, mem, size, signed, stdout>>
    BY <1>3, Zenon DEF Parse, Parses
  <2>2. mem = Memory(text, size)
    BY <1>1, <2>1 DEF Results
  <2>3. rax' \in 0 .. RegMod - 1
    <3>1. StrAt(mem, TEXT, text) /\ TEXT \in Nat
      BY <1>2, <2>2, TextAt DEF TEXT
    <3>2. signed \in BOOLEAN
      BY <1>1 DEF Kept
    <3> QED BY <1>2, <2>1, <3>1, <3>2, ParsesFit
  <2>4. Kept'
    BY <1>1, <2>1, <2>3 DEF Kept
  <2>5. Results'
    BY <1>1, <2>1, <2>2 DEF Results
  <2>6. Output'
    BY <1>1, <2>1 DEF Output
  <2> QED BY <2>4, <2>5, <2>6 DEF Calls
<1>4. CASE Choose
  <2>1. /\ pc = "start" /\ pc' = "number" /\ number' \in 0 .. RegMod - 1
        /\ UNCHANGED <<text, mem, size, signed, rax, rdx, stdout>>
    BY <1>4 DEF Choose
  <2>2. Kept'
    BY <1>1, <2>1 DEF Kept
  <2>3. Results'
    BY <1>1, <2>1 DEF Results
  <2>4. Output'
    BY <1>1, <2>1 DEF Output
  <2> QED BY <2>2, <2>3, <2>4 DEF Calls
<1>5. CASE PrintNumber
  <2>1. /\ pc \in {"parsed", "number"} /\ pc' = "printed" /\ stdout' = Decimal(signed, number)
        /\ UNCHANGED <<text, mem, size, number, signed, rax, rdx>>
    BY <1>5, Zenon DEF PrintNumber, Decimal
  <2>2. Kept'
    BY <1>1, <2>1 DEF Kept
  <2>3. Results'
    BY <1>1, <2>1 DEF Results
  <2>4. Output'
    BY <1>1, <2>1 DEF Output
  <2> QED BY <2>2, <2>3, <2>4 DEF Calls
<1>6. CASE ReadBack
  <2>1. /\ pc = "printed" /\ pc' = "read_back"
        /\ rax' = Parses(signed, Printed(stdout), 0).rax
        /\ rdx' = Parses(signed, Printed(stdout), 0).rdx
        /\ UNCHANGED <<text, mem, size, number, signed, stdout>>
    BY <1>6, Zenon DEF ReadBack, Parses, Printed
  <2>2. Kept'
    BY <1>1, <2>1 DEF Kept
  <2>3. Results'
    BY <1>1, <2>1 DEF Results
  <2>4. Output'
    BY <1>1, <2>1 DEF Output
  <2> QED BY <2>2, <2>3, <2>4 DEF Calls
<1>7. CASE Copy
  <2>1. /\ pc = "start" /\ pc' = "copied"
        /\ mem' = StringCopy(mem, TEXT, BUFFER, size).mem
        /\ rax' = StringCopy(mem, TEXT, BUFFER, size).rax
        /\ UNCHANGED <<text, size, number, signed, rdx, stdout>>
    BY <1>7, Zenon DEF Copy
  <2>2. mem = Memory(text, size) /\ rdx = 0
    BY <1>1, <2>1 DEF Results
  <2>3. Kept'
    BY <1>1, <2>1 DEF Kept
  <2>4. Results'
    <3>1. /\ mem' = CopyOf(text, size).mem
          /\ rax' = CopyOf(text, size).rax
          /\ rdx' = 0 /\ text' = text /\ size' = size
      BY <1>2, <2>1, <2>2 DEF CopyOf
    <3> QED BY <2>1, <3>1 DEF Results
  <2>5. Output'
    BY <1>1, <2>1 DEF Output
  <2> QED BY <2>3, <2>4, <2>5 DEF Calls
<1>8. CASE UNCHANGED vars
  BY <1>1, <1>8 DEF vars, Calls, Kept, Results, Output
<1> QED BY <1>3, <1>4, <1>5, <1>6, <1>7, <1>8 DEF Next

THEOREM CallsHold == Spec => []Calls
<1> QED BY InitCalls, NextCalls, PTL DEF Spec
\* The results fit the registers, the memory holds bytes, and what is printed is
\* digits and minuses.
THEOREM TypesCorrect == Spec => []TypeOK
<1>1. Calls => TypeOK
  <2> SUFFICES ASSUME Calls PROVE TypeOK
    OBVIOUS
  <2>1. Kept /\ Results /\ Output
    BY DEF Calls
  <2>2. /\ text \in Text /\ size \in Nat /\ Len(text) \in Nat /\ Len(text) < RegMod
        /\ RegMod \in Nat \ {0} /\ signed \in BOOLEAN /\ number \in 0 .. RegMod - 1
    BY <2>1, KeptIs DEF Kept
  <2>3. StrAt(Memory(text, size), TEXT, text) /\ TEXT \in Nat
    BY <2>2, TextAt DEF TEXT
  <2>4. stdout \in Text => StrAt(Printed(stdout), 0, stdout)
    BY PrintedAt
  <2>5. stdout \in Seq({MINUS} \union Digits) /\ stdout \in Text
    <3> DEFINE B == 1 .. 255
               C == {MINUS} \union Digits
    <3>1. C \subseteq B
      BY DEF MINUS, Digits, ZERO
    <3>2. Decimal(signed, number) \in Seq(C)
      BY <2>2, PrintCanonical
    <3> HIDE DEF B, C
    <3>3. <<>> \in Seq(C)
      OBVIOUS
    <3>4. stdout \in Seq(C)
      BY <2>1, <3>2, <3>3 DEF Output
    <3>5. stdout \in Seq(B)
      BY ONLY <3>1, <3>4
    <3> QED BY <3>4, <3>5 DEF B, C, Text
  <2>6. rax \in 0 .. RegMod - 1 /\ rdx \in Nat
    <3>1. CASE rax = 0 /\ rdx = 0
      BY <2>2, <3>1
    <3>2. CASE /\ mem = Memory(text, size)
               /\ rax = Parses(signed, mem, TEXT).rax /\ rdx = Parses(signed, mem, TEXT).rdx
      BY <2>2, <2>3, <3>2, ParsesFit
    <3>3. CASE /\ rax = Parses(signed, Printed(stdout), 0).rax
               /\ rdx = Parses(signed, Printed(stdout), 0).rdx
      BY <2>2, <2>4, <2>5, <3>3, ParsesFit
    <3>4. CASE pc = "copied"
      <4> DEFINE c == CopyOf(text, size)
      <4>1. rax = c.rax /\ rdx = 0
        BY <2>1, <3>4 DEF Results
      <4>2. IF Len(text) <= size THEN c.rax = Len(text) ELSE c.rax = 0
        BY <2>2, CopyIs, Zenon DEF Whole
      <4> HIDE DEF c
      <4>3. c.rax = Len(text) \/ c.rax = 0
        BY <4>2
      <4> QED BY <2>2, <4>1, <4>3
    <3> QED BY <2>1, <3>1, <3>2, <3>3, <3>4 DEF Results, Kept
  <2>7. DOMAIN mem = 0 .. Len(text) + size + 4 /\ \A a \in DOMAIN mem : mem[a] \in 0 .. 255
    <3>1. CASE pc # "copied"
      <4>1. mem = Memory(text, size)
        BY <2>1, <3>1 DEF Results
      <4>2. DOMAIN Memory(text, size) = 0 .. Len(text) + size + 4
        BY <2>2, MemoryBytes
      <4>3. \A a \in 0 .. Len(text) + size + 4 : Memory(text, size)[a] \in 0 .. 255
        BY <2>2, MemoryBytes
      <4> QED BY <4>1, <4>2, <4>3
    <3>2. CASE pc = "copied"
      <4> DEFINE c == CopyOf(text, size)
      <4>1. mem = c.mem
        BY <2>1, <3>2 DEF Results
      <4>2. DOMAIN c.mem = 0 .. Len(text) + size + 4
        BY <2>2, CopyIs, Zenon DEF Whole
      <4>3. \A a \in DOMAIN c.mem : c.mem[a] \in 0 .. 255
        BY <2>2, CopyIs, Zenon DEF Whole
      <4> HIDE DEF c
      <4> QED BY <4>1, <4>2, <4>3
    <3> QED BY <3>1, <3>2
  <2> QED BY <2>1, <2>2, <2>5, <2>6, <2>7, Zenon DEF TypeOK, Kept, Digits
<1> QED BY <1>1, CallsHold, PTL

\* parse_uint and parse_int read the longest prefix of digits of any text, and
\* count it, whatever follows it and however many digits it has.
THEOREM PrefixesAreParsed == Spec => []ParsesPrefix
<1>1. Calls => ParsesPrefix
  <2> SUFFICES ASSUME Calls, pc = "parsed"
               PROVE  IF signed /\ Minus(text)
                      THEN LET digits == Prefix(Tail(text)) IN
                           digits # <<>> => /\ rdx = Len(digits) + 1
                                            /\ (rax + Value(digits)) % RegMod = 0
                      ELSE /\ rdx = Len(Prefix(text))
                           /\ rax = Value(Prefix(text)) % RegMod
    BY Zenon DEF ParsesPrefix
  <2>1. Kept /\ Results
    BY DEF Calls
  <2>2. text \in Text /\ size \in Nat /\ RegMod \in Nat \ {0}
    BY <2>1, KeptIs
  <2>3. /\ mem = Memory(text, size)
        /\ rax = Parses(signed, mem, TEXT).rax /\ rdx = Parses(signed, mem, TEXT).rdx
    BY <2>1 DEF Results
  <2>4. StrAt(mem, TEXT, text) /\ TEXT \in Nat
    BY <2>2, <2>3, TextAt DEF TEXT
  <2>5. CASE signed /\ Minus(text)
    <3> DEFINE v == Value(Prefix(Tail(text)))
    <3>1. Prefix(Tail(text)) \in Numerals
      BY <2>2, <2>4, <2>5, ParseIntPrefix
    <3>2. ParseInt(mem, TEXT).rax = (RegMod - (v % RegMod)) % RegMod
      BY <2>2, <2>4, <2>5, ParseIntPrefix
    <3>3. ParseInt(mem, TEXT).rdx = Len(Prefix(Tail(text))) + 1
      BY <2>2, <2>4, <2>5, ParseIntPrefix
    <3>4. v \in Nat
      <4>1. ZERO \in Digits
        BY DEF Digits, ZERO
      <4> QED BY <3>1, <4>1, ValueAppend
    <3> HIDE DEF v
    <3>5. (((RegMod - (v % RegMod)) % RegMod) + v) % RegMod = 0
      BY <2>2, <3>4, NegIs
    <3>6. Parses(signed, mem, TEXT) = ParseInt(mem, TEXT)
      BY <2>5 DEF Parses
    <3>7. rdx = Len(Prefix(Tail(text))) + 1
      BY <2>3, <3>3, <3>6
    <3>8. (rax + v) % RegMod = 0
      BY ONLY <2>3, <3>2, <3>5, <3>6, Zenon
    <3> QED BY <2>5, <3>7, <3>8, Zenon DEF v
  <2>6. CASE ~(signed /\ Minus(text))
    <3>1. Parses(signed, mem, TEXT) = ParseUint(mem, TEXT)
      <4>1. CASE ~signed
        BY <4>1 DEF Parses
      <4>2. CASE signed /\ ~Minus(text)
        <5>1. ParseInt(mem, TEXT) = ParseUint(mem, TEXT)
          BY <2>2, <2>4, <4>2, ParseIntPrefix
        <5> QED BY <4>2, <5>1 DEF Parses
      <4> QED BY <2>6, <4>1, <4>2
    <3>2. ParseUint(mem, TEXT).rax = Value(Prefix(text)) % RegMod
      BY <2>2, <2>4, ParseUintPrefix
    <3>3. ParseUint(mem, TEXT).rdx = Len(Prefix(text))
      BY <2>2, <2>4, ParseUintPrefix
    <3> QED BY <2>3, <2>6, <3>1, <3>2, <3>3, Zenon
  <2> QED BY <2>5, <2>6, Zenon
<1> QED BY <1>1, CallsHold, PTL

\* Every number, signed or not, is read back as it was printed, and all of the
\* text is used.
THEOREM NumbersSurvive == Spec => []RoundTrip
<1>1. Calls => RoundTrip
  <2> SUFFICES ASSUME Calls, pc = "read_back" PROVE rax = number /\ rdx = Len(stdout)
    BY DEF RoundTrip
  <2>1. /\ stdout = Decimal(signed, number)
        /\ rax = Parses(signed, Printed(stdout), 0).rax
        /\ rdx = Parses(signed, Printed(stdout), 0).rdx
        /\ signed \in BOOLEAN /\ number \in 0 .. RegMod - 1
    BY DEF Calls, Kept, Results, Output
  <2> QED BY <2>1, PrintParse, Zenon
<1> QED BY <1>1, CallsHold, PTL

\* Every number is printed the only way it can be written.
THEOREM NumbersAreCanonical == Spec => []Canonical
<1>1. Calls => Canonical
  <2> SUFFICES ASSUME Calls, pc = "printed"
               PROVE  LET digits == IF Minus(stdout) THEN Tail(stdout) ELSE stdout
                      IN /\ digits # <<>> /\ \A k \in DOMAIN digits : digits[k] \in Digits
                         /\ digits[1] = ZERO => stdout = <<ZERO>>
                         /\ Value(digits) = IF Minus(stdout) THEN RegMod - number ELSE number
    BY Zenon DEF Canonical
  <2>1. /\ stdout = Decimal(signed, number)
        /\ signed \in BOOLEAN /\ number \in 0 .. RegMod - 1
    BY DEF Calls, Kept, Output
  <2> QED BY <2>1, PrintCanonical, Zenon
<1> QED BY <1>1, CallsHold, PTL

\* string_copy copies every text whole, into a buffer of any size, or leaves the
\* buffer alone; it writes at most one byte behind the buffer.
THEOREM CopiesAreWhole == Spec => []CopiesWhole
<1>1. Calls => CopiesWhole
  <2> SUFFICES ASSUME Calls, pc = "copied", Len(text) # size
               PROVE  /\ IF Len(text) < size
                         THEN rax = Len(text) /\ StringEquals(mem, TEXT, BUFFER)
                         ELSE rax = 0 /\ mem = Memory(text, size)
                      /\ \A a \in BUFFER + size .. Len(text) + size + 4 : mem[a] = BEHIND
    BY Zenon DEF CopiesWhole
  <2> DEFINE c == CopyOf(text, size)
  <2>1. mem = c.mem /\ rax = c.rax
    BY DEF Calls, Results
  <2>2. text \in Text /\ size \in Nat /\ BUFFER = Len(text) + 1 /\ Len(text) \in Nat
    BY KeptIs DEF Calls
  <2>3. \A a \in Len(text) + 1 + size .. Len(text) + size + 4 : c.mem[a] = BEHIND
    BY <2>2, CopyIs, Zenon DEF Whole
  <2>4. \A a \in DOMAIN c.mem : c.mem[a] \in 0 .. 255
    BY <2>2, CopyIs, Zenon DEF Whole
  <2>5. DOMAIN c.mem = 0 .. Len(text) + size + 4
    BY <2>2, CopyIs, Zenon DEF Whole
  <2>6. IF Len(text) <= size
        THEN c.rax = Len(text) /\ StringEquals(c.mem, TEXT, Len(text) + 1)
        ELSE c.rax = 0 /\ c.mem = Memory(text, size)
    BY <2>2, CopyIs, Zenon DEF Whole
  <2> HIDE DEF c
  <2>7. \A a \in BUFFER + size .. Len(text) + size + 4 : mem[a] = BEHIND
    BY ONLY <2>1, <2>2, <2>3, Zenon
  <2>8. IF Len(text) <= size
        THEN rax = Len(text) /\ StringEquals(mem, TEXT, BUFFER)
        ELSE rax = 0 /\ mem = Memory(text, size)
    BY ONLY <2>1, <2>2, <2>6, Zenon
  <2>9. Len(text) < size <=> Len(text) <= size
    BY <2>2
  <2> QED BY <2>7, <2>8, <2>9
<1> QED BY <1>1, CallsHold, PTL
=============================================================================
