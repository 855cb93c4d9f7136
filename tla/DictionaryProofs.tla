--------------------------- MODULE DictionaryProofs ---------------------------
(***************************************************************************)
(* What the dictionary program does with every input, every buffer and     *)
(* every list of words.  First the layout: where `colon` puts what.  Then  *)
(* the run: what is read up to each point, and that the search stands at   *)
(* an entry behind which no key is the word.                               *)
(***************************************************************************)
EXTENDS Dictionary, WellFoundedInduction, TLAPS

-----------------------------------------------------------------------------
(* Induction, and the ends of strings.                                     *)

\* Every set of numbers has a least one,
LEMMA Least ==
  ASSUME NEW T, T \subseteq Nat, T # {}
  PROVE  \E x \in T : \A y \in T : x <= y
<1> DEFINE R == OpToRel(<, Nat)
<1>1. IsWellFoundedOn(R, Nat)
  BY NatLessThanWellFounded, Zenon
<1>2. \A x, y \in Nat : y < x => <<y, x>> \in R
  BY DEF OpToRel
<1> HIDE DEF R
<1>3. \E x \in T : \A y \in T : ~ (<<y, x>> \in R)
  BY <1>1, WFMin, Zenon
<1>4. PICK x \in T : \A y \in T : ~ (<<y, x>> \in R)
  BY <1>3
<1>5. \A y \in T : ~ (y < x)
  BY <1>2, <1>4, Zenon
<1>6. \A y \in T : x <= y
  BY <1>5
<1> QED BY <1>6

\* so a set with zero and the successor of each of its numbers has them all.
LEMMA Induction ==
  ASSUME NEW T, 0 \in T, \A n \in Nat : n \in T => n + 1 \in T
  PROVE  Nat \subseteq T
<1> DEFINE U == Nat \ T
<1> SUFFICES ASSUME U # {} PROVE FALSE
  OBVIOUS
<1>1. PICK x \in U : \A y \in U : x <= y
  BY Least
<1>2. x # 0 /\ x \in Nat /\ x - 1 \in Nat /\ x - 1 \in T
  BY <1>1
<1> QED BY <1>2, <1>1

\* The loops of string_length: from n on to the next of Z.
Stops(f, Z) == f = [n \in Nat |-> IF n \in Z THEN n ELSE f[n + 1]]

\* There is such a function, whether or not there is a next one,
LEMMA StopsExist ==
  ASSUME NEW Z, Z \subseteq Nat
  PROVE  \E f : Stops(f, Z)
<1> DEFINE Above(n) == {m \in Z : n <= m}
           Next1(n) == CHOOSE x \in Above(n) : \A y \in Above(n) : x <= y
           g == [n \in Nat |-> IF Above(n) = {} THEN 0 ELSE Next1(n)]
<1>1. ASSUME NEW n \in Nat
      PROVE  g[n] = IF n \in Z THEN n ELSE g[n + 1]
  <2>1. CASE n \in Z
    <3>1. n \in Above(n) /\ \A y \in Above(n) : n <= y
      BY <2>1
    <3>2. \A x \in Above(n) : (\A y \in Above(n) : x <= y) => x = n
      BY <3>1
    <3>3. Next1(n) = n
      BY <3>1, <3>2
    <3> QED BY <2>1, <3>1, <3>3
  <2>2. CASE n \notin Z
    <3>1. Above(n) = Above(n + 1)
      <4>1. ASSUME NEW m \in Z PROVE n <= m <=> n + 1 <= m
        BY <2>2
      <4> QED BY <4>1
    <3>2. Next1(n) = Next1(n + 1)
      BY <3>1, Zenon
    <3>3. n + 1 \in Nat
      OBVIOUS
    <3>4. g[n] = (IF Above(n) = {} THEN 0 ELSE Next1(n))
      OBVIOUS
    <3>5. g[n + 1] = (IF Above(n + 1) = {} THEN 0 ELSE Next1(n + 1))
      BY <3>3, Zenon
    <3> HIDE DEF g, Above, Next1
    <3> QED BY <2>2, <3>1, <3>2, <3>4, <3>5
  <2> QED BY <2>1, <2>2
<1> HIDE DEF g
<1>2. g = [n \in Nat |-> g[n]]
  BY DEF g
<1>3. g = [n \in Nat |-> IF n \in Z THEN n ELSE g[n + 1]]
  BY <1>1, <1>2
<1> QED BY <1>3 DEF Stops

\* and if there is one, it is found.
LEMMA StopsAt ==
  ASSUME NEW Z, NEW f, Stops(f, Z), NEW m \in Nat, m \in Z, \A k \in 0 .. m - 1 : k \notin Z
  PROVE  f[0] = m
<1> DEFINE T == {j \in Nat : j <= m => f[0] = f[j]}
<1>1. 0 \in T
  OBVIOUS
<1>2. ASSUME NEW j \in Nat, j \in T
      PROVE  j + 1 \in T
  BY <1>2 DEF Stops
<1> HIDE DEF T
<1>3. Nat \subseteq T
  BY <1>1, <1>2, Induction
<1>4. f[0] = f[m]
  BY <1>3 DEF T
<1> QED BY <1>4 DEF Stops

\* string_length finds the first zero byte.
LEMMA StringLengthIs ==
  ASSUME NEW M, NEW p \in Nat, NEW m \in Nat, M[p + m] = NUL,
         \A k \in 0 .. m - 1 : M[p + k] # NUL
  PROVE  StringLength(M, p) = m
<1> DEFINE Z == {n \in Nat : M[p + n] = NUL}
           f == CHOOSE f : f = [n \in Nat |-> IF M[p + n] = NUL THEN n ELSE f[n + 1]]
<1>1. StringLength(M, p) = f[0]
  BY DEF StringLength
<1>2. PICK g : Stops(g, Z)
  BY StopsExist
<1>3. g = [n \in Nat |-> IF M[p + n] = NUL THEN n ELSE g[n + 1]]
  BY <1>2 DEF Stops
<1>4. f = [n \in Nat |-> IF M[p + n] = NUL THEN n ELSE f[n + 1]]
  BY <1>3
<1> HIDE DEF f
<1>5. Stops(f, Z)
  BY <1>4 DEF Stops
<1>6. m \in Z /\ \A k \in 0 .. m - 1 : k \notin Z
  OBVIOUS
<1> HIDE DEF Z
<1> QED BY <1>1, <1>5, <1>6, StopsAt

LEMMA TextIs ==
  ASSUME NEW s \in Texts
  PROVE  Len(s) \in Nat /\ \A k \in 1 .. Len(s) : s[k] \in 1 .. 255
<1>1. Len(s) \in Nat
  BY DEF Texts
<1>2. ASSUME NEW k \in 1 .. Len(s) PROVE s[k] \in 1 .. 255
  <2> DEFINE B == 1 .. 255
  <2>1. s \in Seq(B)
    BY DEF Texts
  <2> HIDE DEF B
  <2>2. s[k] \in B
    BY <2>1
  <2> QED BY <2>2 DEF B
<1> QED BY <1>1, <1>2

\* The string s lies at p.
StrAt(M, p, s) ==
  /\ \A k \in 1 .. Len(s) : M[p + k - 1] = s[k]
  /\ M[p + Len(s)] = NUL

\* string_length of a string.
LEMMA LengthOfString ==
  ASSUME NEW M, NEW p \in Nat, NEW s \in Texts, StrAt(M, p, s)
  PROVE  StringLength(M, p) = Len(s)
<1>1. Len(s) \in Nat /\ \A k \in 1 .. Len(s) : s[k] \in 1 .. 255
  BY TextIs
<1>2. ASSUME NEW k \in 0 .. Len(s) - 1 PROVE M[p + k] # NUL
  <2>1. k + 1 \in 1 .. Len(s) /\ p + (k + 1) - 1 = p + k
    BY <1>1
  <2>2. M[p + k] = s[k + 1]
    BY <2>1 DEF StrAt
  <2>3. s[k + 1] \in 1 .. 255
    BY <1>1, <2>1
  <2>4. \A x \in 1 .. 255 : x # NUL
    BY DEF NUL
  <2> QED BY ONLY <2>2, <2>3, <2>4, Zenon
<1>3. M[p + Len(s)] = NUL
  BY DEF StrAt
<1> QED BY <1>1, <1>2, <1>3, StringLengthIs

\* The string itself.
LEMMA StringAtIs ==
  ASSUME NEW M, NEW p \in Nat, NEW s \in Texts, StrAt(M, p, s)
  PROVE  StringAt(M, p) = s
<1>1. Len(s) \in Nat /\ s = [k \in 1 .. Len(s) |-> s[k]]
  BY DEF Texts
<1>2. StringLength(M, p) = Len(s)
  BY LengthOfString
<1>3. \A k \in 1 .. Len(s) : M[p + k - 1] = s[k]
  BY DEF StrAt
<1> QED BY <1>1, <1>2, <1>3 DEF StringAt

\* string_equals tells whether two strings are equal.
LEMMA StringEqualsIs ==
  ASSUME NEW M, NEW p \in Nat, NEW q \in Nat, NEW s \in Texts, NEW t \in Texts,
         StrAt(M, p, s), StrAt(M, q, t)
  PROVE  StringEquals(M, p, q) <=> s = t
<1>1. Len(s) \in Nat /\ \A k \in 1 .. Len(s) : s[k] \in 1 .. 255
  BY TextIs
<1>2. Len(t) \in Nat /\ \A k \in 1 .. Len(t) : t[k] \in 1 .. 255
  BY TextIs
<1>3. StringEquals(M, p, q) <=> \A k \in 0 .. Len(s) : M[p + k] = M[q + k]
  <2>1. StringLength(M, p) = Len(s)
    BY LengthOfString
  <2> QED BY <2>1 DEF StringEquals
<1>4. \A k \in 0 .. Len(s) - 1 : M[p + k] = s[k + 1] /\ M[p + k] # NUL
  <2> SUFFICES ASSUME NEW k \in 0 .. Len(s) - 1 PROVE M[p + k] = s[k + 1] /\ M[p + k] # NUL
    OBVIOUS
  <2>1. k + 1 \in 1 .. Len(s) /\ p + (k + 1) - 1 = p + k
    BY <1>1
  <2>2. M[p + k] = s[k + 1]
    BY <2>1 DEF StrAt
  <2>3. \A x \in 1 .. 255 : x # NUL
    BY DEF NUL
  <2> QED BY <1>1, <2>1, <2>2, <2>3, Zenon
<1>5. \A k \in 0 .. Len(t) - 1 : M[q + k] = t[k + 1] /\ M[q + k] # NUL
  <2> SUFFICES ASSUME NEW k \in 0 .. Len(t) - 1 PROVE M[q + k] = t[k + 1] /\ M[q + k] # NUL
    OBVIOUS
  <2>1. k + 1 \in 1 .. Len(t) /\ q + (k + 1) - 1 = q + k
    BY <1>2
  <2>2. M[q + k] = t[k + 1]
    BY <2>1 DEF StrAt
  <2>3. \A x \in 1 .. 255 : x # NUL
    BY DEF NUL
  <2> QED BY <1>2, <2>1, <2>2, <2>3, Zenon
<1>6. M[p + Len(s)] = NUL /\ M[q + Len(t)] = NUL
  BY DEF StrAt
<1>7. ASSUME s = t, NEW k \in 0 .. Len(s) PROVE M[p + k] = M[q + k]
  <2>1. CASE k = Len(s)
    BY <1>6, <1>7, <2>1
  <2>2. CASE k # Len(s)
    <3>1. k \in 0 .. Len(s) - 1
      BY <1>1, <2>2
    <3> QED BY <1>4, <1>5, <1>7, <3>1
  <2> QED BY <2>1, <2>2
<1>8. ASSUME \A k \in 0 .. Len(s) : M[p + k] = M[q + k]
      PROVE  s = t
  <2>1. ~(Len(t) < Len(s))
    <3> SUFFICES ASSUME Len(t) < Len(s) PROVE FALSE
      OBVIOUS
    <3>1. Len(t) \in 0 .. Len(s) - 1 /\ Len(t) \in 0 .. Len(s)
      BY <1>1, <1>2
    <3> QED BY <1>4, <1>6, <1>8, <3>1
  <2>2. ~(Len(s) < Len(t))
    <3> SUFFICES ASSUME Len(s) < Len(t) PROVE FALSE
      OBVIOUS
    <3>1. Len(s) \in 0 .. Len(t) - 1 /\ Len(s) \in 0 .. Len(s)
      BY <1>1, <1>2
    <3> QED BY <1>5, <1>6, <1>8, <3>1
  <2>3. Len(s) = Len(t)
    BY <1>1, <1>2, <2>1, <2>2
  <2>4. ASSUME NEW k \in 1 .. Len(s) PROVE s[k] = t[k]
    <3>1. k - 1 \in 0 .. Len(s) - 1 /\ k - 1 \in 0 .. Len(s) /\ (k - 1) + 1 = k
      BY <1>1
    <3>2. M[p + (k - 1)] = s[(k - 1) + 1]
      BY ONLY <1>4, <3>1
    <3>3. M[q + (k - 1)] = t[(k - 1) + 1]
      BY ONLY <1>5, <2>3, <3>1
    <3>4. M[p + (k - 1)] = M[q + (k - 1)]
      BY ONLY <1>8, <3>1
    <3> QED BY ONLY <3>1, <3>2, <3>3, <3>4
  <2> DEFINE B == 1 .. 255
  <2>5. s \in Seq(B) /\ t \in Seq(B)
    BY DEF Texts
  <2> HIDE DEF B
  <2> QED BY ONLY <2>3, <2>4, <2>5
<1> QED BY <1>3, <1>7, <1>8

\* Strings behind one another.
LEMMA ConcatIs ==
  ASSUME NEW s \in Seq(Nat), NEW t \in Seq(Nat)
  PROVE  /\ s \o t \in Seq(Nat) /\ Len(s \o t) = Len(s) + Len(t)
         /\ \A k \in 1 .. Len(s) : (s \o t)[k] = s[k]
         /\ \A k \in 1 .. Len(t) : (s \o t)[Len(s) + k] = t[k]
OBVIOUS
\* A string and its terminator behind something else.
WithString(s, t) == s \o t \o <<NUL>>

LEMMA WithStringIs ==
  ASSUME NEW s \in Seq(Nat), NEW t \in Texts
  PROVE  /\ WithString(s, t) \in Seq(Nat) /\ Len(WithString(s, t)) = Len(s) + Len(t) + 1
         /\ \A k \in 1 .. Len(s) : WithString(s, t)[k] = s[k]
         /\ StrAt(WithString(s, t), Len(s) + 1, t)
<1> DEFINE u == s \o t
           v == u \o <<NUL>>
<1>1. Len(s) \in Nat /\ Len(t) \in Nat
  BY TextIs
<1>2. t \in Seq(Nat) /\ <<NUL>> \in Seq(Nat) /\ Len(<<NUL>>) = 1 /\ <<NUL>>[1] = NUL
  <2>1. t = [k \in 1 .. Len(t) |-> t[k]]
    BY DEF Texts
  <2>2. \A k \in 1 .. Len(t) : t[k] \in Nat
    <3>1. \A k \in 1 .. Len(t) : t[k] \in 1 .. 255
      BY TextIs
    <3>2. \A x \in 1 .. 255 : x \in Nat
      OBVIOUS
    <3> QED BY <3>1, <3>2, Zenon
  <2>3. [k \in 1 .. Len(t) |-> t[k]] \in [1 .. Len(t) -> Nat]
    BY <2>2
  <2>4. t \in Seq(Nat)
    BY <1>1, <2>1, <2>3
  <2> QED BY <2>4 DEF NUL
<1>3. u \in Seq(Nat)
  BY <1>2, ConcatIs
<1>4. Len(u) = Len(s) + Len(t)
  BY <1>2, ConcatIs
<1>5. \A k \in 1 .. Len(s) : u[k] = s[k]
  BY <1>2, ConcatIs
<1>6. \A k \in 1 .. Len(t) : u[Len(s) + k] = t[k]
  BY <1>2, ConcatIs
<1> HIDE DEF u
<1>7. v \in Seq(Nat)
  BY <1>2, <1>3, ConcatIs
<1>8. Len(v) = Len(u) + 1
  BY <1>2, <1>3, ConcatIs
<1>9. \A k \in 1 .. Len(u) : v[k] = u[k]
  BY <1>2, <1>3, ConcatIs
<1>10. v[Len(u) + 1] = NUL
  <2>1. \A k \in 1 .. Len(<<NUL>>) : v[Len(u) + k] = <<NUL>>[k]
    BY <1>2, <1>3, ConcatIs
  <2>2. 1 \in 1 .. Len(<<NUL>>)
    BY <1>2
  <2> QED BY <1>2, <2>1, <2>2
<1> HIDE DEF v
<1>11. \A k \in 1 .. Len(s) : v[k] = s[k]
  BY <1>1, <1>4, <1>5, <1>9
<1>12. StrAt(v, Len(s) + 1, t)
  <2>1. ASSUME NEW k \in 1 .. Len(t) PROVE v[(Len(s) + 1) + k - 1] = t[k]
    <3>1. (Len(s) + 1) + k - 1 = Len(s) + k /\ Len(s) + k \in 1 .. Len(u)
      BY <1>1, <1>4
    <3> QED BY <1>6, <1>9, <3>1
  <2>2. v[(Len(s) + 1) + Len(t)] = NUL
    <3>1. (Len(s) + 1) + Len(t) = Len(u) + 1
      BY <1>1, <1>4
    <3> QED BY <1>10, <3>1
  <2> QED BY <2>1, <2>2 DEF StrAt
<1>13. WithString(s, t) = v
  BY DEF WithString, u, v
<1> QED BY <1>4, <1>7, <1>8, <1>11, <1>12, <1>13

\* A string that was moved is still one.
LEMMA StrMoved ==
  ASSUME NEW M, NEW N, NEW p \in Nat, NEW d \in Nat, NEW s \in Texts, StrAt(M, p, s),
         \A a \in p .. p + Len(s) : N[d + a] = M[a]
  PROVE  StrAt(N, d + p, s)
<1>1. Len(s) \in Nat
  BY TextIs
<1>2. ASSUME NEW k \in 1 .. Len(s) PROVE N[(d + p) + k - 1] = s[k]
  <2>1. p + k - 1 \in p .. p + Len(s) /\ d + (p + k - 1) = (d + p) + k - 1
    BY <1>1
  <2>2. M[p + k - 1] = s[k]
    BY DEF StrAt
  <2> QED BY <2>1, <2>2
<1>3. N[(d + p) + Len(s)] = NUL
  <2>1. p + Len(s) \in p .. p + Len(s) /\ d + (p + Len(s)) = (d + p) + Len(s)
    BY <1>1
  <2>2. M[p + Len(s)] = NUL
    BY DEF StrAt
  <2> QED BY <2>1, <2>2
<1> QED BY <1>2, <1>3 DEF StrAt

-----------------------------------------------------------------------------
(* The layout.                                                             *)

\* How many entries there are, and what they are made of.
LEMMA WordsAre ==
  /\ Len(Words) \in Nat \ {0} /\ DOMAIN Words = 1 .. Len(Words)
  /\ \A i \in 1 .. Len(Words) :
       /\ Words[i].key \in Texts /\ Words[i].value \in Texts
       /\ Len(Words[i].key) \in Nat /\ Len(Words[i].value) \in Nat
       /\ EntrySize(Words[i]) = Len(Words[i].key) + Len(Words[i].value) + 3
       /\ EntrySize(Words[i]) \in Nat
<1>1. Words \in Seq([key : Texts, value : Texts]) /\ Words # <<>>
  BY DictionaryAssumption
<1>2. Len(Words) \in Nat \ {0} /\ DOMAIN Words = 1 .. Len(Words)
  BY <1>1
<1>3. ASSUME NEW i \in 1 .. Len(Words)
      PROVE  /\ Words[i].key \in Texts /\ Words[i].value \in Texts
             /\ Len(Words[i].key) \in Nat /\ Len(Words[i].value) \in Nat
             /\ EntrySize(Words[i]) = Len(Words[i].key) + Len(Words[i].value) + 3
             /\ EntrySize(Words[i]) \in Nat
  <2>1. Words[i] \in [key : Texts, value : Texts]
    <3> DEFINE S == [key : Texts, value : Texts]
    <3>1. Words \in Seq(S)
      BY <1>1
    <3> HIDE DEF S
    <3>2. Words[i] \in S
      BY <3>1
    <3> QED BY <3>2 DEF S
  <2>2. Words[i].key \in Texts /\ Words[i].value \in Texts
    BY <2>1
  <2>3. Len(Words[i].key) \in Nat /\ Len(Words[i].value) \in Nat
    BY <2>2, TextIs
  <2>4. EntrySize(Words[i]) = WORD_SIZE + Len(Words[i].key) + 1 + Len(Words[i].value) + 1
    BY DEF EntrySize
  <2> DEFINE x == Len(Words[i].key)
             y == Len(Words[i].value)
  <2>5. x \in Nat /\ y \in Nat /\ EntrySize(Words[i]) = 1 + x + 1 + y + 1
    BY <2>3, <2>4 DEF WORD_SIZE
  <2> HIDE DEF x, y
  <2>6. EntrySize(Words[i]) = x + y + 3 /\ EntrySize(Words[i]) \in Nat
    BY <2>5
  <2> QED BY <2>2, <2>3, <2>6, Zenon DEF x, y
<1> QED BY <1>2, <1>3

\* Addresses of entries, up to the m-th.
Lays(f, m) ==
  f = [i \in 1 .. m |->
         IF i = 1 THEN BuffErrAt + Len(BuffErr) + 1 ELSE f[i - 1] + EntrySize(Words[i - 1])]

LEMMA LaysExist == \A m \in Nat : \E f : Lays(f, m)
<1> DEFINE T == {m \in Nat : \E f : Lays(f, m)}
<1>1. 0 \in T
  <2>1. Lays([i \in 1 .. 0 |-> 0], 0)
    BY DEF Lays
  <2> QED BY <2>1
<1>2. ASSUME NEW m \in Nat, m \in T
      PROVE  m + 1 \in T
  <2>1. PICK f : Lays(f, m)
    BY <1>2
  <2> DEFINE g == [i \in 1 .. m + 1 |->
                     IF i <= m THEN f[i]
                     ELSE IF i = 1 THEN BuffErrAt + Len(BuffErr) + 1
                     ELSE f[i - 1] + EntrySize(Words[i - 1])]
  <2>2. ASSUME NEW i \in 1 .. m + 1
        PROVE  g[i] = IF i = 1 THEN BuffErrAt + Len(BuffErr) + 1
                      ELSE g[i - 1] + EntrySize(Words[i - 1])
    BY <2>1 DEF Lays
  <2>3. g = [i \in 1 .. m + 1 |-> g[i]]
    OBVIOUS
  <2> HIDE DEF g
  <2>4. Lays(g, m + 1)
    BY <2>2, <2>3, Zenon DEF Lays
  <2> QED BY <2>4
<1> HIDE DEF T
<1>3. Nat \subseteq T
  BY <1>1, <1>2, Induction
<1> QED BY <1>3 DEF T

\* EntryAt is what its definition says.
LEMMA EntryAtLays == Lays(EntryAt, Len(Words))
<1> DEFINE f == CHOOSE f : f = [i \in 1 .. Len(Words) |->
                  IF i = 1 THEN BuffErrAt + Len(BuffErr) + 1
                  ELSE f[i - 1] + EntrySize(Words[i - 1])]
<1>1. EntryAt = f
  BY DEF EntryAt
<1>2. PICK g : Lays(g, Len(Words))
  BY WordsAre, LaysExist
<1>3. g = [i \in 1 .. Len(Words) |->
             IF i = 1 THEN BuffErrAt + Len(BuffErr) + 1
             ELSE g[i - 1] + EntrySize(Words[i - 1])]
  BY <1>2, Zenon DEF Lays
<1>4. f = [i \in 1 .. Len(Words) |->
             IF i = 1 THEN BuffErrAt + Len(BuffErr) + 1
             ELSE f[i - 1] + EntrySize(Words[i - 1])]
  BY <1>3, Zenon
<1> HIDE DEF f
<1>5. Lays(f, Len(Words))
  BY <1>4, Zenon DEF Lays
<1> QED BY <1>1, <1>5

LEMMA EntryAtIs ==
  ASSUME NEW i \in 1 .. Len(Words)
  PROVE  EntryAt[i] = IF i = 1 THEN BuffErrAt + Len(BuffErr) + 1
                      ELSE EntryAt[i - 1] + EntrySize(Words[i - 1])
<1>1. EntryAt = [j \in 1 .. Len(Words) |->
         IF j = 1 THEN BuffErrAt + Len(BuffErr) + 1 ELSE EntryAt[j - 1] + EntrySize(Words[j - 1])]
  BY EntryAtLays, Zenon DEF Lays
<1> QED BY <1>1, Zenon

\* The fixed part of the data.
LEMMA AddressesAre ==
  /\ BUFF_SIZE \in Nat \ {0} /\ Buffer = 1 /\ NoKeyAt = BUFF_SIZE + 1
  /\ NoKey \in Texts /\ BuffErr \in Texts
  /\ Len(NoKey) \in Nat \ {0} /\ Len(BuffErr) \in Nat
  /\ BuffErrAt = NoKeyAt + Len(NoKey) + 1
<1>1. NoKey \in Texts /\ BuffErr \in Texts /\ NoKey # <<>> /\ BUFF_SIZE \in Nat \ {0}
  BY DictionaryAssumption
<1>2. Len(NoKey) \in Nat /\ Len(BuffErr) \in Nat
  BY <1>1, TextIs
<1>3. Len(NoKey) # 0
  BY <1>1 DEF Texts
<1> QED BY <1>1, <1>2, <1>3 DEF Buffer, NoKeyAt, BuffErrAt

\* Entries lie behind the messages.
LEMMA EntryAtFrom ==
  \A i \in 1 .. Len(Words) : EntryAt[i] \in Nat /\ EntryAt[i] >= BuffErrAt + Len(BuffErr) + 1
<1> DEFINE low == BuffErrAt + Len(BuffErr) + 1
           T == {i \in Nat : (1 <= i /\ i <= Len(Words)) => EntryAt[i] \in Nat /\ EntryAt[i] >= low}
<1>0. low \in Nat
  BY AddressesAre
<1> HIDE DEF low
<1>1. 0 \in T
  OBVIOUS
<1>2. ASSUME NEW i \in Nat, i \in T
      PROVE  i + 1 \in T
  <2> SUFFICES ASSUME i + 1 <= Len(Words) PROVE EntryAt[i + 1] \in Nat /\ EntryAt[i + 1] >= low
    OBVIOUS
  <2>1. i + 1 \in 1 .. Len(Words) /\ (i + 1) - 1 = i
    BY WordsAre
  <2>2. EntryAt[i + 1] = IF i + 1 = 1 THEN low ELSE EntryAt[i] + EntrySize(Words[i])
    BY <2>1, EntryAtIs DEF low
  <2>3. CASE i = 0
    BY <1>0, <2>2, <2>3
  <2>4. CASE i # 0
    <3>1. i \in 1 .. Len(Words)
      BY <2>1, <2>4
    <3>2. EntrySize(Words[i]) \in Nat
      BY <3>1, WordsAre
    <3> QED BY <1>0, <1>2, <2>2, <2>4, <3>1, <3>2
  <2> QED BY <2>3, <2>4
<1>3. Nat \subseteq T
  <2> HIDE DEF T
  <2> QED BY <1>1, <1>2, Induction
<1>4. ASSUME NEW i \in 1 .. Len(Words) PROVE EntryAt[i] \in Nat /\ EntryAt[i] >= low
  <2>1. i \in T
    BY <1>3, WordsAre
  <2> QED BY <2>1
<1> QED BY <1>4 DEF low
\* An entry by itself: the link, the key and the value.
LEMMA EntryIs ==
  ASSUME NEW i \in 1 .. Len(Words)
  PROVE  /\ Link(i) \in Nat
         /\ Entry(i) \in Seq(Nat) /\ Len(Entry(i)) = EntrySize(Words[i])
         /\ Entry(i)[1] = Link(i)
         /\ StrAt(Entry(i), 2, Words[i].key)
         /\ StrAt(Entry(i), Len(Words[i].key) + 3, Words[i].value)
<1> DEFINE s == Words[i].key
           t == Words[i].value
           a == <<Link(i)>>
           b == WithString(a, s)
           c == WithString(b, t)
<1>1. /\ s \in Texts /\ t \in Texts /\ Len(s) \in Nat /\ Len(t) \in Nat
      /\ EntrySize(Words[i]) = Len(s) + Len(t) + 3
  BY WordsAre
<1>2. Link(i) \in Nat
  <2>1. CASE i = 1
    BY <2>1 DEF Link
  <2>2. CASE i # 1
    <3>1. i - 1 \in 1 .. Len(Words)
      BY WordsAre, <2>2
    <3>2. EntryAt[i - 1] \in Nat
      BY <3>1, EntryAtFrom
    <3> QED BY <2>2, <3>2 DEF Link
  <2> QED BY <2>1, <2>2
<1>3. a \in Seq(Nat) /\ Len(a) = 1 /\ a[1] = Link(i)
  BY <1>2
<1>4. Entry(i) = c
  BY DEF Entry, WithString
<1> HIDE DEF a, s, t
<1>5. b \in Seq(Nat)
  BY <1>1, <1>3, WithStringIs
<1>6. Len(b) = Len(a) + Len(s) + 1
  BY <1>1, <1>3, WithStringIs
<1>7. \A k \in 1 .. Len(a) : b[k] = a[k]
  BY <1>1, <1>3, WithStringIs
<1>8. StrAt(b, Len(a) + 1, s)
  BY <1>1, <1>3, WithStringIs
<1> HIDE DEF b
<1>9. c \in Seq(Nat)
  BY <1>1, <1>5, WithStringIs
<1>10. Len(c) = Len(b) + Len(t) + 1
  BY <1>1, <1>5, WithStringIs
<1>11. \A k \in 1 .. Len(b) : c[k] = b[k]
  BY <1>1, <1>5, WithStringIs
<1>12. StrAt(c, Len(b) + 1, t)
  BY <1>1, <1>5, WithStringIs
<1> HIDE DEF c
<1>13. Len(c) = EntrySize(Words[i]) /\ Len(b) = Len(s) + 2 /\ Len(a) + 1 = 2
       /\ Len(b) + 1 = Len(s) + 3
  BY <1>1, <1>3, <1>6, <1>10
<1>14. c[1] = Link(i)
  <2>1. 1 \in 1 .. Len(a) /\ 1 \in 1 .. Len(b)
    BY <1>1, <1>3, <1>13
  <2> QED BY <1>3, <1>7, <1>11, <2>1
<1>15. StrAt(c, 2, s)
  <2>1. \A x \in 2 .. 2 + Len(s) : c[0 + x] = b[x]
    <3> SUFFICES ASSUME NEW x \in 2 .. 2 + Len(s) PROVE c[0 + x] = b[x]
      OBVIOUS
    <3>1. 0 + x = x /\ x \in 1 .. Len(b)
      BY <1>1, <1>13
    <3> QED BY <1>11, <3>1
  <2>2. 0 + 2 = 2 /\ 0 \in Nat /\ 2 \in Nat
    OBVIOUS
  <2>3. StrAt(b, 2, s)
    BY <1>8, <1>13
  <2>4. StrAt(c, 0 + 2, s)
    BY <1>1, <2>1, <2>2, <2>3, StrMoved
  <2> QED BY <2>2, <2>4
<1>16. StrAt(c, Len(s) + 3, t)
  BY <1>12, <1>13
<1> QED BY <1>2, <1>4, <1>9, <1>13, <1>14, <1>15, <1>16 DEF s, t

\* Where the k-th entry ends, and the next one starts.
End(k) == IF k = 0 THEN EntryAt[1] ELSE EntryAt[k] + EntrySize(Words[k])

LEMMA EndIs ==
  /\ \A k \in 0 .. Len(Words) : End(k) \in Nat
  /\ \A k \in 1 .. Len(Words) : EntryAt[k] = End(k - 1)
  /\ \A k \in 1 .. Len(Words) : End(k) = End(k - 1) + EntrySize(Words[k])
<1>1. ASSUME NEW k \in 1 .. Len(Words)
      PROVE  EntryAt[k] = End(k - 1) /\ End(k) = EntryAt[k] + EntrySize(Words[k])
             /\ End(k) \in Nat
  <2>1. EntryAt[k] = IF k = 1 THEN BuffErrAt + Len(BuffErr) + 1
                     ELSE EntryAt[k - 1] + EntrySize(Words[k - 1])
    BY EntryAtIs
  <2>2. EntryAt[k] \in Nat /\ EntrySize(Words[k]) \in Nat
    BY EntryAtFrom, WordsAre
  <2>3. EntryAt[k] = End(k - 1)
    <3>1. CASE k = 1
      BY <3>1 DEF End
    <3>2. CASE k # 1
      <4>1. k - 1 # 0
        BY <3>2
      <4> QED BY <2>1, <3>2, <4>1, Zenon DEF End
    <3> QED BY <3>1, <3>2
  <2>4. End(k) = EntryAt[k] + EntrySize(Words[k])
    BY DEF End
  <2> QED BY <2>2, <2>3, <2>4
<1>2. End(0) \in Nat
  <2>1. 1 \in 1 .. Len(Words)
    BY WordsAre
  <2> QED BY <2>1, EntryAtFrom DEF End
<1>3. ASSUME NEW k \in 0 .. Len(Words) PROVE End(k) \in Nat
  <2>1. CASE k = 0
    BY <1>2, <2>1
  <2>2. CASE k # 0
    <3>1. k \in 1 .. Len(Words)
      BY WordsAre, <2>2
    <3> QED BY <1>1, <3>1
  <2> QED BY <2>1, <2>2
<1>4. ASSUME NEW k \in 1 .. Len(Words) PROVE End(k) = End(k - 1) + EntrySize(Words[k])
  BY <1>1
<1> QED BY <1>1, <1>3, <1>4

\* The entries behind one another.
Glue(e, m) == e = [k \in 0 .. m |-> IF k = 0 THEN <<>> ELSE e[k - 1] \o Entry(k)]

LEMMA GlueExists == \A m \in Nat : \E e : Glue(e, m)
<1> DEFINE T == {m \in Nat : \E e : Glue(e, m)}
<1>1. 0 \in T
  <2>1. Glue([k \in 0 .. 0 |-> <<>>], 0)
    BY DEF Glue
  <2> QED BY <2>1
<1>2. ASSUME NEW m \in Nat, m \in T
      PROVE  m + 1 \in T
  <2>1. PICK e : Glue(e, m)
    BY <1>2
  <2> DEFINE g == [k \in 0 .. m + 1 |->
                     IF k <= m THEN e[k] ELSE e[k - 1] \o Entry(k)]
  <2>2. ASSUME NEW k \in 0 .. m + 1
        PROVE  g[k] = IF k = 0 THEN <<>> ELSE g[k - 1] \o Entry(k)
    <3>1. /\ \A j \in 0 .. m : g[j] = e[j]
          /\ g[m + 1] = e[(m + 1) - 1] \o Entry(m + 1)
      <4>1. m + 1 \in 0 .. m + 1 /\ ~(m + 1 <= m)
        OBVIOUS
      <4>2. \A j \in 0 .. m : j \in 0 .. m + 1 /\ j <= m
        OBVIOUS
      <4> QED BY <4>1, <4>2, Zenon
    <3>2. \A j \in 0 .. m : e[j] = IF j = 0 THEN <<>> ELSE e[j - 1] \o Entry(j)
      BY <2>1, Zenon DEF Glue
    <3> HIDE DEF g
    <3>3. CASE k = m + 1
      <4>1. k # 0 /\ k - 1 \in 0 .. m /\ (m + 1) - 1 = k - 1
        BY <3>3
      <4> QED BY <3>1, <3>3, <4>1
    <3>4. CASE k \in 0 .. m
      <4>1. k # 0 => k - 1 \in 0 .. m
        BY <3>4
      <4> QED BY <3>1, <3>2, <3>4, <4>1, Zenon
    <3>5. k = m + 1 \/ k \in 0 .. m
      OBVIOUS
    <3> QED BY <3>3, <3>4, <3>5
  <2>3. g = [k \in 0 .. m + 1 |-> g[k]]
    OBVIOUS
  <2> HIDE DEF g
  <2>4. Glue(g, m + 1)
    BY <2>2, <2>3, Zenon DEF Glue
  <2> QED BY <2>4
<1> HIDE DEF T
<1>3. Nat \subseteq T
  BY <1>1, <1>2, Induction
<1> QED BY <1>3 DEF T

\* The first k entries are at their places.
Glued(e, k) ==
  /\ e[k] \in Seq(Nat) /\ Len(e[k]) = End(k) - EntryAt[1]
  /\ \A i \in 1 .. k : \A j \in 1 .. EntrySize(Words[i]) :
       /\ EntryAt[i] - EntryAt[1] + j \in 1 .. Len(e[k])
       /\ e[k][EntryAt[i] - EntryAt[1] + j] = Entry(i)[j]

LEMMA GluedMore ==
  ASSUME NEW e, Glue(e, Len(Words)), NEW k \in 1 .. Len(Words), Glued(e, k - 1)
  PROVE  Glued(e, k)
<1> DEFINE s == e[k - 1]
           t == Entry(k)
           r == s \o t
           low == EntryAt[1]
<1>1. k \in Nat /\ k - 1 \in 0 .. Len(Words) /\ k \in 0 .. Len(Words) /\ k # 0
      /\ 1 \in 1 .. Len(Words)
  BY WordsAre
<1>2. e[k] = r
  <2>1. e[k] = IF k = 0 THEN <<>> ELSE e[k - 1] \o Entry(k)
    BY <1>1, Zenon DEF Glue
  <2> QED BY <1>1, <2>1
<1>3. s \in Seq(Nat) /\ Len(s) = End(k - 1) - low
  BY DEF Glued
<1>4. t \in Seq(Nat) /\ Len(t) = EntrySize(Words[k])
  BY EntryIs
<1> DEFINE ls == Len(s)
           lt == Len(t)
           lr == Len(r)
           last1 == End(k - 1)
<1>5. low \in Nat /\ last1 \in Nat /\ ls \in Nat /\ lt \in Nat
      /\ ls = last1 - low /\ End(k) = last1 + lt /\ EntryAt[k] = last1
  <2>1. low \in Nat
    BY <1>1, EntryAtFrom
  <2>2. End(k - 1) \in Nat
    BY <1>1, EndIs
  <2>3. EntrySize(Words[k]) \in Nat
    BY WordsAre
  <2>4. Len(s) \in Nat
    BY <1>3
  <2>5. End(k) = End(k - 1) + EntrySize(Words[k]) /\ EntryAt[k] = End(k - 1)
    BY EndIs
  <2> QED BY <1>3, <1>4, <2>1, <2>2, <2>3, <2>4, <2>5
<1> HIDE DEF s, t, low
<1>6. r \in Seq(Nat)
  BY <1>3, <1>4, ConcatIs
<1>7. Len(r) = Len(s) + Len(t)
  BY <1>3, <1>4, ConcatIs
<1>8. \A x \in 1 .. Len(s) : r[x] = s[x]
  BY <1>3, <1>4, ConcatIs
<1>9. \A x \in 1 .. Len(t) : r[Len(s) + x] = t[x]
  BY <1>3, <1>4, ConcatIs
<1>10. lr = ls + lt
  BY <1>7
<1> HIDE DEF r
<1>11. lr = End(k) - low
  <2> HIDE DEF ls, lt, lr, last1
  <2> QED BY <1>5, <1>10
<1>12. ASSUME NEW i \in 1 .. k, NEW j \in 1 .. EntrySize(Words[i])
       PROVE  EntryAt[i] - low + j \in 1 .. lr /\ r[EntryAt[i] - low + j] = Entry(i)[j]
  <2>1. CASE i = k
    <3>1. j \in 1 .. lt /\ EntryAt[i] = last1
      BY <1>4, <1>5, <2>1
    <3>2. EntryAt[i] - low + j = ls + j /\ ls + j \in 1 .. lr
      <4> HIDE DEF ls, lt, lr, last1
      <4> QED BY <1>5, <1>10, <3>1
    <3>3. r[ls + j] = Entry(i)[j]
      BY <1>9, <2>1, <3>1 DEF t
    <3> HIDE DEF ls, lr
    <3> QED BY <3>2, <3>3
  <2>2. CASE i # k
    <3>1. i \in 1 .. k - 1
      BY <1>1, <2>2
    <3>2. EntryAt[i] - low + j \in 1 .. ls /\ s[EntryAt[i] - low + j] = Entry(i)[j]
      BY <3>1 DEF Glued, s, low
    <3>3. EntryAt[i] - low + j \in 1 .. lr
      <4> DEFINE x == EntryAt[i] - low + j
      <4>1. x \in 1 .. ls
        BY <3>2
      <4> HIDE DEF ls, lt, lr, last1, x
      <4>2. x \in 1 .. lr
        BY <1>5, <1>10, <4>1
      <4> QED BY <4>2 DEF x
    <3> QED BY <1>8, <3>2, <3>3
  <2> QED BY <2>1, <2>2
<1> QED BY <1>2, <1>6, <1>11, <1>12 DEF Glued, low

LEMMA GluedAll ==
  ASSUME NEW e, Glue(e, Len(Words))
  PROVE  Glued(e, Len(Words))
<1> DEFINE T == {k \in Nat : k <= Len(Words) => Glued(e, k)}
<1>1. 0 \in T
  <2>1. e[0] = <<>>
    BY WordsAre DEF Glue
  <2>2. EntryAt[1] \in Nat /\ End(0) = EntryAt[1]
    BY WordsAre, EntryAtFrom DEF End
  <2>3. e[0] \in Seq(Nat) /\ Len(e[0]) = End(0) - EntryAt[1]
    BY <2>1, <2>2
  <2>4. Glued(e, 0)
    BY <2>3 DEF Glued
  <2> QED BY <2>4
<1>2. ASSUME NEW k \in Nat, k \in T
      PROVE  k + 1 \in T
  <2>1. ASSUME k + 1 <= Len(Words) PROVE Glued(e, k + 1)
    <3>1. k + 1 \in 1 .. Len(Words) /\ (k + 1) - 1 = k /\ k <= Len(Words)
      BY <2>1, WordsAre
    <3>2. Glued(e, (k + 1) - 1)
      BY <1>2, <3>1
    <3> QED BY <3>1, <3>2, GluedMore
  <2> QED BY <2>1
<1> HIDE DEF T
<1>3. Nat \subseteq T
  BY <1>1, <1>2, Induction
<1>4. Len(Words) \in Nat
  BY WordsAre
<1> QED BY <1>3, <1>4 DEF T
\* A string that did not change.
LEMMA StrSame ==
  ASSUME NEW M, NEW N, NEW p \in Nat, NEW s \in Texts, StrAt(M, p, s),
         \A a \in p .. p + Len(s) : N[a] = M[a]
  PROVE  StrAt(N, p, s)
<1>1. Len(s) \in Nat
  BY TextIs
<1>2. ASSUME NEW k \in 1 .. Len(s) PROVE N[p + k - 1] = s[k]
  <2>1. p + k - 1 \in p .. p + Len(s)
    BY <1>1
  <2> QED BY <2>1 DEF StrAt
<1>3. N[p + Len(s)] = NUL
  <2>1. p + Len(s) \in p .. p + Len(s)
    BY <1>1
  <2> QED BY <2>1 DEF StrAt
<1> QED BY <1>2, <1>3 DEF StrAt

\* The buffer and the messages.
Front == WithString(WithString([k \in 1 .. BUFF_SIZE |-> 0], NoKey), BuffErr)

LEMMA FrontIs ==
  /\ Front \in Seq(Nat) /\ Len(Front) = EntryAt[1] - 1
  /\ \A a \in 1 .. BUFF_SIZE : Front[a] = 0
  /\ StrAt(Front, NoKeyAt, NoKey) /\ StrAt(Front, BuffErrAt, BuffErr)
<1> DEFINE a == [k \in 1 .. BUFF_SIZE |-> 0]
           b == WithString(a, NoKey)
           c == WithString(b, BuffErr)
           n == Len(NoKey)
           m == Len(BuffErr)
<1>1. /\ BUFF_SIZE \in Nat \ {0} /\ NoKeyAt = BUFF_SIZE + 1
      /\ NoKey \in Texts /\ BuffErr \in Texts /\ n \in Nat /\ m \in Nat
      /\ BuffErrAt = NoKeyAt + n + 1
  BY AddressesAre
<1>2. a \in Seq(Nat) /\ Len(a) = BUFF_SIZE /\ \A k \in 1 .. BUFF_SIZE : a[k] = 0
  BY <1>1
<1> HIDE DEF a
<1>3. b \in Seq(Nat)
  BY <1>1, <1>2, WithStringIs
<1>4. Len(b) = Len(a) + n + 1
  BY <1>1, <1>2, WithStringIs
<1>5. \A k \in 1 .. Len(a) : b[k] = a[k]
  BY <1>1, <1>2, WithStringIs
<1>6. StrAt(b, Len(a) + 1, NoKey)
  BY <1>1, <1>2, WithStringIs
<1> HIDE DEF b
<1>7. c \in Seq(Nat)
  BY <1>1, <1>3, WithStringIs
<1>8. Len(c) = Len(b) + m + 1
  BY <1>1, <1>3, WithStringIs
<1>9. \A k \in 1 .. Len(b) : c[k] = b[k]
  BY <1>1, <1>3, WithStringIs
<1>10. StrAt(c, Len(b) + 1, BuffErr)
  BY <1>1, <1>3, WithStringIs
<1> HIDE DEF c
<1>11. EntryAt[1] = BuffErrAt + m + 1
  <2>1. 1 \in 1 .. Len(Words)
    BY WordsAre
  <2> QED BY <2>1, EntryAtIs
<1>12. /\ Len(a) + 1 = NoKeyAt /\ Len(b) + 1 = BuffErrAt /\ Len(c) = EntryAt[1] - 1
       /\ NoKeyAt \in Nat
  <2> HIDE DEF n, m
  <2> QED BY <1>1, <1>2, <1>4, <1>8, <1>11
<1>13. \A k \in 1 .. BUFF_SIZE : c[k] = 0
  <2> SUFFICES ASSUME NEW k \in 1 .. BUFF_SIZE PROVE c[k] = 0
    OBVIOUS
  <2>1. k \in 1 .. Len(a) /\ k \in 1 .. Len(b)
    <3> HIDE DEF n, m
    <3> QED BY <1>1, <1>2, <1>4
  <2> QED BY <1>2, <1>5, <1>9, <2>1
<1>14. StrAt(c, NoKeyAt, NoKey)
  <2>1. \A x \in NoKeyAt .. NoKeyAt + Len(NoKey) : c[x] = b[x]
    <3> SUFFICES ASSUME NEW x \in NoKeyAt .. NoKeyAt + n PROVE c[x] = b[x]
      OBVIOUS
    <3>1. x \in 1 .. Len(b)
      <4> HIDE DEF n, m
      <4> QED BY <1>1, <1>2, <1>4
    <3> QED BY <1>9, <3>1
  <2>2. StrAt(b, NoKeyAt, NoKey)
    BY <1>6, <1>12
  <2> QED BY <1>1, <1>12, <2>1, <2>2, StrSame
<1>15. StrAt(c, BuffErrAt, BuffErr)
  BY <1>10, <1>12
<1>16. Front = c
  BY DEF Front, a, b, c
<1> QED BY <1>7, <1>12, <1>13, <1>14, <1>15, <1>16

\* The whole data: messages and entries are where the addresses say.
LEMMA DataIs ==
  /\ Data \in Seq(Nat) /\ Len(Data) \in Nat
  /\ StrAt(Data, NoKeyAt, NoKey) /\ StrAt(Data, BuffErrAt, BuffErr)
  /\ \A a \in 1 .. BUFF_SIZE : Data[a] = 0
  /\ EntryAt[1] <= Len(Data)
  /\ \A i \in 1 .. Len(Words) : \A j \in 1 .. EntrySize(Words[i]) :
       /\ EntryAt[i] + j - 1 \in EntryAt[1] .. Len(Data)
       /\ Data[EntryAt[i] + j - 1] = Entry(i)[j]
<1> DEFINE e == CHOOSE e : e = [k \in 0 .. Len(Words) |->
                  IF k = 0 THEN <<>> ELSE e[k - 1] \o Entry(k)]
           t == e[Len(Words)]
           r == Front \o t
           low == EntryAt[1]
           lt == Len(t)
           lr == Len(r)
<1>1. Data = r
  BY DEF Data, Front, WithString
<1>2. Glue(e, Len(Words))
  <2>1. PICK g : Glue(g, Len(Words))
    BY WordsAre, GlueExists
  <2>2. g = [k \in 0 .. Len(Words) |-> IF k = 0 THEN <<>> ELSE g[k - 1] \o Entry(k)]
    BY <2>1, Zenon DEF Glue
  <2>3. e = [k \in 0 .. Len(Words) |-> IF k = 0 THEN <<>> ELSE e[k - 1] \o Entry(k)]
    BY <2>2, Zenon
  <2> HIDE DEF e
  <2> QED BY <2>3, Zenon DEF Glue
<1> HIDE DEF e
<1>3. Glued(e, Len(Words))
  BY <1>2, GluedAll
<1>4. t \in Seq(Nat)
  BY <1>3 DEF Glued
<1>5. Front \in Seq(Nat) /\ Len(Front) = low - 1
  BY FrontIs
<1>6. r \in Seq(Nat)
  BY <1>4, <1>5, ConcatIs
<1>7. lr = Len(Front) + lt
  BY <1>4, <1>5, ConcatIs
<1>8. \A k \in 1 .. Len(Front) : r[k] = Front[k]
  BY <1>4, <1>5, ConcatIs
<1>9. \A k \in 1 .. lt : r[Len(Front) + k] = t[k]
  BY <1>4, <1>5, ConcatIs
<1>10. \A i \in 1 .. Len(Words) : \A j \in 1 .. EntrySize(Words[i]) :
         EntryAt[i] - low + j \in 1 .. lt /\ t[EntryAt[i] - low + j] = Entry(i)[j]
  BY <1>3 DEF Glued
<1>11. /\ low \in Nat /\ lt \in Nat /\ lr \in Nat /\ lr = (low - 1) + lt
       /\ low >= BuffErrAt + Len(BuffErr) + 1
  <2>1. 1 \in 1 .. Len(Words)
    BY WordsAre
  <2>2. low \in Nat /\ low >= BuffErrAt + Len(BuffErr) + 1
    BY <2>1, EntryAtFrom
  <2>3. lt \in Nat /\ lr \in Nat
    BY <1>4, <1>6
  <2> QED BY <1>5, <1>7, <2>2, <2>3
<1> HIDE DEF r, t, low
<1>12. ASSUME NEW i \in 1 .. Len(Words), NEW j \in 1 .. EntrySize(Words[i])
       PROVE  EntryAt[i] + j - 1 \in low .. lr /\ r[EntryAt[i] + j - 1] = Entry(i)[j]
  <2> DEFINE x == EntryAt[i] - low + j
  <2>1. x \in 1 .. lt /\ t[x] = Entry(i)[j]
    BY <1>10
  <2>2. EntryAt[i] \in Nat /\ j \in Nat
    BY EntryAtFrom
  <2>3. (low - 1) + x = EntryAt[i] + j - 1
    <3> DEFINE y == EntryAt[i]
    <3>1. y \in Int /\ j \in Int /\ low \in Int
      BY <1>11, <2>2
    <3> HIDE DEF y
    <3>2. (low - 1) + (y - low + j) = y + j - 1
      BY ONLY <3>1
    <3> QED BY <3>2 DEF y
  <2> HIDE DEF x, lt, lr
  <2>4. (low - 1) + x \in low .. lr
    <3>1. low \in Nat /\ lt \in Nat /\ lr = (low - 1) + lt
      BY <1>11
    <3>2. x \in 1 .. lt
      BY <2>1
    <3>3. (low - 1) + x \in low .. (low - 1) + lt
      BY ONLY <3>1, <3>2
    <3> QED BY ONLY <3>1, <3>3
  <2>5. r[(low - 1) + x] = t[x]
    BY <1>5, <1>9, <2>1
  <2> QED BY <2>1, <2>3, <2>4, <2>5
<1>13. low <= lr
  <2>1. 1 \in 1 .. Len(Words) /\ 1 \in 1 .. EntrySize(Words[1])
    <3>1. 1 \in 1 .. Len(Words)
      BY WordsAre
    <3>2. Len(Words[1].key) \in Nat /\ Len(Words[1].value) \in Nat
          /\ EntrySize(Words[1]) = Len(Words[1].key) + Len(Words[1].value) + 3
      BY <3>1, WordsAre
    <3> DEFINE x == Len(Words[1].key)
               y == Len(Words[1].value)
    <3>3. x \in Nat /\ y \in Nat /\ EntrySize(Words[1]) = x + y + 3
      BY <3>2
    <3> HIDE DEF x, y
    <3> QED BY <3>1, <3>3
  <2>2. EntryAt[1] + 1 - 1 \in low .. lr
    BY <1>12, <2>1
  <2>3. \A x \in Nat : x + 1 - 1 = x
    OBVIOUS
  <2>4. EntryAt[1] \in low .. lr
    BY <1>11, <2>2, <2>3 DEF low
  <2> HIDE DEF lr
  <2> QED BY <1>11, <2>4
<1>14. ASSUME NEW p \in Nat, NEW s \in Texts, StrAt(Front, p, s), p >= 1, p + Len(s) <= low - 1
       PROVE  StrAt(r, p, s)
  <2>1. Len(s) \in Nat
    BY TextIs
  <2>2. \A x \in p .. p + Len(s) : r[x] = Front[x]
    <3> SUFFICES ASSUME NEW x \in p .. p + Len(s) PROVE r[x] = Front[x]
      OBVIOUS
    <3>1. x \in 1 .. Len(Front)
      BY <1>5, <1>11, <1>14, <2>1
    <3> QED BY <1>8, <3>1
  <2> QED BY <1>14, <2>2, StrSame
<1>15. /\ BUFF_SIZE \in Nat /\ NoKeyAt = BUFF_SIZE + 1 /\ Len(NoKey) \in Nat /\ Len(BuffErr) \in Nat
       /\ BuffErrAt = NoKeyAt + Len(NoKey) + 1 /\ NoKey \in Texts /\ BuffErr \in Texts
  BY AddressesAre
<1>16. StrAt(r, NoKeyAt, NoKey)
  <2>1. NoKeyAt \in Nat /\ NoKeyAt >= 1 /\ NoKeyAt + Len(NoKey) <= low - 1
    BY <1>11, <1>15
  <2> QED BY <1>14, <1>15, <2>1, FrontIs
<1>17. StrAt(r, BuffErrAt, BuffErr)
  <2>1. BuffErrAt \in Nat /\ BuffErrAt >= 1 /\ BuffErrAt + Len(BuffErr) <= low - 1
    BY <1>11, <1>15
  <2> QED BY <1>14, <1>15, <2>1, FrontIs
<1>18. \A a \in 1 .. BUFF_SIZE : r[a] = 0
  <2> SUFFICES ASSUME NEW a \in 1 .. BUFF_SIZE PROVE r[a] = 0
    OBVIOUS
  <2>1. a \in 1 .. Len(Front)
    BY <1>5, <1>11, <1>15
  <2> QED BY <1>8, <2>1, FrontIs
<1> QED BY <1>1, <1>6, <1>11, <1>12, <1>13, <1>16, <1>17, <1>18 DEF low
\* Whatever is in the buffer, as long as the words are intact: the link, the key
\* and the value of each entry are where the program looks for them,
LEMMA EntryInMemory ==
  ASSUME NEW M, \A a \in NoKeyAt + 1 .. Len(Data) : M[a] = Data[a], NEW i \in 1 .. Len(Words)
  PROVE  /\ EntryAt[i] \in Nat \ {0} /\ M[EntryAt[i]] = Link(i)
         /\ StrAt(M, EntryAt[i] + WORD_SIZE, Words[i].key)
         /\ StrAt(M, EntryAt[i] + WORD_SIZE + Len(Words[i].key) + 1, Words[i].value)
<1> DEFINE at == EntryAt[i]
           s == Words[i].key
           t == Words[i].value
           ls == Len(s)
           lt == Len(t)
           len == EntrySize(Words[i])
<1>1. /\ s \in Texts /\ t \in Texts /\ ls \in Nat /\ lt \in Nat /\ len = ls + lt + 3
  BY WordsAre
<1>2. /\ NoKeyAt \in Nat \ {0} /\ at \in Nat /\ at - 1 \in Nat /\ NoKeyAt + 1 <= EntryAt[1]
      /\ EntryAt[1] \in Nat
  <2>1. 1 \in 1 .. Len(Words)
    BY WordsAre
  <2>2. at \in Nat /\ at >= BuffErrAt + Len(BuffErr) + 1 /\ EntryAt[1] \in Nat
        /\ EntryAt[1] >= BuffErrAt + Len(BuffErr) + 1
    BY <2>1, EntryAtFrom
  <2> HIDE DEF at
  <2> QED BY <2>2, AddressesAre
<1>3. ASSUME NEW j \in 1 .. len PROVE M[(at - 1) + j] = Entry(i)[j]
  <2>1. at + j - 1 \in EntryAt[1] .. Len(Data) /\ Data[at + j - 1] = Entry(i)[j]
    BY DataIs
  <2>2. at + j - 1 = (at - 1) + j
    <3> HIDE DEF at
    <3> QED BY <1>2
  <2>3. at + j - 1 \in NoKeyAt + 1 .. Len(Data)
    <3> HIDE DEF at
    <3> QED BY <1>2, <2>1, DataIs
  <2> QED BY <2>1, <2>2, <2>3
<1>4. /\ Entry(i)[1] = Link(i) /\ StrAt(Entry(i), 2, s) /\ StrAt(Entry(i), ls + 3, t)
  BY EntryIs
<1> HIDE DEF at, s, t, len
<1>5. M[at] = Link(i)
  <2>1. 1 \in 1 .. len /\ (at - 1) + 1 = at
    <3> HIDE DEF ls, lt
    <3> QED BY <1>1, <1>2
  <2> QED BY <1>3, <1>4, <2>1
<1>6. StrAt(M, (at - 1) + 2, s)
  <2>1. \A a \in 2 .. 2 + Len(s) : a \in 1 .. len
    <3> HIDE DEF lt
    <3> QED BY <1>1
  <2>2. \A a \in 2 .. 2 + Len(s) : M[(at - 1) + a] = Entry(i)[a]
    BY <1>3, <2>1
  <2>3. 2 \in Nat
    OBVIOUS
  <2> QED BY <1>1, <1>2, <1>4, <2>2, <2>3, StrMoved
<1>7. StrAt(M, (at - 1) + (ls + 3), t)
  <2>1. \A a \in ls + 3 .. (ls + 3) + Len(t) : a \in 1 .. len
    <3> HIDE DEF ls
    <3> QED BY <1>1
  <2>2. \A a \in ls + 3 .. (ls + 3) + Len(t) : M[(at - 1) + a] = Entry(i)[a]
    BY <1>3, <2>1
  <2> DEFINE p == ls + 3
             d == at - 1
             e == Entry(i)
  <2>3. p \in Nat /\ d \in Nat /\ t \in Texts
    BY <1>1, <1>2
  <2>4. StrAt(e, p, t)
    BY <1>4
  <2>5. \A a \in p .. p + Len(t) : M[d + a] = e[a]
    BY <2>2
  <2> HIDE DEF p, d, e
  <2>6. StrAt(M, d + p, t)
    BY ONLY <2>3, <2>4, <2>5, StrMoved
  <2> QED BY <2>6 DEF p, d
<1>8. (at - 1) + 2 = at + WORD_SIZE /\ (at - 1) + (ls + 3) = at + WORD_SIZE + ls + 1
      /\ at \in Nat \ {0}
  <2> HIDE DEF ls
  <2> QED BY <1>1, <1>2 DEF WORD_SIZE
<1> QED BY <1>5, <1>6, <1>7, <1>8 DEF at, s, t

\* and the messages, too, if the byte behind the buffer was not written.
LEMMA MessagesInMemory ==
  ASSUME NEW M, \A a \in NoKeyAt + 1 .. Len(Data) : M[a] = Data[a]
  PROVE  /\ StrAt(M, BuffErrAt, BuffErr)
         /\ M[NoKeyAt] = Data[NoKeyAt] => StrAt(M, NoKeyAt, NoKey)
         /\ NoKeyAt + 1 <= Len(Data)
<1> DEFINE n == Len(NoKey)
           m == Len(BuffErr)
<1>1. /\ BUFF_SIZE \in Nat \ {0} /\ NoKeyAt = BUFF_SIZE + 1 /\ NoKey \in Texts
      /\ BuffErr \in Texts /\ n \in Nat \ {0} /\ m \in Nat /\ BuffErrAt = NoKeyAt + n + 1
  BY AddressesAre
<1>2. /\ Len(Data) \in Nat /\ EntryAt[1] <= Len(Data)
      /\ StrAt(Data, NoKeyAt, NoKey) /\ StrAt(Data, BuffErrAt, BuffErr)
  BY DataIs
<1>3. EntryAt[1] \in Nat /\ EntryAt[1] >= BuffErrAt + m + 1
  <2>1. 1 \in 1 .. Len(Words)
    BY WordsAre
  <2> QED BY <2>1, EntryAtFrom
<1>4. \A a \in BuffErrAt .. BuffErrAt + m : a \in NoKeyAt + 1 .. Len(Data)
  <2> HIDE DEF n, m
  <2> QED BY <1>1, <1>2, <1>3
<1>5. \A a \in NoKeyAt .. NoKeyAt + n : a = NoKeyAt \/ a \in NoKeyAt + 1 .. Len(Data)
  <2> HIDE DEF n, m
  <2> QED BY <1>1, <1>2, <1>3
<1>6. BuffErrAt \in Nat /\ NoKeyAt \in Nat /\ NoKeyAt + 1 <= Len(Data)
  <2> HIDE DEF n, m
  <2> QED BY <1>1, <1>2, <1>3
<1>7. \A a \in BuffErrAt .. BuffErrAt + Len(BuffErr) : M[a] = Data[a]
  BY <1>4
<1>8. StrAt(M, BuffErrAt, BuffErr)
  BY <1>1, <1>2, <1>6, <1>7, StrSame
<1>9. ASSUME M[NoKeyAt] = Data[NoKeyAt] PROVE StrAt(M, NoKeyAt, NoKey)
  <2>1. \A a \in NoKeyAt .. NoKeyAt + Len(NoKey) : M[a] = Data[a]
    BY <1>5, <1>9
  <2> QED BY <1>1, <1>2, <1>6, <2>1, StrSame
<1> QED BY <1>6, <1>8, <1>9
\* The buffer and the byte behind it are part of the data.
LEMMA FrontBeforeData == NoKeyAt + 1 <= Len(Data)
BY MessagesInMemory

-----------------------------------------------------------------------------
(* The word of the input.                                                  *)

\* k blanks, and then something else,
StartsBehind(k) ==
  /\ k \in 0 .. Len(input) /\ \A j \in 1 .. k : input[j] \in Blank
  /\ k < Len(input) => input[k + 1] \notin Blank

\* and m letters behind them,
Letters(k, m) ==
  /\ m \in Nat /\ k + m <= Len(input)
  /\ \A j \in 1 .. m : input[k + j] \notin Blank \union {NUL}

\* which is all of the word.
WordLies(k, m) ==
  /\ StartsBehind(k) /\ Letters(k, m)
  /\ k + m < Len(input) => input[k + m + 1] \in Blank \union {NUL}

LEMMA StartExists ==
  ASSUME Len(input) \in Nat
  PROVE  \E k \in 0 .. Len(input) : StartsBehind(k)
<1> DEFINE T == {k \in 0 .. Len(input) : k < Len(input) => input[k + 1] \notin Blank}
<1>1. Len(input) \in T
  OBVIOUS
<1>2. T \subseteq Nat
  OBVIOUS
<1>3. PICK k \in T : \A x \in T : k <= x
  <2> HIDE DEF T
  <2> QED BY <1>1, <1>2, Least
<1>4. ASSUME NEW j \in 1 .. k PROVE input[j] \in Blank
  <2>1. j - 1 \in 0 .. Len(input) /\ (j - 1) + 1 = j /\ ~(k <= j - 1)
    OBVIOUS
  <2> QED BY <1>3, <2>1
<1> QED BY <1>4 DEF StartsBehind

LEMMA WordLiesSomewhere ==
  ASSUME Len(input) \in Nat, NEW k, StartsBehind(k)
  PROVE  \E m \in Nat : WordLies(k, m)
<1> DEFINE T == {m \in 0 .. Len(input) - k :
                   k + m < Len(input) => input[k + m + 1] \in Blank \union {NUL}}
<1>1. k \in 0 .. Len(input)
  BY DEF StartsBehind
<1>2. Len(input) - k \in T /\ T \subseteq Nat
  BY <1>1
<1>3. PICK m \in T : \A x \in T : m <= x
  <2> HIDE DEF T
  <2> QED BY <1>2, Least
<1>4. ASSUME NEW j \in 1 .. m PROVE input[k + j] \notin Blank \union {NUL}
  <2>1. j - 1 \in 0 .. Len(input) - k /\ k + (j - 1) + 1 = k + j /\ ~(m <= j - 1)
    BY <1>1
  <2> QED BY <1>3, <2>1
<1>5. m \in Nat /\ k + m <= Len(input)
      /\ (k + m < Len(input) => input[k + m + 1] \in Blank \union {NUL})
  BY <1>1
<1> QED BY <1>4, <1>5 DEF WordLies, Letters

\* Word is what lies there.
LEMMA WordIs ==
  ASSUME Len(input) \in Nat, NEW k, NEW m, WordLies(k, m)
  PROVE  Word = SubSeq(input, k + 1, k + m)
<1> DEFINE starts == {x \in 1 .. Len(input) + 1 : \A j \in 1 .. x - 1 : input[j] \in Blank}
           start == CHOOSE x \in starts : \A j \in starts : j <= x
           ends == {x \in start - 1 .. Len(input) :
                      \A j \in start .. x : input[j] \notin Blank \union {NUL}}
           end == CHOOSE x \in ends : \A j \in ends : j <= x
<1>1. /\ k \in 0 .. Len(input) /\ \A j \in 1 .. k : input[j] \in Blank
      /\ k < Len(input) => input[k + 1] \notin Blank
      /\ m \in Nat /\ k + m <= Len(input)
      /\ \A j \in 1 .. m : input[k + j] \notin Blank \union {NUL}
      /\ k + m < Len(input) => input[k + m + 1] \in Blank \union {NUL}
  BY DEF WordLies, StartsBehind, Letters
<1>2. Word = SubSeq(input, start, end)
  BY DEF Word
<1>3. start = k + 1
  <2>1. k + 1 \in starts
    BY <1>1
  <2>2. ASSUME NEW x \in starts PROVE x <= k + 1
    <3> SUFFICES ASSUME x > k + 1 PROVE FALSE
      BY <1>1
    <3>1. k + 1 \in 1 .. x - 1 /\ k < Len(input)
      BY <1>1
    <3> QED BY <1>1, <3>1
  <2>3. starts \subseteq Int
    OBVIOUS
  <2> HIDE DEF starts
  <2>4. \A x \in starts : (\A j \in starts : j <= x) => x = k + 1
    BY <1>1, <2>1, <2>2, <2>3
  <2> QED BY <2>1, <2>2, <2>4
<1> HIDE DEF start
<1>4. end = k + m
  <2>1. k + m \in ends
    <3>1. k + m \in start - 1 .. Len(input)
      BY <1>1, <1>3
    <3>2. ASSUME NEW j \in start .. k + m PROVE input[j] \notin Blank \union {NUL}
      <4>1. j - k \in 1 .. m /\ k + (j - k) = j
        BY <1>1, <1>3
      <4> QED BY <1>1, <4>1
    <3> QED BY <3>1, <3>2
  <2>2. ASSUME NEW x \in ends PROVE x <= k + m
    <3> SUFFICES ASSUME x > k + m PROVE FALSE
      BY <1>1, <1>3
    <3>1. k + m + 1 \in start .. x /\ k + m < Len(input)
      BY <1>1, <1>3
    <3> QED BY <1>1, <3>1
  <2>3. ends \subseteq Int
    BY <1>1, <1>3
  <2> HIDE DEF ends
  <2>4. \A x \in ends : (\A j \in ends : j <= x) => x = k + m
    BY <1>1, <2>1, <2>2, <2>3
  <2> QED BY <2>1, <2>2, <2>4
<1> QED BY <1>2, <1>3, <1>4

\* So it has m letters, none of which is a zero byte.
LEMMA WordHas ==
  ASSUME input \in Seq(0 .. 255), NEW k, NEW m, WordLies(k, m)
  PROVE  /\ Word \in Texts /\ Len(Word) = m
         /\ \A j \in 1 .. m : Word[j] = input[k + j]
<1> DEFINE w == [j \in 1 .. m |-> input[k + j]]
           B == 0 .. 255
<1>1. Len(input) \in Nat
  OBVIOUS
<1>2. Word = SubSeq(input, k + 1, k + m)
  BY <1>1, WordIs
<1>3. /\ k \in Nat /\ m \in Nat /\ k + m <= Len(input)
      /\ \A j \in 1 .. m : input[k + j] \notin Blank \union {NUL}
  BY DEF WordLies, StartsBehind, Letters
<1>4. \A j \in 1 .. m : input[k + j] \in 1 .. 255
  <2> SUFFICES ASSUME NEW j \in 1 .. m PROVE input[k + j] \in 1 .. 255
    OBVIOUS
  <2>1. k + j \in 1 .. Len(input) /\ input \in Seq(B)
    BY <1>1, <1>3
  <2> HIDE DEF B
  <2>2. input[k + j] \in B
    BY <2>1
  <2>3. input[k + j] # 0
    BY <1>3 DEF NUL
  <2>4. \A x \in B : x # 0 => x \in 1 .. 255
    BY DEF B
  <2> QED BY ONLY <2>2, <2>3, <2>4
<1>5. w \in Seq(1 .. 255) /\ Len(w) = m
  <2>1. w \in [1 .. m -> 1 .. 255]
    BY <1>4
  <2> HIDE DEF w
  <2> QED BY <1>3, <2>1
<1>6. SubSeq(input, k + 1, k + m) = w
  <2>1. SubSeq(input, k + 1, k + m) =
            [j \in 1 .. (1 + (k + m) - (k + 1)) |-> input[(k + 1) + j - 1]]
    BY <1>1, <1>3
  <2>2. 1 + (k + m) - (k + 1) = m
    BY <1>3
  <2>3. \A j \in 1 .. m : (k + 1) + j - 1 = k + j
    BY <1>3
  <2>4. SubSeq(input, k + 1, k + m) = [j \in 1 .. m |-> input[(k + 1) + j - 1]]
    BY ONLY <2>1, <2>2, Zenon
  <2>5. [j \in 1 .. m |-> input[(k + 1) + j - 1]] = w
    BY ONLY <2>3
  <2> QED BY ONLY <2>4, <2>5
<1> QED BY <1>2, <1>5, <1>6 DEF Texts

\* There always is a word.
LEMMA WordIsText ==
  ASSUME input \in Seq(0 .. 255)
  PROVE  Word \in Texts /\ Len(Word) \in Nat
<1>1. Len(input) \in Nat
  OBVIOUS
<1>2. PICK k \in 0 .. Len(input) : StartsBehind(k)
  BY <1>1, StartExists
<1>3. PICK m \in Nat : WordLies(k, m)
  BY <1>1, <1>2, WordLiesSomewhere
<1>4. Word \in Texts
  BY <1>3, WordHas
<1> QED BY <1>4, TextIs

\* As many letters as were seen are in the word,
LEMMA WordIsLonger ==
  ASSUME input \in Seq(0 .. 255), NEW k, StartsBehind(k), NEW n, Letters(k, n)
  PROVE  Len(Word) >= n
<1>1. Len(input) \in Nat
  OBVIOUS
<1>2. PICK m \in Nat : WordLies(k, m)
  BY <1>1, WordLiesSomewhere
<1>3. Len(Word) = m
  BY <1>2, WordHas
<1>4. ~(m < n)
  <2> SUFFICES ASSUME m < n PROVE FALSE
    OBVIOUS
  <2>1. k \in Nat /\ n \in Nat /\ k + n <= Len(input) /\ m + 1 \in 1 .. n
    BY DEF StartsBehind, Letters
  <2>2. k + (m + 1) = k + m + 1 /\ k + m < Len(input)
    BY <1>1, <2>1
  <2> QED BY <1>2, <2>1, <2>2 DEF Letters, WordLies
<1>5. n \in Nat
  BY DEF Letters
<1> QED BY <1>3, <1>4, <1>5

\* and none but them if they end where the word must.
LEMMA WordEnds ==
  ASSUME input \in Seq(0 .. 255), NEW k, StartsBehind(k), NEW n, Letters(k, n),
         k + n < Len(input) => input[k + n + 1] \in Blank \union {NUL}
  PROVE  Len(Word) = n /\ \A j \in 1 .. n : Word[j] = input[k + j]
<1>1. WordLies(k, n)
  BY DEF WordLies
<1> QED BY <1>1, WordHas
-----------------------------------------------------------------------------
(* The invariant.                                                          *)

Reads == {"skip", "loop"}

\* The word was read to its end.
Searches == {"check_word", "find", "get_word", "no_key"}

\* Types, and that nothing is printed before the end.
Sound ==
  /\ pc \in Reads \union Searches \union {"buff_err", "exited"}
  /\ DOMAIN mem = 1 .. Len(Data) /\ \A a \in DOMAIN mem : mem[a] \in Nat
  /\ \A a \in 1 .. BUFF_SIZE : mem[a] \in 0 .. 255
  /\ input \in Seq(0 .. 255) /\ stdin \in Seq(0 .. 255) /\ byte \in 0 .. 255
  /\ r9 \in Nat /\ rdx \in 0 .. BUFF_SIZE
  /\ pc = "skip" => r9 = 0
  /\ pc = "loop" => r9 \in 1 .. BUFF_SIZE
  /\ stdout \in Seq(0 .. 255) /\ stderr \in Seq(0 .. 255)
  /\ status \in {-1, 1}

\* Whether or not reads fail: up to r9 there is no zero byte in the buffer, or
\* there is one at its start, from a read that failed before any other read;
\* the word ends with a zero, and if it is shorter than the buffer then the
\* message behind the buffer is as it was.
Clean ==
  /\ pc \in Reads =>
       /\ mem[NoKeyAt] = Data[NoKeyAt]
       /\ \/ r9 > 0 /\ mem[1] = NUL
          \/ /\ \A a \in 1 .. r9 : mem[a] # NUL
             /\ r9 > 0 => byte # NUL
  /\ pc \in Searches =>
       /\ mem[rdx + 1] = NUL
       /\ rdx < BUFF_SIZE => mem[NoKeyAt] = Data[NoKeyAt]
       /\ mem[1] = NUL \/ \A a \in 1 .. rdx : mem[a] # NUL

\* The search stands at an entry, and no entry that was laid out later has the
\* key in the buffer.
Search ==
  /\ pc \in {"find", "get_word"} =>
       \E i \in 1 .. Len(Words) :
         /\ r9 = EntryAt[i]
         /\ pc = "get_word" => StrAt(mem, Buffer, Words[i].key)
         /\ \A j \in i + 1 .. Len(Words) : ~StrAt(mem, Buffer, Words[j].key)
  /\ pc = "no_key" => \A j \in 1 .. Len(Words) : ~StrAt(mem, Buffer, Words[j].key)

\* stdin is the input behind the first n bytes.
Behind(n) ==
  /\ n \in 0 .. Len(input) /\ Len(stdin) = Len(input) - n
  /\ \A j \in 1 .. Len(stdin) : stdin[j] = input[n + j]

\* As long as no read failed: what was read are blanks, then letters of the
\* word, and these are in the buffer.
Reading ==
  ~failed =>
    /\ pc = "skip" =>
         \E k \in 0 .. Len(input) : Behind(k) /\ \A j \in 1 .. k : input[j] \in Blank
    /\ pc = "loop" =>
         \E k \in 0 .. Len(input) :
           /\ StartsBehind(k) /\ Letters(k, r9) /\ Behind(k + r9)
           /\ \A j \in 1 .. r9 : mem[j] = input[k + j]
    /\ pc \in Searches => rdx = Len(Word) /\ \A j \in 1 .. rdx : mem[j] = Word[j]
    /\ pc = "buff_err" => Len(Word) > BUFF_SIZE

IInv == Sound /\ WordsIntact /\ Clean /\ Search /\ Reading /\ LookupCorrect

-----------------------------------------------------------------------------
(* What a read does.                                                       *)

\* The outcome of a read: a character comes from stdin, and if none failed then
\* the next one comes; zero is read again only if nothing was read before.
LEMMA ReadIs ==
  ASSUME Sound, NEW ch \in 0 .. 255, NEW end \in BOOLEAN, ReadChar(ch, end)
  PROVE  /\ stdin' \in Seq(0 .. 255) /\ byte' \in 0 .. 255
         /\ end => ch = NUL
         /\ ~end => byte' = ch /\ (ch = NUL => byte = NUL)
         /\ ~failed' => /\ ~failed
                        /\ \/ /\ stdin # <<>> /\ ch = Head(stdin) /\ stdin' = Tail(stdin)
                              /\ end <=> ch = NUL
                           \/ stdin = <<>> /\ ch = NUL /\ end
<1>1. stdin \in Seq(0 .. 255) /\ byte \in 0 .. 255
  BY DEF Sound
<1>2. CASE stdin # <<>> /\ ch = Head(stdin) /\ end = (ch = NUL)
           /\ stdin' = Tail(stdin) /\ byte' = ch /\ UNCHANGED failed
  <2>1. stdin' \in Seq(0 .. 255)
    BY <1>1, <1>2
  <2>2. end <=> ch = NUL
    BY <1>2, Zenon
  <2> QED BY <1>2, <2>1, <2>2
<1>3. CASE stdin = <<>> /\ ch = NUL /\ end /\ UNCHANGED <<stdin, byte, failed>>
  BY <1>1, <1>3
<1>4. CASE ch = byte /\ ~end /\ failed' = TRUE /\ UNCHANGED <<stdin, byte>>
  BY <1>1, <1>4
<1> QED BY <1>2, <1>3, <1>4 DEF ReadChar

\* The next byte of the input, or its end.
LEMMA BehindMore ==
  ASSUME Sound, NEW n, Behind(n), stdin # <<>>, stdin' = Tail(stdin), input' = input
  PROVE  Behind(n + 1)'
<1>1. /\ stdin \in Seq(0 .. 255) /\ Len(stdin) \in Nat /\ Len(input) \in Nat
  BY DEF Sound
<1>2. /\ n \in 0 .. Len(input) /\ Len(stdin) = Len(input) - n
      /\ \A j \in 1 .. Len(stdin) : stdin[j] = input[n + j]
  BY DEF Behind
<1>3. Len(stdin) > 0
  BY <1>1
<1>4. Head(stdin) = stdin[1] /\ Len(stdin') = Len(stdin) - 1
      /\ \A j \in 1 .. Len(stdin') : stdin'[j] = stdin[j + 1]
  BY <1>1, <1>3
<1>6. n + 1 \in 0 .. Len(input) /\ Len(stdin') = Len(input) - (n + 1)
  BY <1>1, <1>2, <1>3, <1>4
<1>7. ASSUME NEW j \in 1 .. Len(stdin') PROVE stdin'[j] = input[(n + 1) + j]
  <2>1. j + 1 \in 1 .. Len(stdin) /\ n + (j + 1) = (n + 1) + j
    BY <1>1, <1>2, <1>4
  <2> QED BY <1>2, <1>4, <2>1
<1> QED BY <1>6, <1>7 DEF Behind

LEMMA BehindHead ==
  ASSUME Sound, NEW n, Behind(n), stdin # <<>>
  PROVE  n < Len(input) /\ Head(stdin) = input[n + 1]
<1>1. stdin \in Seq(0 .. 255) /\ Len(stdin) \in Nat /\ Len(input) \in Nat
  BY DEF Sound
<1>2. /\ n \in 0 .. Len(input) /\ Len(stdin) = Len(input) - n
      /\ \A j \in 1 .. Len(stdin) : stdin[j] = input[n + j]
  BY DEF Behind
<1>3. Len(stdin) > 0
  BY <1>1
<1>4. Head(stdin) = stdin[1]
  BY <1>1, <1>3
<1> QED BY <1>1, <1>2, <1>3, <1>4

LEMMA BehindAll ==
  ASSUME Sound, NEW n, Behind(n), stdin = <<>>
  PROVE  n = Len(input)
BY DEF Behind, Sound

\* What Write does to the memory, and where it goes on.
Written(c, e) ==
  /\ r9 + 1 \in 1 .. NoKeyAt
  /\ DOMAIN mem' = DOMAIN mem /\ mem'[r9 + 1] = c
  /\ \A a \in DOMAIN mem : a # r9 + 1 => mem'[a] = mem[a]
  /\ e => pc' = "check_word" /\ rdx' = r9 /\ r9' = r9
  /\ ~e => /\ r9' = r9 + 1 /\ rdx' = rdx
           /\ r9 + 1 <= BUFF_SIZE => pc' = "loop"
           /\ r9 + 1 > BUFF_SIZE => pc' = "buff_err"

LEMMA WriteIs ==
  ASSUME Sound, WordsIntact, pc \in Reads, NEW c, NEW e \in BOOLEAN, Write(c, e)
  PROVE  Written(c, e)
<1>1. BUFF_SIZE \in Nat \ {0} /\ Buffer = 1 /\ NoKeyAt = BUFF_SIZE + 1
  BY AddressesAre
<1>2. Len(Data) \in Nat /\ NoKeyAt + 1 <= Len(Data)
  BY DataIs, MessagesInMemory DEF WordsIntact
<1>3. r9 \in 0 .. BUFF_SIZE
  BY <1>1 DEF Sound, Reads
<1>4. r9 + 1 \in 1 .. NoKeyAt /\ r9 + 1 \in DOMAIN mem /\ Buffer + r9 = r9 + 1
  BY <1>1, <1>2, <1>3 DEF Sound
<1>5. mem' = [mem EXCEPT ![r9 + 1] = c]
  BY <1>4 DEF Write
<1>6. DOMAIN mem' = DOMAIN mem /\ mem'[r9 + 1] = c
      /\ \A a \in DOMAIN mem : a # r9 + 1 => mem'[a] = mem[a]
  BY <1>4, <1>5
<1>7. ASSUME e PROVE pc' = "check_word" /\ rdx' = r9 /\ r9' = r9
  BY <1>7 DEF Write
<1>8. ASSUME ~e
      PROVE  /\ r9' = r9 + 1 /\ rdx' = rdx
             /\ r9 + 1 <= BUFF_SIZE => pc' = "loop"
             /\ r9 + 1 > BUFF_SIZE => pc' = "buff_err"
  BY <1>1, <1>3, <1>8 DEF Write, Fits
<1> QED BY <1>4, <1>6, <1>7, <1>8 DEF Written

\* A round of the two loops: a blank before the word is skipped, a blank behind
\* it becomes the zero byte that ends it, anything else is stored.
LEMMA ReadStep ==
  ASSUME Sound, WordsIntact, Skip \/ Loop
  PROVE  /\ pc \in Reads
         /\ UNCHANGED <<input, stdout, stderr, status>>
         /\ \E ch \in 0 .. 255, end \in BOOLEAN :
              /\ ReadChar(ch, end)
              /\ \/ pc = "skip" /\ ch \in Blank /\ UNCHANGED <<pc, mem, r9, rdx>>
                 \/ ch \notin Blank /\ Written(ch, end)
                 \/ pc = "loop" /\ ch \in Blank /\ Written(NUL, TRUE)
<1>1. pc \in Reads /\ UNCHANGED <<input, stdout, stderr, status>>
  <2>1. pc = "skip" \/ pc = "loop"
    BY Zenon DEF Skip, Loop
  <2>2. UNCHANGED <<input, stdout, stderr, status>>
    BY Zenon DEF Skip, Loop
  <2> QED BY <2>1, <2>2 DEF Reads
<1>2. CASE Skip
  <2>1. PICK ch \in 0 .. 255, end \in BOOLEAN :
          /\ ReadChar(ch, end)
          /\ IF ch \in Blank THEN UNCHANGED <<pc, mem, r9, rdx>> ELSE Write(ch, end)
    BY <1>2, Zenon DEF Skip
  <2>2. pc = "skip"
    BY <1>2 DEF Skip
  <2>3. CASE ch \in Blank
    BY <1>1, <2>1, <2>2, <2>3, Zenon
  <2>4. CASE ch \notin Blank
    <3>1. Write(ch, end)
      BY <2>1, <2>4
    <3>2. Written(ch, end)
      BY <1>1, <3>1, WriteIs
    <3> QED BY <1>1, <2>1, <2>4, <3>2, Zenon
  <2> QED BY <2>3, <2>4, Zenon
<1>3. CASE Loop
  <2>1. PICK ch \in 0 .. 255, end \in BOOLEAN :
          /\ ReadChar(ch, end)
          /\ IF ch \in Blank THEN Write(NUL, TRUE) ELSE Write(ch, end)
    BY <1>3, Zenon DEF Loop
  <2>2. pc = "loop"
    BY <1>3 DEF Loop
  <2>3. CASE ch \in Blank
    <3>1. Write(NUL, TRUE)
      BY <2>1, <2>3
    <3>2. Written(NUL, TRUE)
      BY <1>1, <3>1, WriteIs
    <3> QED BY <1>1, <2>1, <2>2, <2>3, <3>2, Zenon
  <2>4. CASE ch \notin Blank
    <3>1. Write(ch, end)
      BY <2>1, <2>4
    <3>2. Written(ch, end)
      BY <1>1, <3>1, WriteIs
    <3> QED BY <1>1, <2>1, <2>4, <3>2, Zenon
  <2> QED BY <2>3, <2>4, Zenon
<1> QED BY <1>2, <1>3, Zenon
-----------------------------------------------------------------------------
(* Each part of the invariant is kept.                                     *)

\* The steps that read nothing leave the memory alone.
Quiet == CheckWord \/ Find \/ GetWord \/ NoKeyEnd \/ BuffErrEnd

LEMMA QuietStep ==
  ASSUME Quiet
  PROVE  UNCHANGED <<mem, input, stdin, byte, rdx, failed>>
BY Zenon DEF Quiet, CheckWord, Find, GetWord, NoKeyEnd, BuffErrEnd, Finish

LEMMA IntactKept ==
  ASSUME Sound, WordsIntact, [Next]_vars
  PROVE  WordsIntact'
<1>1. CASE Skip \/ Loop
  <2>1. PICK ch \in 0 .. 255, end \in BOOLEAN :
          /\ ReadChar(ch, end)
          /\ \/ pc = "skip" /\ ch \in Blank /\ UNCHANGED <<pc, mem, r9, rdx>>
             \/ ch \notin Blank /\ Written(ch, end)
             \/ pc = "loop" /\ ch \in Blank /\ Written(NUL, TRUE)
    BY <1>1, ReadStep, Zenon
  <2>2. CASE mem' = mem
    BY <2>2 DEF WordsIntact
  <2>3. CASE Written(ch, end) \/ Written(NUL, TRUE)
    <3>1. r9 + 1 \in 1 .. NoKeyAt /\ \A a \in DOMAIN mem : a # r9 + 1 => mem'[a] = mem[a]
      BY <2>3, Zenon DEF Written
    <3>2. BUFF_SIZE \in Nat \ {0} /\ NoKeyAt = BUFF_SIZE + 1
      BY AddressesAre
    <3>3. ASSUME NEW a \in NoKeyAt + 1 .. Len(Data) PROVE mem'[a] = Data[a]
      <4>1. a \in DOMAIN mem /\ a # r9 + 1
        BY <3>1, <3>2, DataIs DEF Sound
      <4> QED BY <3>1, <4>1 DEF WordsIntact
    <3> QED BY <3>3 DEF WordsIntact
  <2> QED BY <2>1, <2>2, <2>3, Zenon
<1>2. CASE Quiet
  <2>1. mem' = mem
    BY <1>2, QuietStep
  <2> QED BY <2>1 DEF WordsIntact
<1>3. CASE UNCHANGED vars
  BY <1>3 DEF vars, WordsIntact
<1> QED BY <1>1, <1>2, <1>3 DEF Next, Quiet

\* What the ends of the program print.
LEMMA TextIsOutput ==
  ASSUME NEW s \in Texts
  PROVE  s \in Seq(0 .. 255) /\ s \o <<LF>> \in Seq(0 .. 255)
<1>1. s = [k \in 1 .. Len(s) |-> s[k]] /\ Len(s) \in Nat
  BY DEF Texts
<1>2. \A k \in 1 .. Len(s) : s[k] \in 0 .. 255
  <2>1. \A k \in 1 .. Len(s) : s[k] \in 1 .. 255
    BY TextIs
  <2>2. \A x \in 1 .. 255 : x \in 0 .. 255
    OBVIOUS
  <2> QED BY <2>1, <2>2, Zenon
<1> DEFINE B == 0 .. 255
<1>3. [k \in 1 .. Len(s) |-> s[k]] \in [1 .. Len(s) -> B]
  BY <1>2
<1>4. LF \in B
  BY DEF LF
<1> HIDE DEF B
<1>5. s \in Seq(B)
  BY <1>1, <1>3
<1>6. s \o <<LF>> \in Seq(B)
  BY <1>4, <1>5
<1> QED BY <1>5, <1>6 DEF B

LEMMA EmptyIsText == <<>> \in Texts /\ Len(<<>>) = 0 /\ <<>> \o <<LF>> = <<LF>>
<1>1. <<>> \in Texts
  BY DEF Texts
<1>2. <<>> \o <<LF>> = <<LF>>
  OBVIOUS
<1> QED BY <1>1, <1>2

\* Before the search is over the buffer has a string in it, which is as long as
\* the program thinks, or empty.
LEMMA BufferText ==
  ASSUME Sound, Clean, pc \in Searches
  PROVE  \E s \in Texts : StrAt(mem, Buffer, s) /\ (s = <<>> \/ Len(s) = rdx)
<1>1. BUFF_SIZE \in Nat \ {0} /\ Buffer = 1 /\ rdx \in 0 .. BUFF_SIZE
  BY AddressesAre DEF Sound
<1>2. mem[rdx + 1] = NUL /\ (mem[1] = NUL \/ \A a \in 1 .. rdx : mem[a] # NUL)
  BY DEF Clean
<1>3. CASE mem[1] = NUL
  <2>1. StrAt(mem, Buffer, <<>>)
    BY <1>1, <1>3 DEF StrAt
  <2> QED BY <2>1, EmptyIsText
<1>4. CASE \A a \in 1 .. rdx : mem[a] # NUL
  <2> DEFINE s == [k \in 1 .. rdx |-> mem[k]]
  <2>1. s \in Seq(1 .. 255) /\ Len(s) = rdx
    <3>1. \A k \in 1 .. rdx : mem[k] \in 1 .. 255
      BY <1>1, <1>4 DEF Sound, NUL
    <3>2. s \in [1 .. rdx -> 1 .. 255]
      BY <3>1
    <3> HIDE DEF s
    <3> QED BY <1>1, <3>2
  <2>2. ASSUME NEW k \in 1 .. rdx PROVE mem[1 + k - 1] = s[k]
    <3>1. 1 + k - 1 = k
      BY <1>1
    <3> QED BY <3>1
  <2> HIDE DEF s
  <2>3. mem[1 + Len(s)] = NUL
    <3>1. 1 + Len(s) = rdx + 1
      BY <1>1, <2>1
    <3> QED BY <1>2, <3>1
  <2>4. StrAt(mem, Buffer, s)
    BY <1>1, <2>1, <2>2, <2>3 DEF StrAt
  <2> QED BY <2>1, <2>4 DEF Texts
<1> QED BY <1>2, <1>3, <1>4

\* There is one string at a place.
LEMMA OneString ==
  ASSUME NEW M, NEW p \in Nat, NEW s \in Texts, NEW t \in Texts, StrAt(M, p, s), StrAt(M, p, t)
  PROVE  s = t
<1>1. StringAt(M, p) = s
  BY StringAtIs
<1>2. StringAt(M, p) = t
  BY StringAtIs
<1> QED BY <1>1, <1>2

\* The key was found: the value is where the program looks for it.
LEMMA ValueFound ==
  ASSUME Sound, WordsIntact, Clean, pc \in Searches, NEW i \in 1 .. Len(Words),
         StrAt(mem, Buffer, Words[i].key)
  PROVE  StringAt(mem, EntryAt[i] + WORD_SIZE + rdx + 1) = Words[i].value
<1>1. PICK s \in Texts : StrAt(mem, Buffer, s) /\ (s = <<>> \/ Len(s) = rdx)
  BY BufferText
<1>2. Words[i].key \in Texts /\ Words[i].value \in Texts
  BY WordsAre
<1>3. Buffer \in Nat
  BY AddressesAre
<1>4. Words[i].key = s
  BY <1>1, <1>2, <1>3, OneString
<1>5. Words[i].key # <<>>
  BY KeysAssumption, WordsAre
<1>6. Len(Words[i].key) = rdx
  BY <1>1, <1>4, <1>5
<1> DEFINE q == EntryAt[i] + WORD_SIZE + Len(Words[i].key) + 1
<1>7. StrAt(mem, q, Words[i].value)
  BY EntryInMemory DEF WordsIntact
<1>8. q \in Nat
  <2>1. EntryAt[i] \in Nat /\ Len(Words[i].key) \in Nat
    BY EntryAtFrom, WordsAre
  <2> DEFINE x == EntryAt[i]
             y == Len(Words[i].key)
  <2>2. x \in Nat /\ y \in Nat
    BY <2>1
  <2> HIDE DEF x, y
  <2>3. x + WORD_SIZE + y + 1 \in Nat
    BY <2>2 DEF WORD_SIZE
  <2> QED BY <2>3 DEF x, y
<1> HIDE DEF q
<1>9. StringAt(mem, q) = Words[i].value
  BY <1>2, <1>7, <1>8, StringAtIs
<1> QED BY <1>6, <1>9 DEF q

\* What NoKeyEnd prints.
LEMMA NoKeyText ==
  ASSUME Sound, WordsIntact, Clean, pc = "no_key"
  PROVE  /\ StringAt(mem, NoKeyAt) \in {NoKey, <<>>}
         /\ rdx < BUFF_SIZE => StringAt(mem, NoKeyAt) = NoKey
<1>1. /\ BUFF_SIZE \in Nat \ {0} /\ NoKeyAt = BUFF_SIZE + 1 /\ NoKey \in Texts
      /\ rdx \in 0 .. BUFF_SIZE /\ NoKeyAt \in Nat
  BY AddressesAre DEF Sound
<1>2. pc \in Searches
  BY DEF Searches
<1>3. CASE rdx < BUFF_SIZE
  <2>1. mem[NoKeyAt] = Data[NoKeyAt]
    BY <1>2, <1>3 DEF Clean
  <2>2. StrAt(mem, NoKeyAt, NoKey)
    BY <2>1, MessagesInMemory DEF WordsIntact
  <2>3. StringAt(mem, NoKeyAt) = NoKey
    BY <1>1, <2>2, StringAtIs
  <2> QED BY <2>3
<1>4. CASE rdx = BUFF_SIZE
  <2>1. mem[NoKeyAt] = NUL
    BY <1>1, <1>2, <1>4 DEF Clean
  <2>2. StrAt(mem, NoKeyAt, <<>>)
    BY <1>1, <2>1 DEF StrAt
  <2>3. StringAt(mem, NoKeyAt) = <<>>
    BY <1>1, <2>2, EmptyIsText, StringAtIs
  <2> QED BY <1>1, <1>4, <2>3
<1> QED BY <1>1, <1>3, <1>4

LEMMA BuffErrText ==
  ASSUME WordsIntact
  PROVE  StringAt(mem, BuffErrAt) = BuffErr
<1>1. BuffErrAt \in Nat /\ BuffErr \in Texts
  BY AddressesAre
<1>2. StrAt(mem, BuffErrAt, BuffErr)
  BY MessagesInMemory DEF WordsIntact
<1> QED BY <1>1, <1>2, StringAtIs
LEMMA SoundWritten ==
  ASSUME Sound, pc \in Reads, NEW c \in 0 .. 255, NEW e \in BOOLEAN, Written(c, e),
         stdin' \in Seq(0 .. 255), byte' \in 0 .. 255,
         UNCHANGED <<input, stdout, stderr, status>>
  PROVE  Sound'
<1>1. BUFF_SIZE \in Nat \ {0} /\ NoKeyAt = BUFF_SIZE + 1
  BY AddressesAre
<1>2. /\ DOMAIN mem' = DOMAIN mem /\ mem'[r9 + 1] = c
      /\ \A a \in DOMAIN mem : a # r9 + 1 => mem'[a] = mem[a]
  BY DEF Written
<1>3. r9 \in 0 .. BUFF_SIZE
  BY <1>1 DEF Sound, Reads
<1>4. \A a \in DOMAIN mem' : mem'[a] \in Nat
  <2>1. \A a \in DOMAIN mem : mem[a] \in Nat
    BY DEF Sound
  <2>2. c \in Nat
    OBVIOUS
  <2> QED BY <1>2, <2>1, <2>2
<1>5. \A a \in 1 .. BUFF_SIZE : mem'[a] \in 0 .. 255
  <2>1. \A a \in 1 .. BUFF_SIZE : a \in DOMAIN mem
    BY <1>1, DataIs, FrontBeforeData DEF Sound
  <2> QED BY <1>2, <2>1 DEF Sound
<1>6. CASE e
  <2>1. pc' = "check_word" /\ rdx' = r9 /\ r9' = r9
    BY <1>6, Zenon DEF Written
  <2> QED BY <1>2, <1>3, <1>4, <1>5, <2>1 DEF Sound, Searches
<1>7. CASE ~e
  <2>1. /\ r9' = r9 + 1 /\ rdx' = rdx
        /\ r9 + 1 <= BUFF_SIZE => pc' = "loop"
        /\ r9 + 1 > BUFF_SIZE => pc' = "buff_err"
    BY <1>7, Zenon DEF Written
  <2>2. r9' \in Nat /\ r9' >= 1
    BY <1>3, <2>1
  <2>3. CASE r9 + 1 <= BUFF_SIZE
    <3>1. pc' = "loop" /\ r9' \in 1 .. BUFF_SIZE
      BY <1>1, <1>3, <2>1, <2>3
    <3> QED BY <1>2, <1>4, <1>5, <2>1, <2>2, <3>1 DEF Sound, Reads
  <2>4. CASE ~(r9 + 1 <= BUFF_SIZE)
    <3>1. pc' = "buff_err"
      BY <1>1, <1>3, <2>1, <2>4
    <3> QED BY <1>2, <1>4, <1>5, <2>1, <2>2, <3>1 DEF Sound
  <2> QED BY <2>3, <2>4
<1> QED BY <1>6, <1>7

LEMMA SoundKept ==
  ASSUME Sound, WordsIntact, Clean, Search, [Next]_vars
  PROVE  Sound'
<1>1. CASE Skip \/ Loop
  <2>1. PICK ch \in 0 .. 255, end \in BOOLEAN :
          /\ ReadChar(ch, end)
          /\ \/ pc = "skip" /\ ch \in Blank /\ UNCHANGED <<pc, mem, r9, rdx>>
             \/ ch \notin Blank /\ Written(ch, end)
             \/ pc = "loop" /\ ch \in Blank /\ Written(NUL, TRUE)
    BY <1>1, ReadStep, Zenon
  <2>2. pc \in Reads /\ UNCHANGED <<input, stdout, stderr, status>>
    BY <1>1, ReadStep, Zenon
  <2>3. stdin' \in Seq(0 .. 255) /\ byte' \in 0 .. 255
    BY <2>1, ReadIs, Zenon
  <2>4. CASE UNCHANGED <<pc, mem, r9, rdx>>
    BY <2>2, <2>3, <2>4 DEF Sound
  <2>5. CASE Written(ch, end)
    BY <2>2, <2>3, <2>5, SoundWritten, Zenon
  <2>6. CASE Written(NUL, TRUE)
    <3>1. NUL \in 0 .. 255 /\ TRUE \in BOOLEAN
      BY DEF NUL
    <3> QED BY <2>2, <2>3, <2>6, <3>1, SoundWritten, Zenon
  <2> QED BY <2>1, <2>4, <2>5, <2>6, Zenon
<1>2. CASE CheckWord
  <2>1. first \in Nat
    BY WordsAre, EntryAtFrom DEF first
  <2> QED BY <1>2, <2>1 DEF CheckWord, Sound, Searches
<1>3. CASE Find
  <2>1. PICK i \in 1 .. Len(Words) : r9 = EntryAt[i]
    BY <1>3 DEF Find, Search
  <2>2. mem[r9] = Link(i) /\ Link(i) \in Nat
    BY <2>1, EntryInMemory, EntryIs DEF WordsIntact
  <2>3. pc' \in {"find", "get_word", "no_key"} /\ r9' \in {r9, mem[r9]}
        /\ UNCHANGED <<mem, input, stdin, byte, rdx, stdout, stderr, status>>
    BY <1>3 DEF Find, Following
  <2> QED BY <2>2, <2>3 DEF Sound, Searches
<1>4. ASSUME NEW out \in Texts, NEW error \in Texts, Finish(out, error)
      PROVE  Sound'
  <2>1. stdout' \in Seq(0 .. 255) /\ stderr' \in Seq(0 .. 255)
    BY <1>4, TextIsOutput DEF Finish
  <2> QED BY <1>4, <2>1 DEF Sound, Finish
<1>5. CASE GetWord
  <2>1. pc \in Searches /\ pc = "get_word"
    BY <1>5 DEF GetWord, Searches
  <2>2. PICK i \in 1 .. Len(Words) : r9 = EntryAt[i] /\ StrAt(mem, Buffer, Words[i].key)
    BY <2>1 DEF Search
  <2>3. StringAt(mem, ValueAt(r9)) = Words[i].value
    BY <2>1, <2>2, ValueFound DEF ValueAt
  <2> QED BY <1>4, <1>5, <2>3, WordsAre, EmptyIsText DEF GetWord
<1>6. CASE NoKeyEnd
  <2>1. StringAt(mem, NoKeyAt) \in Texts
    BY <1>6, NoKeyText, EmptyIsText, AddressesAre DEF NoKeyEnd
  <2> QED BY <1>4, <1>6, <2>1, EmptyIsText DEF NoKeyEnd
<1>7. CASE BuffErrEnd
  BY <1>4, <1>7, BuffErrText, EmptyIsText, AddressesAre DEF BuffErrEnd
<1>8. CASE UNCHANGED vars
  BY <1>8 DEF vars, Sound
<1> QED BY <1>1, <1>2, <1>3, <1>5, <1>6, <1>7, <1>8 DEF Next

LEMMA CleanKept ==
  ASSUME Sound, WordsIntact, Clean, [Next]_vars
  PROVE  Clean'
<1>1. BUFF_SIZE \in Nat \ {0} /\ NoKeyAt = BUFF_SIZE + 1
  BY AddressesAre
<1>2. NoKeyAt \in DOMAIN mem /\ 1 \in DOMAIN mem
  BY <1>1, DataIs, FrontBeforeData DEF Sound
<1>3. CASE Skip \/ Loop
  <2>1. PICK ch \in 0 .. 255, end \in BOOLEAN :
          /\ ReadChar(ch, end)
          /\ \/ pc = "skip" /\ ch \in Blank /\ UNCHANGED <<pc, mem, r9, rdx>>
             \/ ch \notin Blank /\ Written(ch, end)
             \/ pc = "loop" /\ ch \in Blank /\ Written(NUL, TRUE)
    BY <1>3, ReadStep, Zenon
  <2>2. pc \in Reads
    BY <1>3, ReadStep, Zenon
  <2>3. (end => ch = NUL) /\ (~end => byte' = ch /\ (ch = NUL => byte = NUL))
    BY <2>1, ReadIs, Zenon
  <2>4. /\ mem[NoKeyAt] = Data[NoKeyAt]
        /\ \/ r9 > 0 /\ mem[1] = NUL
           \/ (\A a \in 1 .. r9 : mem[a] # NUL) /\ (r9 > 0 => byte # NUL)
    BY <2>2 DEF Clean
  <2>5. r9 \in 0 .. BUFF_SIZE
    BY <1>1, <2>2 DEF Sound, Reads
  <2>6. \A a \in 1 .. r9 : a \in DOMAIN mem /\ a # r9 + 1
    BY <1>1, <2>5, DataIs, FrontBeforeData DEF Sound
  <2>7. CASE pc = "skip" /\ UNCHANGED <<pc, mem, r9, rdx>>
    <3>1. r9' = 0 /\ pc' = "skip" /\ mem' = mem
      BY <2>7 DEF Sound
    <3> QED BY <2>4, <3>1 DEF Clean, Reads, Searches
  <2>8. ASSUME NEW c, NEW e \in BOOLEAN, Written(c, e), e => c = NUL,
               ~e => byte' = c /\ (c = NUL => byte = NUL)
        PROVE  Clean'
    <3>1. /\ mem'[r9 + 1] = c
          /\ \A a \in DOMAIN mem : a # r9 + 1 => mem'[a] = mem[a]
      BY <2>8 DEF Written
    <3>2. \A a \in 1 .. r9 : mem'[a] = mem[a]
      BY <2>6, <3>1
    <3>3. CASE e
      <4>1. pc' = "check_word" /\ rdx' = r9 /\ c = NUL
        BY <2>8, <3>3, Zenon DEF Written
      <4>2. mem'[rdx' + 1] = NUL
        BY <3>1, <4>1
      <4>3. rdx' < BUFF_SIZE => mem'[NoKeyAt] = Data[NoKeyAt]
        BY <1>1, <1>2, <2>4, <2>5, <3>1, <4>1
      <4>4. mem'[1] = NUL \/ \A a \in 1 .. rdx' : mem'[a] # NUL
        <5>1. CASE r9 > 0 /\ mem[1] = NUL
          BY <2>5, <3>2, <5>1
        <5>2. CASE \A a \in 1 .. r9 : mem[a] # NUL
          BY <3>2, <4>1, <5>2
        <5> QED BY <2>4, <5>1, <5>2
      <4> QED BY <4>1, <4>2, <4>3, <4>4 DEF Clean, Reads, Searches
    <3>4. CASE ~e
      <4>1. /\ r9' = r9 + 1 /\ byte' = c /\ (c = NUL => byte = NUL)
            /\ r9 + 1 <= BUFF_SIZE => pc' = "loop"
            /\ r9 + 1 > BUFF_SIZE => pc' = "buff_err"
        BY <2>8, <3>4, Zenon DEF Written
      <4>2. CASE r9 + 1 <= BUFF_SIZE
        <5>1. pc' = "loop" /\ r9' > 0
          BY <2>5, <4>1, <4>2
        <5>2. mem'[NoKeyAt] = Data[NoKeyAt]
          BY <1>1, <1>2, <2>4, <2>5, <3>1, <4>2
        <5>3. \/ r9' > 0 /\ mem'[1] = NUL
              \/ (\A a \in 1 .. r9' : mem'[a] # NUL) /\ (r9' > 0 => byte' # NUL)
          <6>1. CASE r9 > 0 /\ mem[1] = NUL
            BY <2>5, <3>2, <5>1, <6>1
          <6>2. CASE (\A a \in 1 .. r9 : mem[a] # NUL) /\ (r9 > 0 => byte # NUL) /\ c = NUL
            <7>1. r9 = 0
              BY <2>5, <4>1, <6>2
            <7> QED BY <3>1, <5>1, <6>2, <7>1
          <6>3. CASE (\A a \in 1 .. r9 : mem[a] # NUL) /\ (r9 > 0 => byte # NUL) /\ c # NUL
            <7>1. ASSUME NEW a \in 1 .. r9' PROVE mem'[a] # NUL
              <8>1. a = r9 + 1 \/ a \in 1 .. r9
                BY <2>5, <4>1
              <8> QED BY <3>1, <3>2, <6>3, <8>1
            <7> QED BY <4>1, <6>3, <7>1
          <6> QED BY <2>4, <6>1, <6>2, <6>3
        <5> QED BY <5>1, <5>2, <5>3 DEF Clean, Searches
      <4>3. CASE ~(r9 + 1 <= BUFF_SIZE)
        <5>1. pc' = "buff_err"
          BY <1>1, <2>5, <4>1, <4>3
        <5> QED BY <5>1 DEF Clean, Reads, Searches
      <4> QED BY <4>2, <4>3
    <3> QED BY <3>3, <3>4
  <2>9. CASE Written(ch, end)
    BY <2>3, <2>8, <2>9, Zenon
  <2>10. CASE Written(NUL, TRUE)
    BY <2>8, <2>10, Zenon
  <2> QED BY <2>1, <2>7, <2>9, <2>10, Zenon
<1>4. CASE CheckWord \/ Find
  <2>1. pc \in Searches /\ pc' \in Searches /\ mem' = mem /\ rdx' = rdx
    BY <1>4 DEF CheckWord, Find, Searches
  <2>2. pc' \notin Reads
    BY <2>1 DEF Searches, Reads
  <2> QED BY <2>1, <2>2 DEF Clean
<1>5. CASE GetWord \/ NoKeyEnd \/ BuffErrEnd
  <2>1. pc' = "exited"
    BY <1>5 DEF GetWord, NoKeyEnd, BuffErrEnd, Finish
  <2> QED BY <2>1 DEF Clean, Reads, Searches
<1>6. CASE UNCHANGED vars
  BY <1>6 DEF vars, Clean
<1> QED BY <1>3, <1>4, <1>5, <1>6 DEF Next
\* One round of find_word: the key of the entry is in the buffer, or the search
\* goes on with the entry laid out before it.
LEMMA SearchKept ==
  ASSUME Sound, WordsIntact, Clean, Search, [Next]_vars
  PROVE  Search'
<1>1. CASE Skip \/ Loop
  <2>1. PICK ch \in 0 .. 255, end \in BOOLEAN :
          \/ pc = "skip" /\ ch \in Blank /\ UNCHANGED <<pc, mem, r9, rdx>>
          \/ ch \notin Blank /\ Written(ch, end)
          \/ pc = "loop" /\ ch \in Blank /\ Written(NUL, TRUE)
    BY <1>1, ReadStep, Zenon
  <2>2. /\ BUFF_SIZE \in Nat /\ r9 \in Nat
    BY AddressesAre DEF Sound
  <2>3. ASSUME NEW c, NEW e \in BOOLEAN, Written(c, e)
        PROVE  pc' \in {"check_word", "loop", "buff_err"}
    <3>1. CASE e
      BY <2>3, <3>1, Zenon DEF Written
    <3>2. CASE ~e
      <4>1. (r9 + 1 <= BUFF_SIZE => pc' = "loop") /\ (r9 + 1 > BUFF_SIZE => pc' = "buff_err")
        BY <2>3, <3>2, Zenon DEF Written
      <4> QED BY <2>2, <4>1
    <3> QED BY <3>1, <3>2
  <2>4. pc' \in {"skip", "check_word", "loop", "buff_err"}
    <3>1. CASE pc = "skip" /\ UNCHANGED <<pc, mem, r9, rdx>>
      BY <3>1
    <3>2. CASE Written(ch, end)
      BY <2>3, <3>2
    <3>3. CASE Written(NUL, TRUE)
      BY <2>3, <3>3
    <3> QED BY <2>1, <3>1, <3>2, <3>3, Zenon
  <2> QED BY <2>4 DEF Search
<1>2. CASE CheckWord
  <2>1. pc' = "find" /\ r9' = EntryAt[Len(Words)] /\ mem' = mem
    BY <1>2 DEF CheckWord, first
  <2>2. Len(Words) \in 1 .. Len(Words)
        /\ \A j \in Len(Words) + 1 .. Len(Words) : ~StrAt(mem, Buffer, Words[j].key)
    BY WordsAre
  <2> QED BY <2>1, <2>2 DEF Search
<1>3. CASE Find
  <2>1. pc = "find" /\ pc \in Searches /\ mem' = mem
    BY <1>3 DEF Find, Searches
  <2>2. PICK i \in 1 .. Len(Words) :
          /\ r9 = EntryAt[i]
          /\ \A j \in i + 1 .. Len(Words) : ~StrAt(mem, Buffer, Words[j].key)
    BY <2>1 DEF Search
  <2> DEFINE key == Words[i].key
             q == EntryAt[i] + WORD_SIZE
  <2>3. key \in Texts /\ StrAt(mem, q, key) /\ mem[EntryAt[i]] = Link(i)
    BY WordsAre, EntryInMemory DEF WordsIntact
  <2>4. q \in Nat /\ Buffer \in Nat
    <3>1. EntryAt[i] \in Nat
      BY EntryAtFrom
    <3> QED BY <3>1 DEF WORD_SIZE, Buffer
  <2>5. PICK s \in Texts : StrAt(mem, Buffer, s)
    BY <2>1, BufferText
  <2>6. r9 + WORD_SIZE = q
    BY <2>2
  <2> HIDE DEF key, q
  <2>7. StringEquals(mem, Buffer, q) <=> s = key
    BY <2>3, <2>4, <2>5, StringEqualsIs
  <2>8. StrAt(mem, Buffer, key) => s = key
    BY <2>3, <2>4, <2>5, OneString
  <2>9. CASE s = key
    <3>1. pc' = "get_word" /\ r9' = r9
      BY <1>3, <2>6, <2>7, <2>9 DEF Find
    <3>2. StrAt(mem, Buffer, Words[i].key)
      BY <2>5, <2>9 DEF key
    <3> QED BY <2>1, <2>2, <3>1, <3>2 DEF Search
  <2>10. CASE s # key
    <3>1. r9' = Link(i) /\ pc' = IF Link(i) = 0 THEN "no_key" ELSE "find"
      <4>1. mem[r9] = Link(i)
        BY <2>2, <2>3
      <4> QED BY <1>3, <2>6, <2>7, <2>10, <4>1 DEF Find, Following
    <3>2. ~StrAt(mem, Buffer, Words[i].key)
      BY <2>8, <2>10 DEF key
    <3>3. \A j \in i .. Len(Words) : ~StrAt(mem, Buffer, Words[j].key)
      <4>1. \A j \in i .. Len(Words) : j = i \/ j \in i + 1 .. Len(Words)
        BY WordsAre
      <4> QED BY <2>2, <3>2, <4>1
    <3>4. CASE i = 1
      <4>1. pc' = "no_key"
        BY <3>1, <3>4 DEF Link
      <4> QED BY <2>1, <3>3, <3>4, <4>1 DEF Search
    <3>5. CASE i # 1
      <4>1. i - 1 \in 1 .. Len(Words) /\ (i - 1) + 1 = i
        BY <3>5, WordsAre
      <4>2. EntryAt[i - 1] \in Nat \ {0}
        BY <4>1, EntryInMemory DEF WordsIntact
      <4>3. pc' = "find" /\ r9' = EntryAt[i - 1]
        BY <3>1, <3>5, <4>2 DEF Link
      <4>4. \A j \in (i - 1) + 1 .. Len(Words) : ~StrAt(mem, Buffer, Words[j].key)
        BY <3>3, <4>1
      <4> QED BY <2>1, <4>1, <4>3, <4>4 DEF Search
    <3> QED BY <3>4, <3>5
  <2> QED BY <2>9, <2>10
<1>4. CASE GetWord \/ NoKeyEnd \/ BuffErrEnd
  <2>1. pc' = "exited"
    BY <1>4 DEF GetWord, NoKeyEnd, BuffErrEnd, Finish
  <2> QED BY <2>1 DEF Search
<1>5. CASE UNCHANGED vars
  BY <1>5 DEF vars, Search
<1> QED BY <1>1, <1>2, <1>3, <1>4, <1>5 DEF Next

\* Word is a matter of the input alone.
LEMMA WordSame ==
  ASSUME input' = input
  PROVE  Word' = Word /\ Matches' = Matches
<1>1. Word' = Word
  BY DEF Word
<1> QED BY <1>1 DEF Matches

\* A byte is stored while letters of the word are read, and no read failed.
LEMMA ReadingWritten ==
  ASSUME Sound, WordsIntact, pc \in Reads, input' = input, NEW k \in 0 .. Len(input),
         StartsBehind(k), Letters(k, r9), \A j \in 1 .. r9 : mem[j] = input[k + j],
         NEW c, NEW e \in BOOLEAN, Written(c, e), NEW n \in Nat, n = k + r9,
         e => (n < Len(input) => input[n + 1] \in Blank \union {NUL}),
         ~e => /\ n < Len(input) /\ c = input[n + 1]
               /\ c \notin Blank \union {NUL} /\ Behind(n + 1)'
  PROVE  Reading'
<1>1. BUFF_SIZE \in Nat \ {0} /\ NoKeyAt = BUFF_SIZE + 1 /\ Len(Data) \in Nat
      /\ NoKeyAt + 1 <= Len(Data)
  BY AddressesAre, DataIs, FrontBeforeData
<1>2. r9 \in 0 .. BUFF_SIZE /\ DOMAIN mem = 1 .. Len(Data) /\ input \in Seq(0 .. 255)
      /\ Len(input) \in Nat
  BY <1>1 DEF Sound, Reads
<1>3. /\ mem'[r9 + 1] = c
      /\ \A a \in DOMAIN mem : a # r9 + 1 => mem'[a] = mem[a]
  BY DEF Written
<1>4. \A j \in 1 .. r9 : mem'[j] = input[k + j]
  <2>1. \A j \in 1 .. r9 : j \in DOMAIN mem /\ j # r9 + 1
    BY <1>1, <1>2
  <2> QED BY <1>3, <2>1
<1>5. Word' = Word
  BY WordSame
<1>6. CASE e
  <2>1. pc' = "check_word" /\ rdx' = r9
    BY <1>6, Zenon DEF Written
  <2>2. k + r9 < Len(input) => input[k + r9 + 1] \in Blank \union {NUL}
    <3>1. n < Len(input) => input[n + 1] \in Blank \union {NUL}
      BY <1>6
    <3> QED BY <3>1
  <2>3. Len(Word) = r9 /\ \A j \in 1 .. r9 : Word[j] = input[k + j]
    BY <1>2, <2>2, WordEnds
  <2> QED BY <1>4, <1>5, <2>1, <2>3 DEF Reading, Searches
<1>7. CASE ~e
  <2>1. /\ r9' = r9 + 1
        /\ r9 + 1 <= BUFF_SIZE => pc' = "loop"
        /\ r9 + 1 > BUFF_SIZE => pc' = "buff_err"
    BY <1>7, Zenon DEF Written
  <2>2. /\ n < Len(input) /\ c = input[n + 1]
        /\ c \notin Blank \union {NUL} /\ Behind(n + 1)'
    BY <1>7
  <2>3. \A j \in 1 .. r9 + 1 : j = r9 + 1 \/ j \in 1 .. r9
    BY <1>2
  <2>4. k + (r9 + 1) = n + 1 /\ k \in Nat
    BY <1>2
  <2>5. Letters(k, r9 + 1)
    <3>1. r9 + 1 \in Nat /\ k + (r9 + 1) <= Len(input)
      BY <1>2, <2>2, <2>4
    <3>2. \A j \in 1 .. r9 + 1 : input[k + j] \notin Blank \union {NUL}
      BY <2>2, <2>3, <2>4 DEF Letters
    <3> QED BY <3>1, <3>2 DEF Letters
  <2>6. \A j \in 1 .. r9 + 1 : mem'[j] = input[k + j]
    BY <1>3, <1>4, <2>2, <2>3, <2>4
  <2>7. CASE r9 + 1 <= BUFF_SIZE
    <3>1. pc' = "loop"
      BY <2>1, <2>7
    <3>2. StartsBehind(k)' /\ Letters(k, r9)'
      BY <2>1, <2>5 DEF StartsBehind, Letters
    <3>3. Behind(k + r9)'
      <4>1. k + r9' = n + 1
        BY <2>1, <2>4
      <4> QED BY <2>2, <4>1 DEF Behind
    <3>4. k \in 0 .. Len(input') /\ \A j \in 1 .. r9' : mem'[j] = input'[k + j]
      BY <2>1, <2>6
    <3> QED BY <3>1, <3>2, <3>3, <3>4 DEF Reading, Searches
  <2>8. CASE ~(r9 + 1 <= BUFF_SIZE)
    <3>1. pc' = "buff_err" /\ r9 + 1 > BUFF_SIZE
      BY <1>1, <1>2, <2>1, <2>8
    <3>2. Len(Word) >= r9 + 1
      BY <1>2, <2>5, WordIsLonger
    <3>3. Len(Word) \in Nat
      BY <1>2, WordIsText
    <3>4. Len(Word) > BUFF_SIZE
      BY <1>1, <1>2, <3>1, <3>2, <3>3
    <3> QED BY <1>5, <3>1, <3>4 DEF Reading, Searches
  <2> QED BY <2>7, <2>8
<1> QED BY <1>6, <1>7
LEMMA ReadingKept ==
  ASSUME Sound, WordsIntact, Clean, Search, Reading, [Next]_vars
  PROVE  Reading'
<1>1. CASE (Skip \/ Loop) /\ failed'
  BY <1>1 DEF Reading
<1>2. CASE (Skip \/ Loop) /\ ~failed'
  <2>1. PICK ch \in 0 .. 255, end \in BOOLEAN :
          /\ ReadChar(ch, end)
          /\ \/ pc = "skip" /\ ch \in Blank /\ UNCHANGED <<pc, mem, r9, rdx>>
             \/ ch \notin Blank /\ Written(ch, end)
             \/ pc = "loop" /\ ch \in Blank /\ Written(NUL, TRUE)
    BY <1>2, ReadStep, Zenon
  <2>2. pc \in Reads /\ input' = input
    BY <1>2, ReadStep, Zenon
  <2>3. /\ ~failed
        /\ \/ /\ stdin # <<>> /\ ch = Head(stdin) /\ stdin' = Tail(stdin)
              /\ end <=> ch = NUL
           \/ stdin = <<>> /\ ch = NUL /\ end
    BY <1>2, <2>1, ReadIs, Zenon
  <2>4. NUL \notin Blank /\ input \in Seq(0 .. 255) /\ Len(input) \in Nat
        /\ TRUE \in BOOLEAN
    BY DEF NUL, Blank, SPACE, TAB, LF, Sound
  <2>5. ASSUME NEW k \in 0 .. Len(input), Behind(k), \A j \in 1 .. k : input[j] \in Blank,
               pc = "skip", ch \in Blank, UNCHANGED <<pc, mem, r9, rdx>>
        PROVE  Reading'
    <3>1. stdin # <<>> /\ ch = Head(stdin) /\ stdin' = Tail(stdin)
      BY <2>3, <2>4, <2>5, Zenon
    <3>2. k < Len(input) /\ ch = input[k + 1] /\ Behind(k + 1)'
      BY <2>2, <2>5, <3>1, BehindHead, BehindMore
    <3>3. k + 1 \in 0 .. Len(input)
      BY <2>4, <3>2
    <3>4. \A j \in 1 .. k + 1 : input[j] \in Blank
      <4>1. \A j \in 1 .. k + 1 : j = k + 1 \/ j \in 1 .. k
        OBVIOUS
      <4> QED BY <2>5, <3>2, <4>1
    <3>5. pc' = "skip" /\ k + 1 \in 0 .. Len(input') /\ \A j \in 1 .. k + 1 : input'[j] \in Blank
      BY <2>2, <2>5, <3>3, <3>4
    <3> QED BY <3>2, <3>5 DEF Reading, Searches
  <2>6. ASSUME NEW k \in 0 .. Len(input), Behind(k + r9), StartsBehind(k), Letters(k, r9),
               \A j \in 1 .. r9 : mem[j] = input[k + j],
               \/ ch \notin Blank /\ Written(ch, end)
               \/ ch \in Blank /\ Written(NUL, TRUE)
        PROVE  Reading'
    <3>1. PICK n \in Nat : n = k + r9
      BY DEF Sound
    <3>2. Behind(n)
      BY <2>6, <3>1
    <3>3. stdin # <<>> => n < Len(input) /\ Head(stdin) = input[n + 1]
                          /\ (stdin' = Tail(stdin) => Behind(n + 1)')
      BY <2>2, <2>4, <3>2, BehindHead, BehindMore
    <3>4. stdin = <<>> => n = Len(input)
      BY <3>2, BehindAll
    <3>5. \/ /\ n < Len(input) /\ ch = input[n + 1] /\ Behind(n + 1)'
             /\ end <=> ch = NUL
          \/ n = Len(input) /\ ch = NUL /\ end
      BY <2>3, <3>3, <3>4, Zenon
    <3>6. CASE ch \notin Blank /\ Written(ch, end)
      <4>1. end => (n < Len(input) => input[n + 1] \in Blank \union {NUL})
        BY <2>4, <3>5
      <4>2. ~end => /\ n < Len(input) /\ ch = input[n + 1]
                    /\ ch \notin Blank \union {NUL} /\ Behind(n + 1)'
        BY <3>5, <3>6
      <4> QED BY <2>2, <2>6, <3>1, <3>6, <4>1, <4>2, ReadingWritten
    <3>7. CASE ch \in Blank /\ Written(NUL, TRUE)
      <4>1. n < Len(input) => input[n + 1] \in Blank \union {NUL}
        BY <2>4, <3>5, <3>7
      <4> QED BY <2>2, <2>4, <2>6, <3>1, <3>7, <4>1, ReadingWritten
    <3> QED BY <2>6, <3>6, <3>7
  <2>7. CASE pc = "skip"
    <3>1. PICK k \in 0 .. Len(input) : Behind(k) /\ \A j \in 1 .. k : input[j] \in Blank
      BY <2>3, <2>7 DEF Reading
    <3>2. r9 = 0
      BY <2>7 DEF Sound
    <3>3. CASE ch \in Blank /\ UNCHANGED <<pc, mem, r9, rdx>>
      BY <2>5, <2>7, <3>1, <3>3
    <3>4. CASE ch \notin Blank /\ Written(ch, end)
      <4>1. StartsBehind(k)
        <5>1. k < Len(input) => input[k + 1] \notin Blank
          <6>1. stdin = <<>> => k = Len(input)
            BY <3>1, BehindAll
          <6>2. stdin # <<>> => Head(stdin) = input[k + 1]
            BY <3>1, BehindHead
          <6> QED BY <2>3, <3>4, <6>1, <6>2
        <5> QED BY <3>1, <5>1 DEF StartsBehind
      <4>2. Behind(k + r9) /\ Letters(k, r9) /\ \A j \in 1 .. r9 : mem[j] = input[k + j]
        <5>1. k + r9 = k
          BY <3>2
        <5> QED BY <2>4, <3>1, <3>2, <5>1 DEF Letters
      <4> QED BY <2>6, <3>4, <4>1, <4>2
    <3> QED BY <2>1, <2>7, <3>3, <3>4
  <2>8. CASE pc = "loop"
    <3>1. PICK k \in 0 .. Len(input) :
            /\ StartsBehind(k) /\ Letters(k, r9) /\ Behind(k + r9)
            /\ \A j \in 1 .. r9 : mem[j] = input[k + j]
      BY <2>3, <2>8 DEF Reading, Searches
    <3> QED BY <2>1, <2>6, <2>8, <3>1
  <2> QED BY <2>2, <2>7, <2>8 DEF Reads
<1>3. CASE CheckWord \/ Find
  <2>1. pc \in Searches /\ pc' \in Searches
    BY <1>3 DEF CheckWord, Find, Searches
  <2>2. mem' = mem /\ input' = input /\ rdx' = rdx /\ failed' = failed
    BY <1>3, QuietStep DEF Quiet
  <2>3. Word' = Word
    BY <2>2, WordSame
  <2> QED BY <2>1, <2>2, <2>3 DEF Reading, Searches
<1>4. CASE GetWord \/ NoKeyEnd \/ BuffErrEnd
  <2>1. pc' = "exited"
    BY <1>4 DEF GetWord, NoKeyEnd, BuffErrEnd, Finish
  <2> QED BY <2>1 DEF Reading, Searches
<1>5. CASE UNCHANGED vars
  <2>1. UNCHANGED <<pc, mem, input, stdin, r9, rdx, failed>>
    BY <1>5 DEF vars
  <2>2. Word' = Word
    BY <2>1, WordSame
  <2>3. \A k : Behind(k)' <=> Behind(k)
    BY <2>1, Zenon DEF Behind
  <2>4. \A k : StartsBehind(k)' <=> StartsBehind(k)
    BY <2>1, Zenon DEF StartsBehind
  <2>6. \A k : Letters(k, r9)' <=> Letters(k, r9)
    BY <2>1, Zenon DEF Letters
  <2>7. \A k : Behind(k + r9)' <=> Behind(k + r9)
    BY <2>1, Zenon DEF Behind
  <2>8. CASE failed
    BY <2>1, <2>8 DEF Reading
  <2>9. CASE ~failed /\ pc = "skip"
    BY <2>1, <2>3, <2>9 DEF Reading, Searches
  <2>10. CASE ~failed /\ pc = "loop"
    BY <2>1, <2>4, <2>6, <2>7, <2>10 DEF Reading, Searches
  <2>11. CASE ~failed /\ pc \notin Reads
    BY <2>1, <2>2, <2>11 DEF Reading, Reads
  <2> QED BY <2>8, <2>9, <2>10, <2>11 DEF Reads
<1> QED BY <1>1, <1>2, <1>3, <1>4, <1>5 DEF Next

\* The answer: by then the word is in the buffer.
LEMMA LookupKept ==
  ASSUME Sound, WordsIntact, Clean, Search, Reading, LookupCorrect, [Next]_vars
  PROVE  LookupCorrect'
<1>1. input \in Seq(0 .. 255) /\ BUFF_SIZE \in Nat \ {0} /\ Buffer = 1 /\ Buffer \in Nat
      /\ rdx \in 0 .. BUFF_SIZE
  BY AddressesAre DEF Sound
<1>2. Word \in Texts /\ Len(Word) \in Nat
  BY <1>1, WordIsText
<1>3. CASE Skip \/ Loop \/ CheckWord \/ Find
  <2>1. pc' # "exited"
    <3>1. CASE CheckWord \/ Find
      BY <3>1 DEF CheckWord, Find
    <3>2. CASE Skip \/ Loop
      <4>2. PICK ch \in 0 .. 255, end \in BOOLEAN :
              \/ pc = "skip" /\ ch \in Blank /\ UNCHANGED <<pc, mem, r9, rdx>>
              \/ ch \notin Blank /\ Written(ch, end)
              \/ pc = "loop" /\ ch \in Blank /\ Written(NUL, TRUE)
        BY <3>2, ReadStep, Zenon
      <4>3. ASSUME NEW c, NEW e \in BOOLEAN, Written(c, e) PROVE pc' # "exited"
        <5>1. CASE e
          <6>1. pc' = "check_word"
            BY <4>3, <5>1, Zenon DEF Written
          <6> QED BY <6>1
        <5>2. CASE ~e
          <6>1. (r9 + 1 <= BUFF_SIZE => pc' = "loop") /\ (r9 + 1 > BUFF_SIZE => pc' = "buff_err")
            BY <4>3, <5>2, Zenon DEF Written
          <6>2. r9 \in Nat
            BY DEF Sound
          <6> QED BY <1>1, <6>1, <6>2
        <5> QED BY <5>1, <5>2
      <4>4. CASE pc = "skip" /\ UNCHANGED <<pc, mem, r9, rdx>>
        BY <4>4
      <4>5. CASE Written(ch, end)
        BY <4>3, <4>5
      <4>6. CASE Written(NUL, TRUE)
        BY <4>3, <4>6
      <4> QED BY <4>2, <4>4, <4>5, <4>6, Zenon
    <3> QED BY <1>3, <3>1, <3>2
  <2> QED BY <2>1 DEF LookupCorrect
<1>4. CASE Quiet /\ failed
  <2>1. failed' = failed
    BY <1>4, QuietStep
  <2> QED BY <1>4, <2>1 DEF LookupCorrect
<1>5. ASSUME Quiet, ~failed, pc \in Searches
      PROVE  Len(Word) = rdx /\ StrAt(mem, Buffer, Word)
             /\ \A j \in 1 .. Len(Words) : StrAt(mem, Buffer, Words[j].key) <=> j \in Matches
  <2>1. rdx = Len(Word) /\ \A j \in 1 .. rdx : mem[j] = Word[j]
    BY <1>5 DEF Reading
  <2>2. mem[rdx + 1] = NUL
    BY <1>5 DEF Clean
  <2>3. StrAt(mem, Buffer, Word)
    <3>1. \A j \in 1 .. Len(Word) : Buffer + j - 1 = j
      BY <1>1, <1>2
    <3>2. Buffer + Len(Word) = rdx + 1
      BY <1>1, <1>2, <2>1
    <3> QED BY <2>1, <2>2, <3>1, <3>2 DEF StrAt
  <2>4. ASSUME NEW j \in 1 .. Len(Words)
        PROVE  StrAt(mem, Buffer, Words[j].key) <=> j \in Matches
    <3>1. Words[j].key \in Texts /\ j \in DOMAIN Words
      BY WordsAre
    <3>2. StrAt(mem, Buffer, Words[j].key) <=> Words[j].key = Word
      <4>1. StrAt(mem, Buffer, Words[j].key) => Words[j].key = Word
        BY <1>1, <1>2, <2>3, <3>1, OneString
      <4> QED BY <2>3, <4>1
    <3> QED BY <3>1, <3>2 DEF Matches
  <2> QED BY <2>1, <2>3, <2>4
<1>6. ASSUME Quiet, UNCHANGED input
      PROVE  Word' = Word /\ Matches' = Matches
  BY <1>6, WordSame
<1>7. CASE GetWord /\ ~failed
  <2>1. pc = "get_word" /\ pc \in Searches /\ Quiet
    BY <1>7 DEF GetWord, Searches, Quiet
  <2>2. PICK i \in 1 .. Len(Words) :
          /\ r9 = EntryAt[i]
          /\ StrAt(mem, Buffer, Words[i].key)
          /\ \A j \in i + 1 .. Len(Words) : ~StrAt(mem, Buffer, Words[j].key)
    BY <2>1 DEF Search
  <2>3. StringAt(mem, ValueAt(r9)) = Words[i].value
    BY <2>1, <2>2, ValueFound DEF ValueAt
  <2>4. stdout' = Words[i].value \o <<LF>> /\ stderr' = <<>> /\ input' = input
    BY <1>7, <2>3 DEF GetWord, Finish
  <2>5. i \in Matches
    BY <1>5, <1>7, <2>1, <2>2
  <2>6. ASSUME NEW j \in Matches PROVE j <= i
    <3>1. j \in 1 .. Len(Words)
      BY WordsAre DEF Matches
    <3>2. StrAt(mem, Buffer, Words[j].key)
      BY <1>5, <1>7, <2>1, <3>1
    <3>3. j \notin i + 1 .. Len(Words)
      BY <2>2, <3>2
    <3> QED BY <3>1, <3>3, WordsAre
  <2>7. ~(Len(Word) > BUFF_SIZE)
    BY <1>1, <1>2, <1>5, <1>7, <2>1
  <2>8. Word' = Word /\ Matches' = Matches
    BY <1>6, <2>1, <2>4
  <2>9. Matches # {}
    BY <2>5
  <2>10. \E x \in Matches : stdout' = Words[x].value \o <<LF>> /\ \A j \in Matches : j <= x
    BY <2>4, <2>5, <2>6
  <2> QED BY <2>4, <2>7, <2>8, <2>9, <2>10 DEF LookupCorrect
<1>8. CASE NoKeyEnd /\ ~failed
  <2>1. pc = "no_key" /\ pc \in Searches /\ Quiet
    BY <1>8 DEF NoKeyEnd, Searches, Quiet
  <2>2. stdout' = <<LF>> /\ stderr' = StringAt(mem, NoKeyAt) /\ input' = input
    BY <1>8, EmptyIsText DEF NoKeyEnd, Finish
  <2>3. Matches = {}
    <3>1. ASSUME NEW j \in Matches PROVE FALSE
      <4>1. j \in 1 .. Len(Words)
        BY WordsAre DEF Matches
      <4>2. StrAt(mem, Buffer, Words[j].key)
        BY <1>5, <1>8, <2>1, <4>1
      <4> QED BY <2>1, <4>1, <4>2 DEF Search
    <3> QED BY <3>1
  <2>4. ~(Len(Word) > BUFF_SIZE) /\ (Len(Word) # BUFF_SIZE => rdx < BUFF_SIZE)
    BY <1>1, <1>2, <1>5, <1>8, <2>1
  <2>5. stderr' = NoKey \/ Len(Word) = BUFF_SIZE
    BY <2>1, <2>2, <2>4, NoKeyText
  <2>6. Word' = Word /\ Matches' = Matches
    BY <1>6, <2>1, <2>2
  <2> QED BY <2>2, <2>3, <2>4, <2>5, <2>6 DEF LookupCorrect
<1>9. CASE BuffErrEnd /\ ~failed
  <2>1. Len(Word) > BUFF_SIZE
    BY <1>9 DEF BuffErrEnd, Reading
  <2>2. stdout' = <<LF>> /\ stderr' = BuffErr /\ input' = input
    BY <1>9, EmptyIsText, BuffErrText DEF BuffErrEnd, Finish
  <2>3. Word' = Word
    BY <2>2, WordSame
  <2> QED BY <2>1, <2>2, <2>3 DEF LookupCorrect
<1>10. CASE UNCHANGED vars
  <2>1. UNCHANGED <<pc, input, stdout, stderr, failed>>
    BY <1>10 DEF vars
  <2>2. Word' = Word /\ Matches' = Matches
    BY <2>1, WordSame
  <2> QED BY <2>1, <2>2 DEF LookupCorrect
<1> QED BY <1>3, <1>4, <1>7, <1>8, <1>9, <1>10 DEF Next, Quiet

-----------------------------------------------------------------------------
(* The theorems.                                                           *)

LEMMA InitInvariant ==
  ASSUME Init
  PROVE  IInv
<1>1. BUFF_SIZE \in Nat \ {0} /\ NoKeyAt = BUFF_SIZE + 1
  BY AddressesAre
<1>2. Data \in Seq(Nat) /\ Len(Data) \in Nat /\ \A a \in 1 .. BUFF_SIZE : Data[a] = 0
  BY DataIs
<1>3. mem = Data /\ pc = "skip" /\ r9 = 0 /\ rdx = 0 /\ byte = 0 /\ stdin = input
      /\ input \in Streams /\ stdout = <<>> /\ stderr = <<>> /\ status = -1
  BY DEF Init
<1>4. input \in Seq(0 .. 255)
  BY <1>3, DictionaryAssumption
<1>5. Sound
  <2>1. DOMAIN mem = 1 .. Len(Data) /\ \A a \in DOMAIN mem : mem[a] \in Nat
    BY <1>2, <1>3
  <2>2. \A a \in 1 .. BUFF_SIZE : mem[a] \in 0 .. 255
    BY <1>2, <1>3
  <2>3. stdout \in Seq(0 .. 255) /\ stderr \in Seq(0 .. 255)
    BY <1>3, EmptyIsText, TextIsOutput
  <2> QED BY <1>1, <1>3, <1>4, <2>1, <2>2, <2>3 DEF Sound, Reads
<1>6. WordsIntact
  BY <1>3 DEF WordsIntact
<1>7. Clean
  BY <1>3 DEF Clean, Searches
<1>8. Search
  BY <1>3 DEF Search
<1>9. Reading
  <2>1. Len(input) \in Nat
    BY <1>4
  <2>2. Behind(0)
    <3>1. \A j \in 1 .. Len(stdin) : 0 + j = j
      BY <1>3, <2>1
    <3> QED BY <1>3, <2>1, <3>1 DEF Behind
  <2>3. 0 \in 0 .. Len(input) /\ \A j \in 1 .. 0 : input[j] \in Blank
    BY <2>1
  <2> QED BY <1>3, <2>2, <2>3 DEF Reading, Searches
<1>10. LookupCorrect
  BY <1>3 DEF LookupCorrect
<1> QED BY <1>5, <1>6, <1>7, <1>8, <1>9, <1>10 DEF IInv

LEMMA NextInvariant ==
  ASSUME IInv, [Next]_vars
  PROVE  IInv'
BY SoundKept, IntactKept, CleanKept, SearchKept, ReadingKept, LookupKept DEF IInv

LEMMA Invariance == Spec => []IInv
<1>1. Init => IInv
  BY InitInvariant
<1>2. IInv /\ [Next]_vars => IInv'
  BY NextInvariant
<1> QED BY <1>1, <1>2, PTL DEF Spec

\* Whatever stands in stdin and whichever reads fail: the length read is at most
\* the buffer's, find_word stands at an entry of the list, and what is printed
\* are bytes of the data.
THEOREM ProgramTypes == Spec => []TypeOK
<1>1. IInv => TypeOK
  <2>1. ASSUME IInv PROVE TypeOK
    <3>1. pc \in {"skip", "loop"} => r9 \in 0 .. BUFF_SIZE
      BY <2>1, AddressesAre DEF IInv, Sound
    <3>2. pc \in {"find", "get_word"} => \E i \in DOMAIN Words : r9 = EntryAt[i]
      BY <2>1, WordsAre DEF IInv, Search
    <3>3. /\ pc \in {"skip", "loop", "check_word", "find", "get_word", "no_key",
                     "buff_err", "exited"}
          /\ DOMAIN mem = 1 .. Len(Data) /\ \A a \in DOMAIN mem : mem[a] \in Nat
          /\ byte \in 0 .. 255 /\ rdx \in 0 .. BUFF_SIZE
          /\ stdout \in Seq(0 .. 255) /\ stderr \in Seq(0 .. 255) /\ status \in {-1, 1}
      BY <2>1 DEF IInv, Sound, Reads, Searches
    <3> QED BY <3>1, <3>2, <3>3 DEF TypeOK
  <2> QED BY <2>1
<1> QED BY <1>1, Invariance, PTL

\* No input and no failing read changes the words, or any other data but the
\* first byte behind the buffer.
THEOREM WordsAreIntact == Spec => []WordsIntact
<1>1. IInv => WordsIntact
  BY DEF IInv
<1> QED BY <1>1, Invariance, PTL

\* For every list of words, every buffer and every input: if no read fails, the
\* program prints the value laid out last for the word, or the right message.
THEOREM AnswersAreRight == Spec => []LookupCorrect
<1>1. IInv => LookupCorrect
  BY DEF IInv
<1> QED BY <1>1, Invariance, PTL
=============================================================================
