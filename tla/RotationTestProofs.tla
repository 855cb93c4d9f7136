-------------------------- MODULE RotationTestProofs --------------------------
(***************************************************************************)
(* The rotation.  After lemmas on rows, indices and bytes of a BMP, the    *)
(* first part is what holds in every run of image-transformer, for every   *)
(* source file and every word size: who owns the pixel arrays, that rows   *)
(* stay in them, and that a run with exit code zero has written the        *)
(* picture turned.  The second is the tester: its verdict is exact, for    *)
(* files of any length, any length of a row and any size of its buffer,    *)
(* and the first half of a test is a run of the program.                   *)
(***************************************************************************)
EXTENDS RotationTest, SequenceTheorems, WellFoundedInduction, TLAPS

-----------------------------------------------------------------------------
(* Induction.                                                              *)

\* Every set of numbers has a least one,
LEMMA Least ==
  ASSUME NEW T, T \subseteq Nat, T # {}
  PROVE  \E x \in T : \A y \in T : x <= y
<1> DEFINE R == OpToRel(<, Nat)
<1>1. IsWellFoundedOn(R, Nat)
  BY NatLessThanWellFounded, Zenon
<1>2. \A x, y \in Nat : y < x => <<y, x>> \in R
  BY DEF OpToRel
<1> HIDE DEF R
<1>3. \E x \in T : \A y \in T : ~ (<<y, x>> \in R)
  BY <1>1, WFMin, Zenon
<1>4. PICK x \in T : \A y \in T : ~ (<<y, x>> \in R)
  BY <1>3
<1>5. \A y \in T : ~ (y < x)
  BY <1>2, <1>4, Zenon
<1>6. \A y \in T : x <= y
  BY <1>5
<1> QED BY <1>6

\* so a set with zero and the successor of each of its numbers has them all.
LEMMA Induction ==
  ASSUME NEW T, 0 \in T, \A n \in Nat : n \in T => n + 1 \in T
  PROVE  Nat \subseteq T
<1> DEFINE U == Nat \ T
<1> SUFFICES ASSUME U # {} PROVE FALSE
  OBVIOUS
<1>1. PICK x \in U : \A y \in U : x <= y
  BY Least
<1>2. x # 0 /\ x \in Nat /\ x - 1 \in Nat /\ x - 1 \in T
  BY <1>1
<1> QED BY <1>2, <1>1

-----------------------------------------------------------------------------
(* Arithmetic of rows.                                                     *)

\* bmp.c:99: the padding is between one byte and four, and fills up a row to a
\* multiple of four.
LEMMA PaddingBounds ==
  ASSUME NEW w \in Nat
  PROVE  /\ GetPadding(w) \in 1 .. PADDING
         /\ Stride(w) % PADDING = 0
<1>1. w * PixelSize \in Nat
  BY DEF PixelSize
<1> QED BY <1>1 DEF GetPadding, Stride, PADDING

\* The padding is at most as long as a row that is not empty.
LEMMA PaddingFitsRow ==
  ASSUME NEW w \in Nat, w > 0
  PROVE  GetPadding(w) <= w * PixelSize
<1>1. CASE w = 1
  BY <1>1 DEF GetPadding, PADDING, PixelSize
<1>2. CASE w >= 2
  BY <1>2, PaddingBounds DEF PADDING, PixelSize
<1> QED BY <1>1, <1>2

\* Rows that are left have at least the bytes of one.
LEMMA RowsLeft ==
  ASSUME NEW n \in Nat \ {0}, NEW w \in Nat
  PROVE  n * w * PixelSize >= w * PixelSize
<1>1. n * w >= w
  <2>1. (n - 1) * w >= 0
    OBVIOUS
  <2>2. n * w = (n - 1) * w + w
    OBVIOUS
  <2> QED BY <2>1, <2>2
<1>2. n * w \in Nat
  OBVIOUS
<1> QED BY <1>1, <1>2 DEF PixelSize

\* The rows up to row r end inside an array whose size did not wrap around.
LEMMA RowsFit ==
  ASSUME NEW w \in Nat, NEW h \in Nat, NEW r \in Nat, r < h,
         w * h * PixelSize < WordMod
  PROVE  (r + 1) * (w * PixelSize) <= AllocSize(w, h)
<1>1. w * h \in Nat /\ w * (r + 1) \in Nat
  OBVIOUS
<1>2. w * (r + 1) <= w * h
  <2>1. w * (h - (r + 1)) >= 0
    OBVIOUS
  <2>2. w * h = w * (r + 1) + w * (h - (r + 1))
    OBVIOUS
  <2> QED BY <2>1, <2>2, <1>1
<1>3. AllocSize(w, h) = w * h * PixelSize
  BY <1>1, WordsAssumption DEF AllocSize, PixelSize
<1>4. (r + 1) * (w * PixelSize) = w * (r + 1) * PixelSize
  BY DEF PixelSize
<1> QED BY <1>1, <1>2, <1>3, <1>4 DEF PixelSize

\* Division with remainder has one result.
LEMMA QuotientUnique ==
  ASSUME NEW w \in Nat \ {0}, NEW i \in Int, NEW k \in Int,
         NEW j \in 0 .. w - 1, NEW l \in 0 .. w - 1, i * w + j = k * w + l
  PROVE  i = k /\ j = l
<1>1. ASSUME NEW a \in Int, NEW b \in Int, a < b
      PROVE  a * w + w <= b * w
  <2>1. (b - a - 1) * w >= 0
    BY <1>1
  <2>2. (b - a - 1) * w = b * w - a * w - w
    OBVIOUS
  <2>3. a * w \in Int /\ b * w \in Int
    OBVIOUS
  <2> QED BY <2>1, <2>2, <2>3
<1>2. i * w \in Int /\ k * w \in Int
  OBVIOUS
<1>3. ~(i < k)
  BY <1>1, <1>2
<1>4. ~(k < i)
  BY <1>1, <1>2
<1>5. i = k
  BY <1>3, <1>4
<1> QED BY <1>2, <1>5

\* Quotient and remainder, as the provers need them.
LEMMA Division ==
  ASSUME NEW w \in Nat \ {0}, NEW k \in Nat
  PROVE  /\ k \div w \in Int /\ k % w \in 0 .. w - 1
         /\ k = (k \div w) * w + (k % w)
<1>1. k \div w \in Int /\ k % w \in 0 .. w - 1 /\ k = w * (k \div w) + (k % w)
  OBVIOUS
<1>2. w * (k \div w) = (k \div w) * w
  BY <1>1
<1> QED BY <1>1, <1>2

\* An index of an array with rows of w elements is a row and a column.
LEMMA IndexSplits ==
  ASSUME NEW w \in Nat \ {0}, NEW i \in Nat, NEW j \in 0 .. w - 1
  PROVE  (i * w + j) \div w = i /\ (i * w + j) % w = j
<1> DEFINE k == i * w + j
           q == k \div w
           r == k % w
<1>1. k \in Nat
  <2>1. i * w \in Nat
    OBVIOUS
  <2> QED BY <2>1
<1>2. q \in Int /\ r \in 0 .. w - 1 /\ k = q * w + r
  <2> HIDE DEF k
  <2> QED BY <1>1, Division
<1>3. i * w + j = q * w + r
  BY <1>2
<1> HIDE DEF k, q, r
<1>4. i = q /\ j = r
  BY <1>2, <1>3, QuotientUnique
<1> QED BY <1>4 DEF k, q, r

\* The last element of a row lies before the next row.
LEMMA RowEnds ==
  ASSUME NEW s \in Nat, NEW n \in Nat, NEW i \in 0 .. n - 1
  PROVE  i * s \in Nat /\ i * s + s <= n * s
<1>1. (n - i - 1) * s >= 0
  OBVIOUS
<1>2. (n - i - 1) * s = n * s - i * s - s
  OBVIOUS
<1>3. i * s \in Nat /\ n * s \in Nat
  OBVIOUS
<1> QED BY <1>1, <1>2, <1>3

\* More rows take more room.
LEMMA ProductGrows ==
  ASSUME NEW s \in Nat, NEW a \in Nat, NEW b \in Nat, a <= b
  PROVE  a * s \in Nat /\ b * s \in Nat /\ a * s <= b * s
<1>1. (b - a) * s >= 0
  OBVIOUS
<1>2. (b - a) * s = b * s - a * s
  OBVIOUS
<1>3. a * s \in Nat /\ b * s \in Nat
  OBVIOUS
<1> QED BY <1>1, <1>2, <1>3

\* A remainder does not change when a summand is replaced by its remainder.
LEMMA RemainderOfSum ==
  ASSUME NEW m \in Nat \ {0}, NEW x \in Nat, NEW y \in Nat
  PROVE  (x + (y % m)) % m = (x + y) % m
<1>1. PICK q \in Int, r \in 0 .. m - 1 : r = y % m /\ y = q * m + r
  BY Division
<1>2. x + r \in Nat /\ x + y \in Nat
  BY <1>1
<1>3. PICK k \in Int, l \in 0 .. m - 1 : l = (x + r) % m /\ x + r = k * m + l
  BY <1>2, Division
<1>4. PICK p \in Int, n \in 0 .. m - 1 : n = (x + y) % m /\ x + y = p * m + n
  BY <1>2, Division
<1>5. (q + k) * m + l = p * m + n
  <2>1. (q + k) * m = q * m + k * m /\ q * m \in Int /\ k * m \in Int /\ p * m \in Int
    OBVIOUS
  <2>2. q * m + k * m + l = p * m + n
    <3>1. r \in Int /\ l \in Int /\ n \in Int
      OBVIOUS
    <3>2. y = q * m + r /\ x + r = k * m + l /\ x + y = p * m + n
      BY <1>1, <1>3, <1>4
    <3> QED BY <2>1, <3>1, <3>2
  <2> QED BY <2>1, <2>2
<1>6. q + k \in Int
  OBVIOUS
<1>7. l = n
  BY <1>5, <1>6, QuotientUnique
<1> QED BY <1>1, <1>3, <1>4, <1>7

\* A row and a column inside an image are an index inside its pixels.
LEMMA IndexInside ==
  ASSUME NEW w \in Nat, NEW h \in Nat, NEW i \in 0 .. h - 1, NEW j \in 0 .. w - 1
  PROVE  i * w + j \in 0 .. w * h - 1
<1> DEFINE place == i * w
           all == h * w
<1>1. place \in Nat /\ place + w <= all
  BY RowEnds
<1>2. w * h = all /\ all \in Nat
  OBVIOUS
<1>3. place + j \in 0 .. all - 1
  <2> HIDE DEF place, all
  <2> QED BY <1>1, <1>2
<1> QED BY <1>2, <1>3

\* What two sequences make, one after the other.
LEMMA Concatenation ==
  ASSUME NEW S, NEW p \in Seq(S), NEW q \in Seq(S)
  PROVE  /\ p \o q \in Seq(S)
         /\ Len(p \o q) = Len(p) + Len(q)
         /\ \A k \in 1 .. Len(p) : (p \o q)[k] = p[k]
         /\ \A k \in 1 .. Len(q) : (p \o q)[Len(p) + k] = q[k]
<1>1. /\ p \o q \in Seq(S)
      /\ Len(p \o q) = Len(p) + Len(q)
      /\ \A i \in 1 .. Len(p) + Len(q) :
           (p \o q)[i] = IF i <= Len(p) THEN p[i] ELSE q[i - Len(p)]
  BY ConcatProperties
<1>2. Len(p) \in Nat /\ Len(q) \in Nat
  OBVIOUS
<1>3. ASSUME NEW k \in 1 .. Len(p) PROVE (p \o q)[k] = p[k]
  BY <1>1, <1>2
<1>4. ASSUME NEW k \in 1 .. Len(q) PROVE (p \o q)[Len(p) + k] = q[k]
  <2>1. Len(p) + k \in 1 .. Len(p) + Len(q) /\ ~(Len(p) + k <= Len(p))
    BY <1>2
  <2>2. (Len(p) + k) - Len(p) = k
    BY <1>2
  <2> QED BY <1>1, <2>1, <2>2
<1> QED BY <1>1, <1>3, <1>4

\* A prefix of a sequence.
LEMMA Prefix ==
  ASSUME NEW S, NEW q \in Seq(S), NEW n \in 1 .. Len(q)
  PROVE  SubSeq(q, 1, n) \in Seq(S) /\ Len(SubSeq(q, 1, n)) = n
OBVIOUS

\* A row as it is stored is at least as long as its pixels.
LEMMA StrideNat ==
  ASSUME NEW w \in Nat
  PROVE  /\ w * PixelSize \in Nat /\ GetPadding(w) \in Nat
         /\ Stride(w) \in Nat /\ Stride(w) >= w * PixelSize
         /\ \A i \in Nat : i * Stride(w) \in Nat
<1>1. GetPadding(w) \in Nat
  <2>1. GetPadding(w) \in 1 .. PADDING
    BY PaddingBounds
  <2> QED BY <2>1 DEF PADDING
<1>2. w * PixelSize \in Nat
  BY DEF PixelSize
<1>3. Stride(w) \in Nat /\ Stride(w) >= w * PixelSize
  BY <1>1, <1>2 DEF Stride
<1> QED BY <1>1, <1>2, <1>3

-----------------------------------------------------------------------------
(* Rows of pixels as they are read, turned and written.                    *)

Pixel == [1 .. PixelSize -> Nat]

\* Byte c of the pixel in row i and column j of a body with rows of w pixels.
FileByte(body, w, i, j, c) == body[i * Stride(w) + j * PixelSize + c]

FilePixel(body, w, i, j) == [c \in 1 .. PixelSize |-> FileByte(body, w, i, j, c)]

\* The first n rows are there; rows of no pixels always are.
RowsThere(n, body, w) ==
  w = 0 \/ n = 0 \/ Len(body) >= (n - 1) * Stride(w) + w * PixelSize

\* An array of pixels is the first n rows of a body.
RowsRead(n, px, body, w) ==
  /\ px \in Seq(Pixel)
  /\ Len(px) = n * w
  /\ \A i \in 0 .. n - 1, j \in 0 .. w - 1 :
       px[i * w + j + 1] = FilePixel(body, w, i, j)
  /\ RowsThere(n, body, w)

\* Row i of the result is column i of the source, from the last row to the first.
Turned(px, body, w, h) ==
  \A i \in 0 .. w - 1, j \in 0 .. h - 1 :
    px[i * h + j] = FilePixel(body, w, h - j - 1, i)

\* The first n rows in the body of the result file are the first n of those.
RowsWritten(n, result, body, w, h) ==
  /\ result \in Seq(Nat)
  /\ \A i \in 0 .. n - 1, j \in 0 .. h - 1, c \in 1 .. PixelSize :
       FileByte(result, h, i, j, c) = FileByte(body, w, h - j - 1, i, c)

\* The bytes of a row that is there are bytes of the file.
LEMMA PixelThere ==
  ASSUME NEW w \in Nat, NEW body \in Seq(Nat), NEW r \in Nat, RowsThere(r + 1, body, w),
         NEW j \in 0 .. w - 1
  PROVE  FilePixel(body, w, r, j) \in Pixel
<1> DEFINE place == r * Stride(w)
<1>1. place \in Nat
  BY StrideNat
<1>2. Len(body) >= place + w * PixelSize
  BY DEF RowsThere
<1> HIDE DEF place
<1>3. ASSUME NEW c \in 1 .. PixelSize PROVE FileByte(body, w, r, j, c) \in Nat
  <2>1. place + j * PixelSize + c \in 1 .. Len(body)
    BY <1>1, <1>2 DEF PixelSize
  <2> DEFINE k == place + j * PixelSize + c
  <2>2. k \in 1 .. Len(body)
    BY <2>1
  <2>3. body[k] \in Nat
    <3> HIDE DEF k
    <3> QED BY <2>2
  <2> QED BY <2>3 DEF FileByte, place
<1> QED BY <1>3 DEF FilePixel, Pixel

\* One more row has been read.
LEMMA ReadOneMore ==
  ASSUME NEW w \in Nat, NEW body \in Seq(Nat), NEW r \in Nat, NEW px,
         RowsRead(r, px, body, w), RowsThere(r + 1, body, w),
         NEW new, new = [k \in 1 .. w |-> FilePixel(body, w, r, k - 1)]
  PROVE  RowsRead(r + 1, px \o new, body, w)
<1> DEFINE place == r * w
<1>1. new \in Seq(Pixel) /\ Len(new) = w
  <2>1. new \in [1 .. w -> Pixel]
    <3>1. ASSUME NEW k \in 1 .. w PROVE FilePixel(body, w, r, k - 1) \in Pixel
      BY PixelThere
    <3> QED BY <3>1
  <2> QED BY <2>1
<1>2. px \in Seq(Pixel) /\ Len(px) = place /\ place \in Nat
  BY DEF RowsRead
<1>3. px \o new \in Seq(Pixel) /\ Len(px \o new) = (r + 1) * w
  <2>1. Len(px \o new) = place + w /\ px \o new \in Seq(Pixel)
    <3>1. Len(px \o new) = Len(px) + Len(new) /\ px \o new \in Seq(Pixel)
      BY <1>1, <1>2, Concatenation
    <3> QED BY <3>1, <1>1, <1>2
  <2>2. (r + 1) * w = r * w + w
    OBVIOUS
  <2> QED BY <2>1, <2>2
<1>4. ASSUME NEW i \in 0 .. r, NEW j \in 0 .. w - 1
      PROVE  (px \o new)[i * w + j + 1] = FilePixel(body, w, i, j)
  <2>1. CASE i < r
    <3> DEFINE k == i * w
    <3>1. k \in Nat /\ k + w <= place
      BY <2>1, RowEnds
    <3>2. px[k + j + 1] = FilePixel(body, w, i, j)
      BY <2>1 DEF RowsRead
    <3> HIDE DEF k, place
    <3>3. k + j + 1 \in 1 .. Len(px)
      BY <3>1, <1>2
    <3>4. (px \o new)[k + j + 1] = px[k + j + 1]
      BY <3>3, <1>1, <1>2, Concatenation
    <3> QED BY <3>2, <3>4 DEF k
  <2>2. CASE i = r
    <3>1. (px \o new)[Len(px) + (j + 1)] = new[j + 1]
      BY <1>1, <1>2, Concatenation
    <3>2. new[j + 1] = FilePixel(body, w, r, j)
      OBVIOUS
    <3>3. i * w + j + 1 = Len(px) + (j + 1)
      <4> HIDE DEF place
      <4>1. place + j + 1 = Len(px) + (j + 1)
        BY <1>2
      <4> QED BY <4>1, <2>2 DEF place
    <3> QED BY <3>1, <3>2, <3>3, <2>2
  <2>3. i < r \/ i = r
    OBVIOUS
  <2> QED BY <2>1, <2>2, <2>3
<1>5. \A i \in 0 .. (r + 1) - 1, j \in 0 .. w - 1 :
        (px \o new)[i * w + j + 1] = FilePixel(body, w, i, j)
  <2>1. (r + 1) - 1 = r
    OBVIOUS
  <2> QED BY <1>4, <2>1
<1> QED BY <1>3, <1>5 DEF RowsRead

\* rotate_image puts columns where Turned says.
LEMMA RotateTurns ==
  ASSUME NEW w \in Nat, NEW h \in Nat, NEW body, NEW px, RowsRead(h, px, body, w),
         NEW source,
         source = [width |-> w, height |-> h,
                   pixels |-> [k \in 0 .. w * h - 1 |-> px[k + 1]]]
  PROVE  Turned(RotateImage(source).pixels, body, w, h)
<1> SUFFICES ASSUME NEW i \in 0 .. w - 1, NEW j \in 0 .. h - 1
             PROVE  RotateImage(source).pixels[i * h + j]
                      = FilePixel(body, w, h - j - 1, i)
  BY DEF Turned
<1> DEFINE k == i * h + j
           from == (h - j - 1) * w + i
<1>1. k \in 0 .. h * w - 1 /\ k \div h = i /\ k % h = j
  <2>1. k \in 0 .. h * w - 1
    BY IndexInside
  <2>2. h \in Nat \ {0} /\ i \in Nat
    OBVIOUS
  <2>3. k \div h = i /\ k % h = j
    BY <2>2, IndexSplits
  <2> QED BY <2>1, <2>3
<1>2. h - j - 1 \in 0 .. h - 1
  OBVIOUS
<1>3. from \in 0 .. w * h - 1
  BY <1>2, IndexInside
<1>4. RotateImage(source).pixels[k] = source.pixels[from]
  <2> HIDE DEF k
  <2> QED BY <1>1 DEF RotateImage
<1>5. source.pixels[from] = px[from + 1]
  <2> HIDE DEF from
  <2> QED BY <1>3
<1>6. px[from + 1] = FilePixel(body, w, h - j - 1, i)
  BY <1>2 DEF RowsRead
<1> QED BY <1>4, <1>5, <1>6

\* If the last row is there, so are those before it.
LEMMA EarlierRowsThere ==
  ASSUME NEW w \in Nat, NEW h \in Nat, NEW body \in Seq(Nat), RowsThere(h, body, w),
         NEW i \in 0 .. h - 1
  PROVE  RowsThere(i + 1, body, w)
<1> DEFINE s == Stride(w)
           place == i * s
           last == (h - 1) * s
<1>1. place <= last /\ place \in Nat /\ last \in Nat
  <2>1. s \in Nat /\ i \in Nat /\ h - 1 \in Nat /\ i <= h - 1
    BY StrideNat
  <2> HIDE DEF s
  <2> QED BY <2>1, ProductGrows
<1>2. w = 0 \/ Len(body) >= last + w * PixelSize
  BY DEF RowsThere
<1>3. w = 0 \/ Len(body) >= place + w * PixelSize
  <2> HIDE DEF place, last
  <2> QED BY <1>1, <1>2 DEF PixelSize
<1>4. (i + 1) - 1 = i
  OBVIOUS
<1> QED BY <1>3, <1>4 DEF RowsThere

\* The bytes of a row of the result are those of a column of the source.
LEMMA RowBytesTurned ==
  ASSUME NEW w \in Nat, NEW h \in Nat, NEW body \in Seq(Nat), RowsThere(h, body, w),
         NEW px, Turned(px, body, w, h), NEW r \in 0 .. w - 1
  PROVE  /\ RowBytes(px, h, r) \in Seq(Nat)
         /\ Len(RowBytes(px, h, r)) = h * PixelSize
         /\ \A j \in 0 .. h - 1, c \in 1 .. PixelSize :
              RowBytes(px, h, r)[j * PixelSize + c] = FileByte(body, w, h - j - 1, r, c)
<1> DEFINE q == RowBytes(px, h, r)
<1>1. ASSUME NEW j \in 0 .. h - 1, NEW c \in 1 .. PixelSize
      PROVE  /\ px[r * h + j][c] = FileByte(body, w, h - j - 1, r, c)
             /\ px[r * h + j][c] \in Nat
  <2>1. px[r * h + j] = FilePixel(body, w, h - j - 1, r)
    BY DEF Turned
  <2>2. h - j - 1 \in 0 .. h - 1 /\ h - j - 1 \in Nat
    OBVIOUS
  <2>3. FilePixel(body, w, h - j - 1, r) \in Pixel
    BY <2>2, EarlierRowsThere, PixelThere
  <2>4. FilePixel(body, w, h - j - 1, r)[c] = FileByte(body, w, h - j - 1, r, c)
    BY DEF FilePixel
  <2> QED BY <2>1, <2>3, <2>4 DEF Pixel
<1>2. ASSUME NEW b \in 1 .. h * PixelSize
      PROVE  /\ (b - 1) \div PixelSize \in 0 .. h - 1
             /\ ((b - 1) % PixelSize) + 1 \in 1 .. PixelSize
  BY DEF PixelSize
<1>3. q \in [1 .. h * PixelSize -> Nat]
  BY <1>1, <1>2 DEF RowBytes
<1>4. h * PixelSize \in Nat
  BY DEF PixelSize
<1>5. q \in Seq(Nat) /\ Len(q) = h * PixelSize
  <2> DEFINE n == h * PixelSize
  <2> HIDE DEF q, n
  <2>1. n \in Nat /\ q \in [1 .. n -> Nat]
    BY <1>3, <1>4 DEF n
  <2>2. q \in Seq(Nat) /\ Len(q) = n
    BY <2>1
  <2> QED BY <2>2 DEF n
<1>6. ASSUME NEW j \in 0 .. h - 1, NEW c \in 1 .. PixelSize
      PROVE  q[j * PixelSize + c] = px[r * h + j][c]
  <2> DEFINE b == j * PixelSize + c
  <2>1. /\ b \in 1 .. h * PixelSize
        /\ (b - 1) \div PixelSize = j
        /\ ((b - 1) % PixelSize) + 1 = c
    BY DEF PixelSize
  <2>2. q[b] = px[r * h + (b - 1) \div PixelSize][((b - 1) % PixelSize) + 1]
    <3> HIDE DEF b
    <3> QED BY <2>1 DEF RowBytes
  <2> QED BY <2>1, <2>2
<1> QED BY <1>1, <1>5, <1>6

\* What has been written stays when bytes are appended.
LEMMA WrittenStays ==
  ASSUME NEW w \in Nat, NEW h \in Nat, NEW body, NEW n \in Nat, NEW result,
         RowsWritten(n, result, body, w, h), RowsThere(n, result, h), NEW q \in Seq(Nat)
  PROVE  RowsWritten(n, result \o q, body, w, h)
<1>1. result \in Seq(Nat)
  BY DEF RowsWritten
<1>2. result \o q \in Seq(Nat)
  BY <1>1, Concatenation
<1>3. ASSUME NEW i \in 0 .. n - 1, NEW j \in 0 .. h - 1, NEW c \in 1 .. PixelSize
      PROVE  FileByte(result \o q, h, i, j, c) = FileByte(result, h, i, j, c)
  <2> DEFINE place == i * Stride(h)
  <2>1. place \in Nat
    <3>1. i \in Nat
      OBVIOUS
    <3> QED BY <3>1, StrideNat
  <2>2. Len(result) >= place + h * PixelSize
    <3>1. RowsThere(i + 1, result, h)
      BY <1>1, EarlierRowsThere
    <3>2. (i + 1) - 1 = i
      OBVIOUS
    <3> QED BY <3>1, <3>2 DEF RowsThere
  <2> HIDE DEF place
  <2>3. place + j * PixelSize + c \in 1 .. Len(result)
    BY <1>1, <2>1, <2>2 DEF PixelSize
  <2>4. (result \o q)[place + j * PixelSize + c] = result[place + j * PixelSize + c]
    BY <1>1, <2>3, Concatenation
  <2> QED BY <2>4 DEF FileByte, place
<1> QED BY <1>2, <1>3 DEF RowsWritten

\* r whole rows have been written.
WholeRows(r, result, body, w, h) ==
  RowsWritten(r, result, body, w, h) /\ Len(result) = r * Stride(h)

\* r whole rows have been written, and the pixels of one more.
WholeRowsBut(r, result, body, w, h) ==
  RowsWritten(r + 1, result, body, w, h) /\ Len(result) = r * Stride(h) + h * PixelSize

\* One more row of pixels,
LEMMA WriteOneMore ==
  ASSUME NEW w \in Nat, NEW h \in Nat, NEW body, NEW r \in 0 .. w - 1, NEW result,
         WholeRows(r, result, body, w, h),
         NEW q \in Seq(Nat), Len(q) = h * PixelSize,
         \A j \in 0 .. h - 1, c \in 1 .. PixelSize :
           q[j * PixelSize + c] = FileByte(body, w, h - j - 1, r, c)
  PROVE  WholeRowsBut(r, result \o q, body, w, h)
<1> DEFINE s == Stride(h)
           place == r * s
<1>1. result \in Seq(Nat) /\ Len(result) = place /\ place \in Nat /\ s \in Nat
  BY StrideNat DEF WholeRows, RowsWritten
<1>2. RowsThere(r, result, h)
  <2>1. s >= h * PixelSize
    BY StrideNat
  <2>2. (r - 1) * s = place - s
    <3> HIDE DEF s
    <3> QED BY <1>1
  <2> HIDE DEF place, s
  <2>3. Len(result) >= place - s + h * PixelSize
    BY <1>1, <2>1 DEF PixelSize
  <2> QED BY <2>2, <2>3 DEF RowsThere, s
<1>new. \A k \in 1 .. Len(q) : (result \o q)[Len(result) + k] = q[k]
  <2>1. result \in Seq(Nat)
    BY <1>1
  <2> HIDE DEF place, s
  <2> QED BY <2>1, Concatenation
<1>3. RowsWritten(r, result \o q, body, w, h)
  BY <1>2, WrittenStays DEF WholeRows
<1>4. result \o q \in Seq(Nat) /\ Len(result \o q) = place + h * PixelSize
  <2>1. result \o q \in Seq(Nat) /\ Len(result \o q) = Len(result) + Len(q)
    BY <1>1, Concatenation
  <2> QED BY <1>1, <2>1
<1>5. ASSUME NEW i \in 0 .. r, NEW j \in 0 .. h - 1, NEW c \in 1 .. PixelSize
      PROVE  FileByte(result \o q, h, i, j, c) = FileByte(body, w, h - j - 1, i, c)
  <2>1. CASE i \in 0 .. r - 1
    BY <1>3, <2>1 DEF RowsWritten
  <2>2. CASE i = r
    <3> HIDE DEF place, s
    <3>1. j * PixelSize + c \in 1 .. Len(q)
      BY DEF PixelSize
    <3>2. (result \o q)[Len(result) + (j * PixelSize + c)] = q[j * PixelSize + c]
      <4> DEFINE k == j * PixelSize + c
      <4>1. k \in 1 .. Len(q)
        BY <3>1
      <4> HIDE DEF k
      <4>2. (result \o q)[Len(result) + k] = q[k]
        BY <4>1, <1>new
      <4> QED BY <4>2 DEF k
    <3>3. place + j * PixelSize + c = Len(result) + (j * PixelSize + c)
      BY <1>1 DEF PixelSize
    <3>4. (result \o q)[place + j * PixelSize + c] = FileByte(body, w, h - j - 1, r, c)
      BY <3>2, <3>3
    <3> QED BY <3>4, <2>2 DEF FileByte, place, s
  <2>3. i \in 0 .. r - 1 \/ i = r
    OBVIOUS
  <2> QED BY <2>1, <2>2, <2>3
<1>6. (r + 1) - 1 = r
  OBVIOUS
<1> QED BY <1>4, <1>5, <1>6 DEF WholeRowsBut, RowsWritten

\* and its padding.
LEMMA PadOneMore ==
  ASSUME NEW w \in Nat, NEW h \in Nat \ {0}, NEW body, NEW r \in Nat, NEW result,
         WholeRowsBut(r, result, body, w, h),
         NEW q \in Seq(Nat), Len(q) = h * PixelSize,
         NEW pad, pad = SubSeq(q, 1, GetPadding(h))
  PROVE  WholeRows(r + 1, result \o pad, body, w, h)
<1> DEFINE place == r * Stride(h)
<1>1. result \in Seq(Nat) /\ Len(result) = place + h * PixelSize /\ place \in Nat
  BY StrideNat DEF WholeRowsBut, RowsWritten
<1>2. pad \in Seq(Nat) /\ Len(pad) = GetPadding(h)
  <2>1. GetPadding(h) \in 1 .. Len(q)
    <3>1. GetPadding(h) \in 1 .. PADDING
      BY PaddingBounds
    <3>2. GetPadding(h) <= h * PixelSize
      BY PaddingFitsRow
    <3> QED BY <3>1, <3>2 DEF PADDING
  <2> QED BY <2>1, Prefix
<1>3. RowsThere(r + 1, result, h)
  <2>1. (r + 1) - 1 = r
    OBVIOUS
  <2>2. Len(result) >= place + h * PixelSize
    BY <1>1 DEF PixelSize
  <2> QED BY <2>1, <2>2 DEF RowsThere
<1>4. RowsWritten(r + 1, result \o pad, body, w, h)
  <2>1. r + 1 \in Nat /\ h \in Nat
    OBVIOUS
  <2> QED BY <1>2, <1>3, <2>1, WrittenStays DEF WholeRowsBut
<1>5. Len(result \o pad) = (r + 1) * Stride(h)
  <2>1. Len(result \o pad) = Len(result) + Len(pad)
    BY <1>1, <1>2, Concatenation
  <2>2. (r + 1) * Stride(h) = place + Stride(h) /\ Stride(h) \in Nat
    <3> DEFINE s == Stride(h)
    <3>1. s \in Nat
      BY StrideNat
    <3>2. (r + 1) * s = r * s + s
      <4> HIDE DEF s
      <4> QED BY <3>1
    <3> QED BY <3>1, <3>2
  <2>3. GetPadding(h) \in Nat /\ h * PixelSize \in Nat
    BY StrideNat
  <2>4. Stride(h) = h * PixelSize + GetPadding(h)
    BY DEF Stride
  <2> DEFINE bytes == h * PixelSize
             filler == GetPadding(h)
             s == Stride(h)
             all == (r + 1) * s
             length == Len(result \o pad)
  <2>5. /\ length = (place + bytes) + filler /\ all = place + s
        /\ s = bytes + filler /\ bytes \in Nat /\ filler \in Nat /\ place \in Nat
    <3>1. all = place + s
      BY <2>2
    <3>2. s = bytes + filler /\ bytes \in Nat /\ filler \in Nat
      BY <2>3, <2>4
    <3>3. Len(result) = place + bytes /\ Len(pad) = filler /\ place \in Nat
      BY <1>1, <1>2
    <3> HIDE DEF place, bytes, filler, s, all
    <3> QED BY <2>1, <3>1, <3>2, <3>3
  <2> HIDE DEF place, bytes, filler, s, all, length
  <2>6. length = all
    BY <2>5
  <2> QED BY <2>6 DEF all, s, length
<1> QED BY <1>4, <1>5 DEF WholeRows

\* The header written passes the check of sizes of read_bmp_header.
LEMMA HeaderAgrees ==
  ASSUME NEW width \in Nat, NEW height \in Nat, width < FieldMod, height < FieldMod
  PROVE  /\ SizesAgree(InitBmpHeader(width, height))
         /\ InitBmpHeader(width, height).biWidth = width
         /\ InitBmpHeader(width, height).biHeight = height
<1> DEFINE size == (PixelSize * (width + GetPadding(width)) * height) % WordMod
           header == InitBmpHeader(width, height)
<1>1. size \in Nat
  <2>1. width + GetPadding(width) \in Nat
    <3>1. GetPadding(width) \in Nat
      BY StrideNat
    <3> QED BY <3>1
  <2>2. PixelSize * (width + GetPadding(width)) \in Nat
    BY <2>1 DEF PixelSize
  <2>3. PixelSize * (width + GetPadding(width)) * height \in Nat
    BY <2>2
  <2>4. WordMod \in Nat \ {0}
    BY WordsAssumption
  <2> QED BY <2>3, <2>4
<1>2. FieldMod \in Nat \ {0}
  BY WordsAssumption
<1>3. /\ header.bfileSize = (size + RESERVED + HeaderBytes) % FieldMod
      /\ header.bOffBits = HeaderBytes
      /\ header.biSizeImage = size % FieldMod
      /\ header.biWidth = width % FieldMod
      /\ header.biHeight = height % FieldMod
  BY DEF InitBmpHeader
<1> HIDE DEF size, header
<1>4. (HeaderBytes + (size % FieldMod)) % FieldMod = (HeaderBytes + size) % FieldMod
  BY <1>1, <1>2, RemainderOfSum DEF HeaderBytes
<1>5. HeaderBytes + size = size + RESERVED + HeaderBytes
  BY <1>1 DEF HeaderBytes, RESERVED
<1>6. width % FieldMod = width /\ height % FieldMod = height
  BY <1>2
<1> QED BY <1>3, <1>4, <1>5, <1>6 DEF SizesAgree, header


-----------------------------------------------------------------------------
(* The invariant.                                                          *)

Reading == {"alloc", "seek", "read_row", "read_pad"}
Writing == {"open_out", "write_header", "write_row", "write_pad", "close_out"}

\* The array read from the source, as far as malloc has returned one.
Held == IF "source" \in live THEN "source" ELSE None

Types ==
  /\ input \in Inputs
  /\ row \in Nat
  /\ image \in [width : Nat, height : Nat, buffer : Buffers \union {None}]
  /\ live \subseteq Buffers

\* Who owns the arrays in which phase: the new one belongs to nobody until
\* SetPixels hands it to the image, and to the image from then on.
Ownership ==
  /\ pc \in {"open_in", "header", "alloc"} => live = {} /\ image.buffer = None
  /\ pc \in {"seek", "read_row", "read_pad"} =>
       live \subseteq {"source"} /\ image.buffer = None
  /\ pc = "close_in" =>
       /\ live \subseteq {"source"}
       /\ image.buffer = IF status = READ_OK THEN Held ELSE None
  /\ pc = "rotate" => live \subseteq {"source"} /\ image.buffer = Held
  /\ pc \in Writing \union {"free_source"} => image.buffer = Held
  /\ pc = "free_failed" =>
       live \subseteq {"source"} /\ image.buffer = None /\ status # READ_OK
  /\ pc = "free_dest" => live \subseteq {"dest"}
  /\ HandedOverIsFreed

\* The sizes all loops run to are those of the source.
Sizes ==
  /\ (pc \in Reading \union {"rotate"} \/ (pc = "close_in" /\ status = READ_OK)) =>
       image.width = input.width /\ image.height = input.height
  /\ pc \in Writing => dest.width = input.height /\ dest.height = input.width
  /\ pc = "write_pad" => row < dest.height
  /\ RowsInBounds

IInv == Types /\ Ownership /\ Sizes

\* The sizes of the source fit 32 bit fields.
LEMMA InputTyped ==
  ASSUME Types
  PROVE  /\ input.width \in Nat /\ input.width < FieldMod
         /\ input.height \in Nat /\ input.height < FieldMod
         /\ input.body \in Seq(Nat)
BY InputsAssumption, WordsAssumption DEF Types, InputType

\* A run begins in the invariant.
LEMMA InitIInv == Init => IInv
BY DEF Init, IInv, Types, Ownership, Sizes, HandedOverIsFreed, RowsInBounds, Reading,
       Writing, READ_OK

-----------------------------------------------------------------------------
(* One lemma per action.                                                   *)

USE DEF READ_OK, READ_INVALID_SIGNATURE, READ_INVALID_BITS, READ_INVALID_HEADER,
        READ_ERROR, WRITE_OK, Buffers, None, Reading, Writing

\* Nothing is allocated when the source is opened.
LEMMA OpenInIInv == IInv /\ OpenIn => IInv'
BY DEF IInv, Types, Ownership, Sizes, Held, HandedOverIsFreed, RowsInBounds, OpenIn

\* A run that crashes owes nothing.
LEMMA CloseNullIInv == IInv /\ CloseNull => IInv'
BY DEF IInv, Types, Ownership, Sizes, Held, HandedOverIsFreed, RowsInBounds, CloseNull

\* The sizes of the image become those of the source, its array stays null.
LEMMA ReadBmpHeaderIInv == IInv /\ ReadBmpHeader => IInv'
<1> SUFFICES ASSUME IInv, ReadBmpHeader PROVE IInv'
  OBVIOUS
<1>1. CASE image' = image /\ pc' = "close_in" /\ status' # READ_OK
  BY <1>1 DEF IInv, Types, Ownership, Sizes, Held, HandedOverIsFreed, RowsInBounds,
              ReadBmpHeader
<1>2. CASE /\ image' = [image EXCEPT !.width = input.width, !.height = input.height]
           /\ pc' = "alloc"
  <2>1. /\ image' \in [width : Nat, height : Nat, buffer : Buffers \union {None}]
        /\ image'.width = input.width /\ image'.height = input.height
        /\ image'.buffer = image.buffer
    BY <1>2, InputTyped DEF IInv, Types
  <2> QED BY <1>2, <2>1 DEF IInv, Types, Ownership, Sizes, HandedOverIsFreed,
                            RowsInBounds,
                            ReadBmpHeader
<1> QED BY <1>1, <1>2 DEF ReadBmpHeader, ReadFails

\* The new array belongs to nobody yet.
LEMMA AllocPixelsIInv == IInv /\ AllocPixels => IInv'
BY DEF IInv, Types, Ownership, Sizes, Held, HandedOverIsFreed, RowsInBounds, AllocPixels

\* When the seek fails the new array is lost, as HandedOverIsFreed allows.
LEMMA SeekBodyIInv == IInv /\ SeekBody => IInv'
BY DEF IInv, Types, Ownership, Sizes, Held, HandedOverIsFreed,
       RowsInBounds, SeekBody, ReadFails

\* A row is read beyond the array only if the size of the array wrapped around.
LEMMA ReadRowIInv == IInv /\ ReadRow => IInv'
<1> SUFFICES ASSUME IInv, ReadRow PROVE IInv'
  OBVIOUS
<1>1. /\ UNCHANGED <<input, row, image, dest, live, out, lost>>
      /\ input.width \in Nat /\ input.height \in Nat /\ row \in Nat
      /\ image.width = input.width /\ image.height = input.height
      /\ row < input.height
  BY InputTyped DEF IInv, Types, Sizes, ReadRow
<1>2. CASE pc' = "out_of_bounds" /\ (row + 1) * (image.width * PixelSize)
                                       > AllocSize(image.width, image.height)
  <2>1. input.width * input.height \in Nat
    BY <1>1
  <2>2. input.width * input.height * PixelSize >= WordMod
    BY <1>1, <1>2, <2>1, RowsFit, WordsAssumption DEF AllocSize, PixelSize
  <2> QED BY <1>1, <1>2, <2>2 DEF IInv, Types, Ownership, Sizes, HandedOverIsFreed,
                                  RowsInBounds
<1>3. CASE \/ pc' \in {"crashed", "read_pad"}
           \/ pc' = "close_in" /\ status' = READ_INVALID_BITS
  BY <1>1, <1>3 DEF IInv, Types, Ownership, Sizes, HandedOverIsFreed,
                    RowsInBounds, ReadRow
<1> QED BY <1>2, <1>3 DEF ReadRow, ReadFails

\* Skipping the padding changes neither sizes nor arrays.
LEMMA SkipPaddingIInv == IInv /\ SkipPadding => IInv'
BY DEF IInv, Types, Ownership, Sizes, Held, HandedOverIsFreed,
       RowsInBounds, SkipPadding, ReadFails

\* The new array is handed over.
LEMMA SetPixelsIInv == IInv /\ SetPixels => IInv'
BY DEF IInv, Types, Ownership, Sizes, Held, HandedOverIsFreed, RowsInBounds, SetPixels

\* main goes on if all was read and frees the image if not.
LEMMA CloseInIInv == IInv /\ CloseIn => IInv'
BY DEF IInv, Types, Ownership, Sizes, Held, HandedOverIsFreed, RowsInBounds, CloseIn

\* The sizes of the result are those of the source, exchanged.
LEMMA RotateIInv == IInv /\ Rotate => IInv'
<1> SUFFICES ASSUME IInv, Rotate PROVE IInv'
  OBVIOUS
<1>1. /\ RotateImage(SourceImage).width = image.height
      /\ RotateImage(SourceImage).height = image.width
  BY DEF RotateImage, SourceImage
<1>2. /\ UNCHANGED <<input, row, image, status>>
      /\ live' = live \/ live' = live \union {"dest"}
      /\ pc' = "crashed" \/ (pc' = "open_out" /\ dest' = RotateImage(SourceImage))
  BY DEF Rotate
<1>3. pc = "rotate"
  BY DEF Rotate
<1> QED BY <1>1, <1>2, <1>3 DEF IInv, Types, Ownership, Sizes, Held, HandedOverIsFreed,
                                RowsInBounds

\* Opening the result changes neither sizes nor arrays.
LEMMA OpenOutIInv == IInv /\ OpenOut => IInv'
BY DEF IInv, Types, Ownership, Sizes, Held, HandedOverIsFreed, RowsInBounds, OpenOut

\* Nor does writing the header,
LEMMA WriteBmpHeaderIInv == IInv /\ WriteBmpHeader => IInv'
BY DEF IInv, Types, Ownership, Sizes, Held, HandedOverIsFreed,
       RowsInBounds, WriteBmpHeader, WriteFails

\* nor a row, which stands inside the result.
LEMMA WriteRowIInv == IInv /\ WriteRow => IInv'
BY DEF IInv, Types, Ownership, Sizes, Held, HandedOverIsFreed,
       RowsInBounds, WriteRow, WriteFails

\* The padding is taken from beyond the array only if rows have no pixels.
LEMMA WritePaddingIInv == IInv /\ WritePadding => IInv'
<1> SUFFICES ASSUME IInv, WritePadding PROVE IInv'
  OBVIOUS
<1> DEFINE rest == (dest.height - row) * dest.width * PixelSize
<1>1. /\ pc = "write_pad"
      /\ UNCHANGED <<input, pixels, image, dest, live, lost>>
      /\ input.width \in Nat /\ input.height \in Nat /\ row \in Nat
      /\ dest.width = input.height /\ dest.height = input.width
      /\ row < dest.height
  BY InputTyped DEF IInv, Types, Sizes, WritePadding
<1>2. CASE pc' = "out_of_bounds" /\ row' = row /\ GetPadding(dest.width) > rest
  <2>1. dest.height - row \in Nat \ {0} /\ dest.width \in Nat
    BY <1>1
  <2>2. rest >= dest.width * PixelSize
    BY <2>1, RowsLeft
  <2>3. dest.width * PixelSize \in Nat /\ rest \in Int /\ GetPadding(dest.width) \in Int
    BY <2>1, PaddingBounds DEF PixelSize, PADDING
  <2>4. ~(dest.width > 0)
    BY <1>2, <2>1, <2>2, <2>3, PaddingFitsRow
  <2>5. input.width > 0 /\ input.height = 0
    BY <1>1, <2>4
  <2> QED BY <1>1, <1>2, <2>5 DEF IInv, Types, Ownership, Sizes, Held, HandedOverIsFreed,
                                  RowsInBounds
<1>3. CASE \/ pc' = "close_out" /\ row' = row
           \/ pc' = "write_row" /\ row' = row + 1
  BY <1>1, <1>3 DEF IInv, Types, Ownership, Sizes, Held, HandedOverIsFreed, RowsInBounds
<1> QED BY <1>2, <1>3 DEF WritePadding, WriteFails

\* The end of the raster,
LEMMA WriteDoneIInv == IInv /\ WriteDone => IInv'
BY DEF IInv, Types, Ownership, Sizes, Held, HandedOverIsFreed, RowsInBounds, WriteDone

\* and closing the result, touch no array.
LEMMA CloseOutIInv == IInv /\ CloseOut => IInv'
BY DEF IInv, Types, Ownership, Sizes, Held, HandedOverIsFreed, RowsInBounds, CloseOut

\* The array the image holds, if any, is allocated.
LEMMA FreeSourceIInv == IInv /\ FreeSource => IInv'
<1> SUFFICES ASSUME IInv, FreeSource PROVE IInv'
  OBVIOUS
<1>1. /\ UNCHANGED <<input, row, image, status>>
      /\ pc \in {"free_failed", "free_source"}
  BY DEF FreeSource
<1>2. CASE pc = "free_failed"
  <2>1. live \subseteq {"source"} /\ image.buffer = None /\ status # READ_OK
    BY <1>2 DEF IInv, Ownership
  <2>2. pc' = "done" /\ live' \subseteq {"source"}
    BY <1>2, <2>1 DEF FreeSource
  <2> QED BY <1>1, <2>1, <2>2 DEF IInv, Types, Ownership, Sizes, HandedOverIsFreed,
                                  RowsInBounds
<1>3. CASE pc = "free_source"
  <2>1. image.buffer = Held /\ live \subseteq {"source", "dest"}
    BY <1>3 DEF IInv, Types, Ownership
  <2>2. pc' = "free_dest" /\ live' \subseteq {"dest"}
    BY <1>3, <2>1 DEF FreeSource, Held
  <2> QED BY <1>1, <2>2 DEF IInv, Types, Ownership, Sizes, HandedOverIsFreed,
                            RowsInBounds
<1> QED BY <1>1, <1>2, <1>3

\* The last array is freed.
LEMMA FreeDestIInv == IInv /\ FreeDest => IInv'
BY DEF IInv, Types, Ownership, Sizes, Held, HandedOverIsFreed, RowsInBounds, FreeDest

-----------------------------------------------------------------------------
(* The theorems.                                                           *)

\* Every step keeps it.
LEMMA NextIInv == IInv /\ [Next]_vars => IInv'
<1>1. IInv /\ UNCHANGED vars => IInv'
  BY DEF vars, IInv, Types, Ownership, Sizes, Held, HandedOverIsFreed, RowsInBounds
<1> QED
  BY <1>1, OpenInIInv, CloseNullIInv, ReadBmpHeaderIInv, AllocPixelsIInv, SeekBodyIInv,
     ReadRowIInv, SkipPaddingIInv, SetPixelsIInv, CloseInIInv, RotateIInv, OpenOutIInv,
     WriteBmpHeaderIInv, WriteRowIInv, WritePaddingIInv, WriteDoneIInv, CloseOutIInv,
     FreeSourceIInv, FreeDestIInv
     DEF Next

\* The invariant holds in every run.
LEMMA Invariance == Spec => []IInv
BY InitIInv, NextIInv, PTL DEF Spec

\* Whatever call fails, no pixel array is freed twice, and none that was handed
\* to an image is left behind.
THEOREM ArraysFreedOnce == Spec => []HandedOverIsFreed
<1>1. IInv => HandedOverIsFreed
  BY DEF IInv, Ownership
<1> QED BY <1>1, Invariance, PTL

\* Rows stay in their arrays unless the size of an array wraps around or the
\* source has columns of no pixels.
THEOREM RowsStayInArrays == Spec => []RowsInBounds
<1>1. IInv => RowsInBounds
  BY DEF IInv, Sizes
<1> QED BY <1>1, Invariance, PTL

\* A file that holds all rows shows the source turned left.
LEMMA WrittenIsTurned ==
  ASSUME NEW w \in Nat, NEW h \in Nat, NEW body, NEW result,
         WholeRows(w, result, body, w, h)
  PROVE  /\ Complete(result, h, w, Stride(h))
         /\ TurnedLeft(Picture(body, w, h), Picture(result, h, w))
<1> DEFINE src == Picture(body, w, h)
           dst == Picture(result, h, w)
<1>1. Complete(result, h, w, Stride(h))
  <2> DEFINE s == Stride(h)
             all == w * s
  <2>1. s \in Nat /\ s >= h * PixelSize /\ h * PixelSize \in Nat /\ all \in Nat
    BY StrideNat
  <2>2. (w - 1) * s = all - s
    <3> HIDE DEF s
    <3> QED BY <2>1
  <2>3. Len(result) = all
    BY DEF WholeRows
  <2> HIDE DEF s, all
  <2>4. Len(result) >= all - s + h * PixelSize
    BY <2>1, <2>3
  <2> QED BY <2>2, <2>4 DEF Complete, s
<1>2. /\ src.width = w /\ src.height = h
      /\ dst.width = h /\ dst.height = w
  BY DEF Picture, ImageAt
<1>3. ASSUME NEW x \in 0 .. h - 1, NEW y \in 0 .. w - 1
      PROVE  Shown(dst, x, y) = Shown(src, w - 1 - y, x)
  <2> DEFINE i == w - 1 - y
             j == h - 1 - x
             from == j * w + i
             to == i * h + x
  <2>1. i \in 0 .. w - 1 /\ j \in 0 .. h - 1 /\ i \in Nat /\ j \in Nat
    OBVIOUS
  <2>2. to \in 0 .. h * w - 1 /\ to \div h = i /\ to % h = x
    <3> HIDE DEF i
    <3>1. to \in 0 .. h * w - 1
      BY <2>1, IndexInside
    <3>2. h \in Nat \ {0}
      OBVIOUS
    <3>3. to \div h = i /\ to % h = x
      BY <2>1, <3>2, IndexSplits
    <3> QED BY <3>1, <3>3
  <2>3. from \in 0 .. w * h - 1 /\ from \div w = j /\ from % w = i
    <3> HIDE DEF i, j
    <3>1. from \in 0 .. w * h - 1
      BY <2>1, IndexInside
    <3>2. w \in Nat \ {0}
      OBVIOUS
    <3>3. from \div w = j /\ from % w = i
      BY <2>1, <3>2, IndexSplits
    <3> QED BY <3>1, <3>3
  <2>4. dst.pixels[to] = FilePixel(result, h, i, x)
    <3> HIDE DEF to, i
    <3> QED BY <2>2 DEF Picture, ImageAt, FilePixel, FileByte
  <2>5. src.pixels[from] = FilePixel(body, w, j, i)
    <3> HIDE DEF from, i, j
    <3> QED BY <2>3 DEF Picture, ImageAt, FilePixel, FileByte
  <2>6. FilePixel(result, h, i, x) = FilePixel(body, w, j, i)
    <3>1. h - x - 1 = j
      OBVIOUS
    <3> HIDE DEF i, j
    <3>2. \A c \in 1 .. PixelSize :
            FileByte(result, h, i, x, c) = FileByte(body, w, j, i, c)
      BY <2>1, <3>1 DEF WholeRows, RowsWritten
    <3> QED BY <3>2 DEF FilePixel
  <2>7. Shown(dst, x, y) = dst.pixels[to]
    BY <1>2 DEF Shown
  <2>8. Shown(src, w - 1 - y, x) = src.pixels[from]
    BY <1>2 DEF Shown
  <2> QED BY <2>4, <2>5, <2>6, <2>7, <2>8
<1> QED BY <1>1, <1>2, <1>3 DEF TurnedLeft

-----------------------------------------------------------------------------
(* The invariant of the contents.                                          *)

Header == InitBmpHeader(input.height, input.width)

\* How much of the source has been read.
ReadSoFar ==
  /\ pc \in {"open_in", "header", "alloc", "seek"} => row = 0 /\ pixels = <<>>
  /\ pc = "read_row" =>
       /\ row <= input.height
       /\ RowsRead(row, pixels, input.body, input.width)
       /\ pos = row * Stride(input.width)
  /\ pc = "read_pad" =>
       /\ row < input.height
       /\ RowsRead(row + 1, pixels, input.body, input.width)
       /\ pos = row * Stride(input.width) + input.width * PixelSize
  /\ (pc = "rotate" \/ (pc = "close_in" /\ status = READ_OK)) =>
       RowsRead(input.height, pixels, input.body, input.width)

\* How much of the result has been written.
WrittenSoFar ==
  /\ out = [headers |-> out.headers, body |-> out.body]
  /\ pc \in {"open_in", "header", "alloc", "seek", "read_row", "read_pad", "close_in",
             "rotate", "open_out", "write_header"} => out = NoFile
  /\ pc \in {"rotate", "open_out", "write_header"} => row = 0
  /\ pc \in Writing =>
       /\ RowsThere(input.height, input.body, input.width)
       /\ Turned(dest.pixels, input.body, input.width, input.height)
  /\ pc = "write_row" =>
       /\ row <= input.width
       /\ out.headers = <<Header>>
       /\ WholeRows(row, out.body, input.body, input.width, input.height)
  /\ pc = "write_pad" =>
       /\ out.headers = <<Header>>
       /\ WholeRowsBut(row, out.body, input.body, input.width, input.height)

\* Once all has gone well, all is there.
ResultThere ==
  (pc \in {"close_out", "free_source", "free_dest", "done"} /\ status = WRITE_OK /\ ~lost) =>
    /\ RowsThere(input.height, input.body, input.width)
    /\ out.headers = <<Header>>
    /\ WholeRows(input.width, out.body, input.body, input.width, input.height)

Contents == ReadSoFar /\ WrittenSoFar /\ ResultThere

\* Nothing has been read or written at the beginning.
LEMMA InitContents == Init => Contents
BY DEF Init, Contents, ReadSoFar, WrittenSoFar, ResultThere, NoFile

\* Nothing has been read or written when the source is opened.
LEMMA OpenInContents == IInv /\ Contents /\ OpenIn => Contents'
BY DEF Contents, ReadSoFar, WrittenSoFar, ResultThere, Header, OpenIn

\* A run that crashes has no result.
LEMMA CloseNullContents == IInv /\ Contents /\ CloseNull => Contents'
BY DEF Contents, ReadSoFar, WrittenSoFar, ResultThere, Header, CloseNull

\* A header read, or refused, is no pixel read.
LEMMA ReadBmpHeaderContents == IInv /\ Contents /\ ReadBmpHeader => Contents'
BY DEF Contents, ReadSoFar, WrittenSoFar, ResultThere, Header, ReadBmpHeader, ReadFails

\* Nor does malloc change a pixel.
LEMMA AllocPixelsContents == IInv /\ Contents /\ AllocPixels => Contents'
BY DEF Contents, ReadSoFar, WrittenSoFar, ResultThere, Header, AllocPixels

\* At the start of the pixels no row has been read.
LEMMA SeekBodyContents == IInv /\ Contents /\ SeekBody => Contents'
<1> SUFFICES ASSUME IInv, Contents, SeekBody PROVE Contents'
  OBVIOUS
<1> USE DEF Contents, ReadSoFar, WrittenSoFar, ResultThere, Header
<1>1. input.width \in Nat /\ input.height \in Nat /\ input' = input /\ out' = out
  BY InputTyped DEF IInv, SeekBody
<1>2. CASE pc' = "close_in" /\ status' # READ_OK
  BY <1>1, <1>2 DEF SeekBody
<1>3. CASE pc' = "read_row" /\ pos' = 0
  <2>1. row' = 0 /\ pixels' = <<>> /\ out' = NoFile
    BY <1>3 DEF SeekBody
  <2>2. RowsRead(0, <<>>, input.body, input.width)
    BY <1>1 DEF RowsRead, RowsThere
  <2>3. 0 * Stride(input.width) = 0
    <3> DEFINE s == Stride(input.width)
    <3>1. s \in Nat
      BY <1>1, StrideNat
    <3>2. 0 * s = 0
      <4> HIDE DEF s
      <4> QED BY <3>1
    <3> QED BY <3>2
  <2> QED BY <1>1, <1>3, <2>1, <2>2, <2>3
<1> QED BY <1>2, <1>3 DEF SeekBody, ReadFails

\* A row that has been read follows those before it.
LEMMA ReadRowContents == IInv /\ Contents /\ ReadRow => Contents'
<1> SUFFICES ASSUME IInv, Contents, ReadRow PROVE Contents'
  OBVIOUS
<1> USE DEF Contents, ReadSoFar, WrittenSoFar, ResultThere, Header
<1> DEFINE w == input.width
           body == input.body
           new == [k \in 1 .. w |-> FilePixel(body, w, row, k - 1)]
<1>1. /\ w \in Nat /\ input.height \in Nat /\ body \in Seq(Nat) /\ row \in Nat
      /\ input' = input /\ row' = row /\ out' = out /\ out = NoFile
      /\ image.width = w /\ image.height = input.height /\ row < input.height
      /\ RowsRead(row, pixels, body, w) /\ pos = row * Stride(w)
  BY InputTyped DEF IInv, Types, Sizes, ReadRow
<1>2. CASE pc' \in {"crashed", "out_of_bounds"}
  BY <1>1, <1>2
<1>3. CASE pc' = "close_in" /\ status' # READ_OK
  BY <1>1, <1>3
<1>4. CASE /\ image.width * PixelSize = 0
                \/ Len(body) >= pos + image.width * PixelSize
           /\ pixels' = pixels \o
                [k \in 1 .. image.width |->
                   [c \in 1 .. PixelSize |-> body[pos + (k - 1) * PixelSize + c]]]
           /\ pos' = pos + image.width * PixelSize
           /\ pc' = "read_pad"
  <2>1. new = [k \in 1 .. image.width |->
                 [c \in 1 .. PixelSize |-> body[pos + (k - 1) * PixelSize + c]]]
    BY <1>1 DEF FilePixel, FileByte
  <2>2. RowsThere(row + 1, body, w)
    <3>1. (row + 1) - 1 = row
      BY <1>1
    <3>2. w = 0 \/ Len(body) >= row * Stride(w) + w * PixelSize
      <4>1. w = 0 \/ w * PixelSize # 0
        BY <1>1 DEF PixelSize
      <4> QED BY <1>1, <1>4, <4>1
    <3> QED BY <3>1, <3>2 DEF RowsThere
  <2>3. RowsRead(row + 1, pixels \o new, body, w)
    BY <1>1, <2>2, ReadOneMore
  <2>4. pixels' = pixels \o new
    BY <1>4, <2>1
  <2> QED BY <1>1, <1>4, <2>3, <2>4
<1>5. \/ pc' \in {"crashed", "out_of_bounds"}
      \/ ReadFails(READ_INVALID_BITS)
      \/ /\ image.width * PixelSize = 0
            \/ Len(body) >= pos + image.width * PixelSize
         /\ pixels' = pixels \o
              [k \in 1 .. image.width |->
                 [c \in 1 .. PixelSize |-> body[pos + (k - 1) * PixelSize + c]]]
         /\ pos' = pos + image.width * PixelSize
         /\ pc' = "read_pad"
  BY DEF ReadRow
<1>6. ReadFails(READ_INVALID_BITS) => pc' = "close_in" /\ status' # READ_OK
  BY DEF ReadFails
<1> HIDE DEF Contents
<1> QED BY <1>2, <1>3, <1>4, <1>5, <1>6

\* The next row begins after the padding.
LEMMA SkipPaddingContents == IInv /\ Contents /\ SkipPadding => Contents'
<1> SUFFICES ASSUME IInv, Contents, SkipPadding PROVE Contents'
  OBVIOUS
<1> USE DEF Contents, ReadSoFar, WrittenSoFar, ResultThere, Header
<1> DEFINE s == Stride(input.width)
<1>1. /\ input.width \in Nat /\ input.height \in Nat /\ row \in Nat
      /\ input' = input /\ out' = out /\ out = NoFile /\ pixels' = pixels
      /\ image.width = input.width /\ row < input.height
      /\ RowsRead(row + 1, pixels, input.body, input.width)
      /\ pos = row * s + input.width * PixelSize
  BY InputTyped DEF IInv, Types, Sizes, SkipPadding
<1>2. CASE pc' = "close_in" /\ status' # READ_OK
  BY <1>1, <1>2
<1>3. CASE pos' = pos + GetPadding(input.width) /\ row' = row + 1 /\ pc' = "read_row"
  <2>1. /\ s \in Nat /\ input.width * PixelSize \in Nat /\ GetPadding(input.width) \in Nat
        /\ s = input.width * PixelSize + GetPadding(input.width)
        /\ row * s \in Nat
    BY <1>1, StrideNat DEF Stride
  <2>2. (row + 1) * s = row * s + s
    <3> HIDE DEF s
    <3> QED BY <1>1, <2>1
  <2>3. pos' = (row + 1) * s
    <3> DEFINE start == row * s
               bytes == input.width * PixelSize
               pad == GetPadding(input.width)
    <3>1. /\ start \in Nat /\ bytes \in Nat /\ pad \in Nat /\ s = bytes + pad
          /\ pos' = (start + bytes) + pad /\ (row + 1) * s = start + s
      BY <1>1, <1>3, <2>1, <2>2
    <3> DEFINE next == (row + 1) * s
    <3> HIDE DEF start, bytes, pad, s, next
    <3>2. pos' = next
      BY <3>1 DEF next
    <3> QED BY <3>2 DEF next
  <2> QED BY <1>1, <1>3, <2>3
<1> QED BY <1>1, <1>2, <1>3 DEF SkipPadding, ReadFails

\* After the last row the picture is complete.
LEMMA SetPixelsContents == IInv /\ Contents /\ SetPixels => Contents'
BY DEF Contents, ReadSoFar, WrittenSoFar, ResultThere, Header, IInv, Sizes, SetPixels

\* main rotates what is complete, from the first row on.
LEMMA CloseInContents == IInv /\ Contents /\ CloseIn => Contents'
BY DEF Contents, ReadSoFar, WrittenSoFar, ResultThere, Header, CloseIn

\* rotate_image turns it.
LEMMA RotateContents == IInv /\ Contents /\ Rotate => Contents'
<1> SUFFICES ASSUME IInv, Contents, Rotate PROVE Contents'
  OBVIOUS
<1> DEFINE w == input.width
           h == input.height
<1>1. /\ w \in Nat /\ h \in Nat /\ image.width = w /\ image.height = h
      /\ pc = "rotate"
  BY InputTyped DEF IInv, Types, Sizes, Rotate
<1>2. RowsRead(h, pixels, input.body, w) /\ out = NoFile /\ row = 0
  BY <1>1 DEF Contents, ReadSoFar, WrittenSoFar
<1>3. Turned(RotateImage(SourceImage).pixels, input.body, w, h)
  <2>1. SourceImage = [width |-> w, height |-> h,
                       pixels |-> [k \in 0 .. w * h - 1 |-> pixels[k + 1]]]
    BY <1>1 DEF SourceImage
  <2> QED BY <1>1, <1>2, <2>1, RotateTurns
<1>4. RowsThere(h, input.body, w)
  BY <1>2 DEF RowsRead
<1>5. /\ UNCHANGED <<input, row, pixels, status, out>>
      /\ pc' = "crashed" \/ (pc' = "open_out" /\ dest' = RotateImage(SourceImage))
  BY DEF Rotate
<1> QED BY <1>2, <1>3, <1>4, <1>5
        DEF Contents, ReadSoFar, WrittenSoFar, ResultThere, Header

\* Opening the result writes nothing.
LEMMA OpenOutContents == IInv /\ Contents /\ OpenOut => Contents'
BY DEF Contents, ReadSoFar, WrittenSoFar, ResultThere, Header, OpenOut

\* The header is that of a picture with the sizes exchanged.
LEMMA WriteBmpHeaderContents == IInv /\ Contents /\ WriteBmpHeader => Contents'
<1> SUFFICES ASSUME IInv, Contents, WriteBmpHeader PROVE Contents'
  OBVIOUS
<1>1. /\ pc = "write_header" /\ out = NoFile /\ row = 0
      /\ input.width \in Nat /\ input.height \in Nat
      /\ dest.width = input.height /\ dest.height = input.width
      /\ UNCHANGED <<input, pixels, dest, row>>
  BY InputTyped DEF IInv, Sizes, Contents, WrittenSoFar, WriteBmpHeader, WriteFails
<1>2. CASE pc' = "close_out" /\ status' # WRITE_OK /\ out' = out
  BY <1>1, <1>2 DEF Contents, ReadSoFar, WrittenSoFar, ResultThere
<1>3. CASE /\ out' = [out EXCEPT !.headers = <<InitBmpHeader(dest.width, dest.height)>>]
           /\ pc' = "write_row"
  <2>1. /\ out' = [headers |-> <<Header>>, body |-> <<>>]
        /\ out'.headers = <<Header>> /\ out'.body = <<>>
    BY <1>1, <1>3 DEF NoFile, Header
  <2>2. WholeRows(0, <<>>, input.body, input.width, input.height)
    <3> DEFINE s == Stride(input.height)
    <3>1. s \in Nat
      BY <1>1, StrideNat
    <3>2. 0 * s = 0
      <4> HIDE DEF s
      <4> QED BY <3>1
    <3> QED BY <3>2 DEF WholeRows, RowsWritten
  <2> QED BY <1>1, <1>3, <2>1, <2>2
          DEF Contents, ReadSoFar, WrittenSoFar, ResultThere, Header
<1> QED BY <1>2, <1>3 DEF WriteBmpHeader, WriteFails, WRITE_HEADER_ERROR

\* A row of the result is a column of the source.
LEMMA WriteRowContents == IInv /\ Contents /\ WriteRow => Contents'
<1> SUFFICES ASSUME IInv, Contents, WriteRow PROVE Contents'
  OBVIOUS
<1> DEFINE w == input.width
           h == input.height
           q == RowBytes(dest.pixels, h, row)
<1>1. /\ w \in Nat /\ h \in Nat /\ input.body \in Seq(Nat)
      /\ row \in 0 .. w - 1 /\ row \in Nat
      /\ pc = "write_row" /\ dest.width = h /\ dest.height = w
      /\ UNCHANGED <<input, pixels, dest, row>>
  <2>1. w \in Nat /\ h \in Nat /\ input.body \in Seq(Nat)
    BY InputTyped DEF IInv
  <2>2. /\ row \in Nat /\ row < dest.height
        /\ pc = "write_row" /\ dest.width = h /\ dest.height = w
    BY DEF IInv, Types, Sizes, WriteRow
  <2>3. UNCHANGED <<input, pixels, dest, row>>
    BY DEF WriteRow, WriteFails
  <2> QED BY <2>1, <2>2, <2>3
<1>2. /\ RowsThere(h, input.body, w) /\ Turned(dest.pixels, input.body, w, h)
      /\ out.headers = <<Header>> /\ WholeRows(row, out.body, input.body, w, h)
  BY <1>1 DEF Contents, WrittenSoFar
<1>3. CASE pc' = "close_out" /\ status' # WRITE_OK /\ out' = out
  BY <1>1, <1>2, <1>3 DEF Contents, ReadSoFar, WrittenSoFar, ResultThere
<1>4. CASE /\ out' = [out EXCEPT !.body = @ \o RowBytes(dest.pixels, dest.width, row)]
           /\ pc' = "write_pad"
  <2>1. WholeRowsBut(row, out.body \o q, input.body, w, h)
    <3>1. /\ q \in Seq(Nat) /\ Len(q) = h * PixelSize
          /\ \A j \in 0 .. h - 1, c \in 1 .. PixelSize :
               q[j * PixelSize + c] = FileByte(input.body, w, h - j - 1, row, c)
      <4> DEFINE px == dest.pixels
                 body == input.body
      <4>1. /\ w \in Nat /\ h \in Nat /\ body \in Seq(Nat) /\ RowsThere(h, body, w)
            /\ Turned(px, body, w, h) /\ row \in 0 .. w - 1
        BY <1>1, <1>2
      <4> HIDE DEF px, body, w, h
      <4> QED BY <4>1, RowBytesTurned DEF px, body
    <3> HIDE DEF q
    <3> QED BY <1>1, <1>2, <3>1, WriteOneMore
  <2>2. /\ out' = [headers |-> out.headers, body |-> out.body \o q]
        /\ out'.headers = <<Header>> /\ out'.body = out.body \o q
    <3>1. out = [headers |-> out.headers, body |-> out.body]
      BY DEF Contents, WrittenSoFar
    <3> QED BY <1>1, <1>2, <1>4, <3>1
  <2> QED BY <1>1, <1>2, <1>4, <2>1, <2>2
          DEF Contents, ReadSoFar, WrittenSoFar, ResultThere, Header
<1>5. \/ WriteFails(WRITE_PIXELS_ERROR)
      \/ /\ out' = [out EXCEPT !.body = @ \o RowBytes(dest.pixels, dest.width, row)]
         /\ pc' = "write_pad"
  BY DEF WriteRow
<1>6. WriteFails(WRITE_PIXELS_ERROR) =>
        pc' = "close_out" /\ status' # WRITE_OK /\ out' = out
  BY DEF WriteFails, WRITE_PIXELS_ERROR
<1> QED BY <1>3, <1>4, <1>5, <1>6

\* The padding ends the row.
LEMMA WritePaddingContents == IInv /\ Contents /\ WritePadding => Contents'
<1> SUFFICES ASSUME IInv, Contents, WritePadding PROVE Contents'
  OBVIOUS
<1> DEFINE w == input.width
           h == input.height
           q == RowBytes(dest.pixels, h, row)
           n == GetPadding(dest.width)
           rest == (dest.height - row) * dest.width * PixelSize
<1>1. /\ w \in Nat /\ h \in Nat /\ input.body \in Seq(Nat)
      /\ row \in 0 .. w - 1 /\ row \in Nat
      /\ pc = "write_pad" /\ dest.width = h /\ dest.height = w
      /\ UNCHANGED <<input, pixels, dest>>
  <2>1. w \in Nat /\ h \in Nat /\ input.body \in Seq(Nat)
    BY InputTyped DEF IInv
  <2>2. /\ row \in Nat /\ row < dest.height
        /\ pc = "write_pad" /\ dest.width = h /\ dest.height = w
    BY DEF IInv, Types, Sizes, WritePadding
  <2>3. UNCHANGED <<input, pixels, dest>>
    BY DEF WritePadding
  <2> QED BY <2>1, <2>2, <2>3
<1>2. /\ RowsThere(h, input.body, w) /\ Turned(dest.pixels, input.body, w, h)
      /\ out.headers = <<Header>> /\ WholeRowsBut(row, out.body, input.body, w, h)
      /\ out = [headers |-> out.headers, body |-> out.body]
  BY <1>1 DEF Contents, WrittenSoFar
<1>3. CASE pc' = "out_of_bounds" /\ out' = out
  BY <1>1, <1>2, <1>3 DEF Contents, ReadSoFar, WrittenSoFar, ResultThere
<1>4. CASE pc' = "close_out" /\ status' # WRITE_OK /\ out' = out
  BY <1>1, <1>2, <1>4 DEF Contents, ReadSoFar, WrittenSoFar, ResultThere
<1>5. CASE /\ ~(n > rest)
           /\ out' = [out EXCEPT !.body =
                        @ \o SubSeq(RowBytes(dest.pixels, dest.width, row), 1, n)]
           /\ row' = row + 1
           /\ pc' = "write_row"
  <2>1. h \in Nat \ {0}
    <3>1. SUFFICES ASSUME h = 0 PROVE FALSE
      BY <1>1
    <3>2. rest = 0
      <4>1. (dest.height - row) * 0 = 0
        BY <1>1
      <4> QED BY <1>1, <3>1, <4>1 DEF PixelSize
    <3>3. n \in 1 .. PADDING
      BY <1>1, PaddingBounds
    <3> QED BY <1>5, <3>2, <3>3 DEF PADDING
  <2>2. q \in Seq(Nat) /\ Len(q) = h * PixelSize
    <3> DEFINE px == dest.pixels
               body == input.body
    <3>1. /\ w \in Nat /\ h \in Nat /\ body \in Seq(Nat) /\ RowsThere(h, body, w)
          /\ Turned(px, body, w, h) /\ row \in 0 .. w - 1
      BY <1>1, <1>2
    <3> HIDE DEF px, body, w, h
    <3> QED BY <3>1, RowBytesTurned DEF px, body
  <2> DEFINE pad == SubSeq(q, 1, GetPadding(h))
  <2>3. WholeRows(row + 1, out.body \o pad, input.body, w, h)
    <3> HIDE DEF q, w, h
    <3> QED BY <1>1, <1>2, <2>1, <2>2, PadOneMore
  <2>4. /\ out' = [headers |-> out.headers, body |-> out.body \o pad]
        /\ out'.headers = <<Header>> /\ out'.body = out.body \o pad
    BY <1>1, <1>2, <1>5
  <2>5. pc' = "write_row" /\ row' = row + 1 /\ row' <= w
    <3> HIDE DEF rest, n
    <3> QED BY <1>1, <1>5
  <2> HIDE DEF pad
  <2> QED BY <1>1, <1>2, <2>3, <2>4, <2>5
          DEF Contents, ReadSoFar, WrittenSoFar, ResultThere, Header
<1>6. \/ pc' = "out_of_bounds" /\ UNCHANGED <<out, row, status>>
      \/ WriteFails(WRITE_PIXELS_ERROR)
      \/ /\ ~(n > rest)
         /\ out' = [out EXCEPT !.body =
                      @ \o SubSeq(RowBytes(dest.pixels, dest.width, row), 1, n)]
         /\ row' = row + 1
         /\ pc' = "write_row"
  BY DEF WritePadding
<1>7. WriteFails(WRITE_PIXELS_ERROR) =>
        pc' = "close_out" /\ status' # WRITE_OK /\ out' = out
  BY DEF WriteFails, WRITE_PIXELS_ERROR
<1> QED BY <1>3, <1>4, <1>5, <1>6, <1>7

\* After the last row the result is complete.
LEMMA WriteDoneContents == IInv /\ Contents /\ WriteDone => Contents'
BY DEF Contents, ReadSoFar, WrittenSoFar, ResultThere, Header, IInv, Sizes, WriteDone

\* It stays so unless fclose loses bytes.
LEMMA CloseOutContents == IInv /\ Contents /\ CloseOut => Contents'
BY DEF Contents, ReadSoFar, WrittenSoFar, ResultThere, Header, NoFile, CloseOut

\* Freeing the arrays does not touch the files.
LEMMA FreeSourceContents == IInv /\ Contents /\ FreeSource => Contents'
BY DEF Contents, ReadSoFar, WrittenSoFar, ResultThere, Header, IInv, Ownership,
       FreeSource

\* Freeing the result does not change the file.
LEMMA FreeDestContents == IInv /\ Contents /\ FreeDest => Contents'
BY DEF Contents, ReadSoFar, WrittenSoFar, ResultThere, Header, FreeDest

\* Every step keeps what has been read and written.
LEMMA NextContents == IInv /\ Contents /\ [Next]_vars => Contents'
<1>1. Contents /\ UNCHANGED vars => Contents'
  BY DEF vars, Contents, ReadSoFar, WrittenSoFar, ResultThere, Header
<1> QED
  BY <1>1, OpenInContents, CloseNullContents, ReadBmpHeaderContents,
     AllocPixelsContents, SeekBodyContents, ReadRowContents, SkipPaddingContents,
     SetPixelsContents, CloseInContents, RotateContents, OpenOutContents,
     WriteBmpHeaderContents, WriteRowContents, WritePaddingContents,
     WriteDoneContents, CloseOutContents, FreeSourceContents, FreeDestContents
     DEF Next

\* Both invariants hold in every run.
LEMMA ContentsInvariance == Spec => [](IInv /\ Contents)
<1>1. Init => Contents
  BY InitContents
<1> QED BY <1>1, NextContents, Invariance, PTL DEF Spec

\* If main returns zero and fclose lost nothing, the file written is a complete
\* BMP file with a consistent header, and shows the source turned by 90 degrees
\* counterclockwise: for every source file, of any size and word size, even one
\* whose array size wraps around, and whatever library calls fail on the way.
THEOREM ExitZeroMeansRotated == Spec => []ExitZeroRotates
<1>1. IInv /\ Contents => ExitZeroRotates
  <2> SUFFICES ASSUME IInv, Contents, pc = "done", status = WRITE_OK, ~lost
               PROVE  ExitZeroRotates
    BY DEF ExitZeroRotates
  <2> DEFINE w == input.width
             h == input.height
  <2>1. /\ w \in Nat /\ h \in Nat /\ w < FieldMod /\ h < FieldMod
    BY InputTyped DEF IInv
  <2>2. /\ RowsThere(h, input.body, w) /\ out.headers = <<Header>>
        /\ WholeRows(w, out.body, input.body, w, h)
    BY DEF Contents, ResultThere
  <2>3. Len(out.headers) = 1 /\ out.headers[1] = Header
    BY <2>2
  <2>4. /\ SizesAgree(Header) /\ Header.biWidth = h /\ Header.biHeight = w
    BY <2>1, HeaderAgrees DEF Header
  <2>5. w = 0 \/ Complete(input.body, w, h, Stride(w))
    BY <2>2 DEF RowsThere, Complete
  <2>6. /\ Complete(out.body, h, w, Stride(h))
        /\ TurnedLeft(Picture(input.body, w, h), Picture(out.body, h, w))
    BY <2>1, <2>2, WrittenIsTurned
  <2> QED BY <2>3, <2>4, <2>5, <2>6 DEF ExitZeroRotates
<1> QED BY <1>1, ContentsInvariance, PTL

-----------------------------------------------------------------------------
(* What the variables hold, the two files among them.                      *)

FilesTyped ==
  /\ pc \in Pcs
  /\ pos \in Nat
  /\ pixels \in Seq(Pixel)
  /\ status \in READ_OK .. READ_ERROR
  /\ out.headers \in {<<>>, <<Header>>}
  /\ out.body \in Seq(Nat)

\* Nothing has been read or written at the beginning.
LEMMA InitFilesTyped == Init => FilesTyped
BY DEF Init, FilesTyped, Pcs, NoFile

\* Reading keeps the types: what has been read is a sequence of pixels.
LEMMA ReadingTyped ==
  ASSUME IInv, Contents', FilesTyped,
         \/ OpenIn \/ CloseNull \/ ReadBmpHeader \/ AllocPixels \/ SeekBody
         \/ ReadRow \/ SkipPadding \/ SetPixels \/ CloseIn
  PROVE  FilesTyped'
<1> USE DEF FilesTyped, Pcs
<1>1. CASE OpenIn \/ CloseNull \/ AllocPixels \/ SetPixels \/ CloseIn
  BY <1>1 DEF OpenIn, CloseNull, AllocPixels, SetPixels, CloseIn, Header
<1>2. CASE ReadBmpHeader \/ SeekBody
  BY <1>2 DEF ReadBmpHeader, SeekBody, ReadFails, Header
<1>3. CASE ReadRow
  <2>1. UNCHANGED <<out, input>>
    BY <1>3 DEF ReadRow
  <2>2. pc' \in Pcs /\ status' \in READ_OK .. READ_ERROR
    BY <1>3 DEF ReadRow, ReadFails
  <2>3. pos' \in Nat
    <3>1. image.width * PixelSize \in Nat
      BY DEF IInv, Types, PixelSize
    <3>2. pos' = pos \/ pos' = pos + image.width * PixelSize
      BY <1>3 DEF ReadRow, ReadFails
    <3> QED BY <3>1, <3>2
  <2>4. pixels' \in Seq(Pixel)
    <3>1. pixels' = pixels \/ pc' = "read_pad"
      BY <1>3 DEF ReadRow, ReadFails
    <3>2. pc' = "read_pad" => pixels' \in Seq(Pixel)
      BY DEF Contents, ReadSoFar, RowsRead
    <3> QED BY <3>1, <3>2
  <2> QED BY <2>1, <2>2, <2>3, <2>4 DEF Header
<1>4. CASE SkipPadding
  <2>1. GetPadding(image.width) \in Nat
    BY StrideNat DEF IInv, Types
  <2>2. pos' \in Nat
    <3>1. pos' = pos \/ pos' = pos + GetPadding(image.width)
      BY <1>4 DEF SkipPadding
    <3> DEFINE n == GetPadding(image.width)
    <3> HIDE DEF n
    <3> QED BY <2>1, <3>1
  <2>3. pc' \in Pcs /\ status' \in READ_OK .. READ_ERROR
    BY <1>4 DEF SkipPadding, ReadFails
  <2> QED BY <1>4, <2>2, <2>3 DEF SkipPadding, Header
<1> QED BY <1>1, <1>2, <1>3, <1>4

\* So does writing: the file holds bytes.
LEMMA WritingTyped ==
  ASSUME IInv, Contents, Contents', FilesTyped,
         \/ Rotate \/ OpenOut \/ WriteBmpHeader \/ WriteRow \/ WritePadding
         \/ WriteDone \/ CloseOut \/ FreeSource \/ FreeDest
  PROVE  FilesTyped'
<1> USE DEF FilesTyped, Pcs
<1>1. CASE Rotate \/ OpenOut \/ WriteDone \/ FreeSource \/ FreeDest
  BY <1>1 DEF Rotate, OpenOut, WriteDone, FreeSource, FreeDest, Header, WRITE_ERROR
<1>2. CASE WriteBmpHeader \/ WriteRow \/ WritePadding
  <2>1. UNCHANGED <<input, pos, pixels>>
    BY <1>2 DEF WriteBmpHeader, WriteRow, WritePadding
  <2>2. pc' \in Pcs /\ status' \in READ_OK .. READ_ERROR
    <3>1. ASSUME NEW s \in {WRITE_HEADER_ERROR, WRITE_PIXELS_ERROR}, WriteFails(s)
          PROVE  pc' \in Pcs /\ status' \in READ_OK .. READ_ERROR
      BY <3>1 DEF WriteFails, WRITE_HEADER_ERROR, WRITE_PIXELS_ERROR
    <3>2. CASE WriteBmpHeader
      BY <3>1, <3>2 DEF WriteBmpHeader
    <3>3. CASE WriteRow
      BY <3>1, <3>3 DEF WriteRow
    <3>4. CASE WritePadding
      BY <3>1, <3>4 DEF WritePadding
    <3> QED BY <1>2, <3>2, <3>3, <3>4
  <2>3. out' = out \/ pc' \in {"write_row", "write_pad"}
    BY <1>2 DEF WriteBmpHeader, WriteRow, WritePadding, WriteFails
  <2>4. pc' \in {"write_row", "write_pad"} =>
          /\ out'.headers = <<Header'>>
          /\ out'.body \in Seq(Nat)
    BY DEF Contents, WrittenSoFar, WholeRows, WholeRowsBut, RowsWritten
  <2> QED BY <2>1, <2>2, <2>3, <2>4 DEF Header
<1>3. CASE CloseOut
  <2>1. UNCHANGED <<input, pos, pixels, status>> /\ pc' \in Pcs
    BY <1>3 DEF CloseOut
  <2>2. CASE out' = out
    BY <2>1, <2>2 DEF Header
  <2>3. CASE out' = NoFile
    BY <2>1, <2>3 DEF NoFile
  <2>4. ASSUME NEW n \in 0 .. Len(out.body) - 1,
               out' = [out EXCEPT !.body = SubSeq(@, 1, n)]
        PROVE  FilesTyped'
    <3>1. out = [headers |-> out.headers, body |-> out.body]
      BY DEF Contents, WrittenSoFar
    <3>2. /\ out' = [headers |-> out.headers, body |-> SubSeq(out.body, 1, n)]
          /\ out'.headers = out.headers /\ out'.body = SubSeq(out.body, 1, n)
      BY <2>4, <3>1
    <3>3. SubSeq(out.body, 1, n) \in Seq(Nat)
      OBVIOUS
    <3> QED BY <2>1, <3>2, <3>3 DEF Header
  <2> QED BY <1>3, <2>2, <2>3, <2>4 DEF CloseOut
<1> QED BY <1>1, <1>2, <1>3

\* Every step keeps the types.
LEMMA NextFilesTyped ==
  IInv /\ Contents /\ Contents' /\ FilesTyped /\ [Next]_vars => FilesTyped'
<1>1. FilesTyped /\ UNCHANGED vars => FilesTyped'
  BY DEF vars, FilesTyped, Header
<1>2. ASSUME IInv, Contents, Contents', FilesTyped, Next
      PROVE  FilesTyped'
  <2>1. \/ OpenIn \/ CloseNull \/ ReadBmpHeader \/ AllocPixels \/ SeekBody
        \/ ReadRow \/ SkipPadding \/ SetPixels \/ CloseIn
        \/ Rotate \/ OpenOut \/ WriteBmpHeader \/ WriteRow \/ WritePadding
        \/ WriteDone \/ CloseOut \/ FreeSource \/ FreeDest
    BY <1>2 DEF Next
  <2> QED BY ONLY <1>2, <2>1, ReadingTyped, WritingTyped
<1> QED BY <1>1, <1>2

\* All that is invariant in a run of the program.
RunInv == IInv /\ Contents /\ FilesTyped

\* A step, or none, keeps all of it.
LEMMA NextRunInv == RunInv /\ [Next]_vars => RunInv'
BY NextIInv, NextContents, NextFilesTyped DEF RunInv

\* It implies the types.
LEMMA RunTyped == RunInv => TypeOK
BY DEF RunInv, IInv, Types, FilesTyped, TypeOK, Pixel

-----------------------------------------------------------------------------
(* Two bodies byte by byte.                                                *)

\* They agree in the m bytes behind position a, as far as they have these.
Agree(A, B, a, m) ==
  \A k \in a + 1 .. a + m : /\ k <= Len(A) <=> k <= Len(B)
                            /\ k <= Len(A) => A[k] = B[k]

\* How many of c bytes behind position p there are.
Available(A, p, c) ==
  LET rest == Len(A) - p IN IF rest <= 0 THEN 0 ELSE IF rest < c THEN rest ELSE c

\* These bytes.
Got(A, p, c) == SubSeq(A, p + 1, p + Available(A, p, c))

\* A part of a sequence.
LEMMA PartOf ==
  ASSUME NEW A \in Seq(Nat), NEW p \in Nat, NEW n \in Nat, n > 0 => p + n <= Len(A)
  PROVE  /\ Len(SubSeq(A, p + 1, p + n)) = n
         /\ \A k \in 1 .. n : SubSeq(A, p + 1, p + n)[k] = A[p + k]
         /\ SubSeq(A, p + 1, p + n) \in Seq(Nat)
<1>1. CASE n = 0
  BY <1>1
<1>2. CASE n > 0
  BY <1>2
<1> QED BY <1>1, <1>2

\* What two reads have got is equal if and only if the bodies agree there.
LEMMA ReadsAgree ==
  ASSUME NEW A \in Seq(Nat), NEW B \in Seq(Nat), NEW p \in Nat, NEW c \in Nat
  PROVE  /\ Available(A, p, c) \in 0 .. c
         /\ Available(B, p, c) \in 0 .. c
         /\ Got(A, p, c) = Got(B, p, c) <=> Agree(A, B, p, c)
         /\ Agree(A, B, p, c) => Available(A, p, c) = Available(B, p, c)
<1> DEFINE n1 == Available(A, p, c)
           n2 == Available(B, p, c)
<1>1. /\ n1 \in 0 .. c /\ n2 \in 0 .. c /\ n1 \in Nat /\ n2 \in Nat
      /\ n1 > 0 => p + n1 <= Len(A)
      /\ n2 > 0 => p + n2 <= Len(B)
      /\ \A k \in 1 .. c : k <= n1 <=> p + k <= Len(A)
      /\ \A k \in 1 .. c : k <= n2 <=> p + k <= Len(B)
  <2>1. ASSUME NEW S \in Seq(Nat), NEW n, n = Available(S, p, c)
        PROVE  /\ n \in 0 .. c /\ n \in Nat
               /\ n > 0 => p + n <= Len(S)
               /\ \A k \in 1 .. c : k <= n <=> p + k <= Len(S)
    <3> DEFINE L == Len(S)
    <3>1. n = IF L - p <= 0 THEN 0 ELSE IF L - p < c THEN L - p ELSE c
      BY <2>1 DEF Available
    <3>2. L \in Nat
      OBVIOUS
    <3> HIDE DEF L
    <3>3. /\ n \in 0 .. c /\ n \in Nat
          /\ n > 0 => p + n <= L
          /\ \A k \in 1 .. c : k <= n <=> p + k <= L
      BY <3>1, <3>2
    <3> QED BY <3>3 DEF L
  <2> HIDE DEF n1, n2
  <2> QED BY <2>1 DEF n1, n2
<1> HIDE DEF n1, n2
<1> DEFINE s == SubSeq(A, p + 1, p + n1)
           t == SubSeq(B, p + 1, p + n2)
<1>2. /\ Len(s) = n1 /\ \A k \in 1 .. n1 : s[k] = A[p + k]
      /\ s \in Seq(Nat)
  <2>1. n1 > 0 => p + n1 <= Len(A)
    BY <1>1
  <2> QED BY ONLY <1>1, <2>1, PartOf
<1>3. /\ Len(t) = n2 /\ \A k \in 1 .. n2 : t[k] = B[p + k]
      /\ t \in Seq(Nat)
  <2>1. n2 > 0 => p + n2 <= Len(B)
    BY <1>1
  <2> QED BY ONLY <1>1, <2>1, PartOf
<1> HIDE DEF s, t
<1>4. ASSUME s = t
      PROVE  Agree(A, B, p, c)
  <2>1. n1 = n2
    BY <1>2, <1>3, <1>4
  <2>2. ASSUME NEW k \in p + 1 .. p + c
        PROVE  /\ k <= Len(A) <=> k <= Len(B)
               /\ k <= Len(A) => A[k] = B[k]
    <3>1. PICK j \in 1 .. c : k = p + j
      <4>1. k - p \in 1 .. c /\ k = p + (k - p)
        OBVIOUS
      <4> QED BY <4>1
    <3>2. j <= n1 <=> k <= Len(A)
      BY <1>1, <3>1
    <3>3. j <= n2 <=> k <= Len(B)
      BY <1>1, <3>1
    <3>4. j <= n1 => s[j] = A[k] /\ t[j] = B[k]
      BY <1>2, <1>3, <2>1, <3>1
    <3> QED BY <1>4, <2>1, <3>2, <3>3, <3>4
  <2> QED BY <2>2 DEF Agree
<1>5. ASSUME Agree(A, B, p, c)
      PROVE  n1 = n2 /\ s = t
  <2>1. \A k \in 1 .. c : /\ p + k <= Len(A) <=> p + k <= Len(B)
                          /\ p + k <= Len(A) => A[p + k] = B[p + k]
    BY <1>5 DEF Agree
  <2>2. n1 = n2
    <3>1. ASSUME n1 < n2 PROVE FALSE
      <4>1. n2 \in 1 .. c /\ ~(n2 <= n1) /\ n2 <= n2
        BY <1>1, <3>1
      <4>2. p + n2 <= Len(B) /\ ~(p + n2 <= Len(A))
        BY <1>1, <4>1
      <4> QED BY <2>1, <4>1, <4>2
    <3>2. ASSUME n2 < n1 PROVE FALSE
      <4>1. n1 \in 1 .. c /\ ~(n1 <= n2) /\ n1 <= n1
        BY <1>1, <3>2
      <4>2. p + n1 <= Len(A) /\ ~(p + n1 <= Len(B))
        BY <1>1, <4>1
      <4> QED BY <2>1, <4>1, <4>2
    <3> QED BY <1>1, <3>1, <3>2
  <2>3. \A k \in 1 .. n1 : s[k] = t[k]
    <3> SUFFICES ASSUME NEW k \in 1 .. n1 PROVE s[k] = t[k]
      OBVIOUS
    <3>1. k \in 1 .. c /\ k <= n1
      BY <1>1
    <3>2. A[p + k] = B[p + k]
      BY <1>1, <2>1, <3>1
    <3> QED BY <1>2, <1>3, <2>2, <3>2
  <2> QED BY <1>2, <1>3, <2>2, <2>3
<1> QED BY <1>1, <1>4, <1>5 DEF s, t, n1, n2, Got

\* Agreement over two stretches is agreement over both.
LEMMA AgreeOn ==
  ASSUME NEW A, NEW B, NEW a \in Nat, NEW m \in Nat, NEW c \in Nat
  PROVE  Agree(A, B, a, m + c) <=> Agree(A, B, a, m) /\ Agree(A, B, a + m, c)
BY DEF Agree

\* Behind the end of both bodies there is nothing to disagree about.
LEMMA AgreeBehind ==
  ASSUME NEW A \in Seq(Nat), NEW B \in Seq(Nat), NEW a \in Nat, NEW m \in Nat,
         Len(A) <= a, Len(B) <= a
  PROVE  Agree(A, B, a, m)
BY DEF Agree

\* The next byte to be compared is at p: the files are read from there on, or
\* both have ended before it and behind it nothing is read.
ReadFrom(A, B, a, p) ==
  \/ a = p
  \/ \A S \in {A, B} : Len(S) <= a /\ Len(S) <= p

\* The same after m bytes have been read and k compared.
ReadOn(A, B, a, p, m, k) == ReadFrom(A, B, a + m, p + k)

\* One chunk: unless the two chunks differ, all the bytes looked at agree, and
\* if the chunk is not full, so does the rest of the row.
LEMMA ChunkCompared ==
  ASSUME NEW A \in Seq(Nat), NEW B \in Seq(Nat), NEW a \in Nat, NEW p \in Nat,
         ReadFrom(A, B, a, p),
         NEW rest \in Nat \ {0}, NEW buffer \in Nat \ {0},
         NEW c, c = IF rest < buffer THEN rest ELSE buffer,
         NEW n, n = Available(A, a, c)
  PROVE  /\ n \in Nat /\ Available(B, a, c) \in Nat
         /\ Got(A, a, c) = Got(B, a, c) => Available(B, a, c) = n
         /\ Got(A, a, c) = Got(B, a, c) /\ n = buffer =>
              /\ buffer <= rest
              /\ Agree(A, B, p, buffer)
              /\ ReadFrom(A, B, a + buffer, p + buffer)
         /\ Got(A, a, c) = Got(B, a, c) /\ n # buffer =>
              /\ Agree(A, B, p, rest)
              /\ ReadOn(A, B, a, p, n, rest)
         /\ Got(A, a, c) # Got(B, a, c) => ~Agree(A, B, p, rest)
<1>1. c \in Nat /\ c <= rest /\ c <= buffer /\ c > 0 /\ (c = rest \/ c = buffer)
  OBVIOUS
<1> DEFINE n2 == Available(B, a, c)
           equal == Got(A, a, c) = Got(B, a, c)
<1> HIDE DEF n2, equal
<1>2. /\ n \in 0 .. c /\ n2 \in 0 .. c
      /\ equal <=> Agree(A, B, a, c)
      /\ Agree(A, B, a, c) => n = n2
  <2>1. A \in Seq(Nat) /\ B \in Seq(Nat) /\ a \in Nat /\ c \in Nat
    BY <1>1
  <2>2. Available(A, a, c) \in 0 .. c
    BY ONLY <2>1, ReadsAgree
  <2>3. Available(B, a, c) \in 0 .. c
    BY ONLY <2>1, ReadsAgree
  <2>4. Got(A, a, c) = Got(B, a, c) => Agree(A, B, a, c)
    BY ONLY <2>1, ReadsAgree
  <2>5. Agree(A, B, a, c) => Got(A, a, c) = Got(B, a, c)
    BY ONLY <2>1, ReadsAgree
  <2>6. Agree(A, B, a, c) => Available(A, a, c) = Available(B, a, c)
    BY ONLY <2>1, ReadsAgree
  <2> QED BY <2>2, <2>3, <2>4, <2>5, <2>6 DEF equal, n2
<1>3. \A S \in {A, B} : Len(S) \in Nat
  OBVIOUS
<1>4. Agree(A, B, p, rest) => Agree(A, B, p, c)
  <2>1. p + 1 .. p + c \subseteq p + 1 .. p + rest
    BY <1>1
  <2> QED BY <2>1 DEF Agree
<1>5. CASE a = p
  <2>1. ASSUME equal, n = buffer
        PROVE  buffer <= rest /\ Agree(A, B, p, buffer)
    BY <1>1, <1>2, <1>5, <2>1
  <2>2. ASSUME equal, n # buffer
        PROVE  Agree(A, B, p, rest) /\ ReadFrom(A, B, a + n, p + rest)
    <3>1. Agree(A, B, p, c) /\ n = n2
      BY <1>2, <1>5, <2>2
    <3>2. CASE n = c
      BY <1>1, <1>5, <2>2, <3>1, <3>2 DEF ReadFrom
    <3>3. CASE n < c
      <4>1. ASSUME NEW S \in {A, B} PROVE Len(S) <= a + n /\ Len(S) <= p + c
        <5>1. n = Available(S, a, c)
          BY <3>1 DEF n2
        <5> DEFINE L == Len(S)
        <5>2. n = IF L - a <= 0 THEN 0 ELSE IF L - a < c THEN L - a ELSE c
          BY <5>1 DEF Available
        <5>n. L \in Nat /\ n \in Nat
          BY <1>1, <1>2, <1>3
        <5> HIDE DEF L
        <5>3. L <= a + n /\ L <= p + c
          BY <1>1, <1>5, <3>3, <5>2, <5>n
        <5> QED BY <5>3 DEF L
      <4>2. ReadFrom(A, B, a + n, p + rest)
        <5>1. ASSUME NEW S \in {A, B} PROVE Len(S) <= a + n /\ Len(S) <= p + rest
          BY <1>1, <1>3, <4>1
        <5> QED BY <5>1 DEF ReadFrom
      <4>3. Agree(A, B, p + c, rest - c)
        BY <1>1, <4>1, AgreeBehind
      <4>4. Agree(A, B, p, c + (rest - c))
        <5>1. c \in Nat /\ rest - c \in Nat
          BY <1>1
        <5> QED BY ONLY <5>1, <3>1, <4>3, AgreeOn
      <4> QED BY <1>1, <4>2, <4>4
    <3>4. n = c \/ n < c
      BY <1>1, <1>2
    <3> QED BY <3>2, <3>3, <3>4
  <2>3. ReadFrom(A, B, a + buffer, p + buffer)
    BY <1>5 DEF ReadFrom
  <2>4. ~equal => ~Agree(A, B, p, rest)
    BY <1>2, <1>4, <1>5
  <2> QED BY <1>1, <1>2, <2>1, <2>2, <2>3, <2>4 DEF equal, n2, ReadOn
<1>6. CASE \A S \in {A, B} : Len(S) <= a /\ Len(S) <= p
  <2>1. Agree(A, B, a, c) /\ Agree(A, B, p, rest)
    BY <1>1, <1>6, AgreeBehind
  <2>2. n = 0
    BY <1>6 DEF Available
  <2>3. ReadFrom(A, B, a + n, p + rest)
    <3>1. ASSUME NEW S \in {A, B} PROVE Len(S) <= a + n /\ Len(S) <= p + rest
      BY <1>1, <1>3, <1>6, <2>2
    <3> QED BY <3>1 DEF ReadFrom
  <2> QED BY <1>1, <1>2, <2>1, <2>2, <2>3 DEF equal, n2, ReadOn
<1> QED BY <1>5, <1>6 DEF ReadFrom

\* The tester's distance of rows is that of README.md.
LEMMA ReadmeStrideIs ==
  ASSUME NEW w \in Nat
  PROVE  /\ ReadmeStride(w) = w * PixelSize + CmpPadding(w)
         /\ ReadmeStride(w) \in Nat /\ CmpPadding(w) \in Nat /\ w * PixelSize \in Nat
BY DEF ReadmeStride, CmpPadding, PixelSize, PADDING

\* Two files have the same in row r if and only if they agree there.
LEMMA RowPartsAgree ==
  ASSUME NEW f \in FileType, NEW g \in FileType, f.width = g.width, NEW r \in Nat
  PROVE  RowPart(f, r) = RowPart(g, r) <=>
           Agree(f.body, g.body, r * ReadmeStride(f.width), f.width * PixelSize)
<1> DEFINE p == r * ReadmeStride(f.width)
           c == f.width * PixelSize
<1>1. p \in Nat /\ c \in Nat
  <2>1. f.width \in Nat
    BY DEF FileType
  <2>2. ReadmeStride(f.width) \in Nat /\ c \in Nat
    BY <2>1, ReadmeStrideIs
  <2>3. ASSUME NEW t \in Nat PROVE r * t \in Nat
    OBVIOUS
  <2> QED BY <2>2, <2>3
<1>2. ASSUME NEW x \in FileType, x.width = f.width
      PROVE  RowPart(x, r) = Got(x.body, p, c)
  <2> DEFINE S == x.body
             L == Len(S)
             end == IF p + c < L THEN p + c ELSE L
  <2>1. S \in Seq(Nat) /\ L \in Nat
    BY DEF FileType
  <2>2. RowPart(x, r) = SubSeq(S, p + 1, end)
    BY <1>2 DEF RowPart
  <2>3. Available(S, p, c) = IF L - p <= 0 THEN 0 ELSE IF L - p < c THEN L - p ELSE c
    BY DEF Available
  <2> HIDE DEF p, c, S
  <2>4. CASE L - p <= 0
    <3>1. SubSeq(S, p + 1, end) = <<>>
      BY <1>1, <2>1, <2>4
    <3>2. SubSeq(S, p + 1, p) = <<>>
      BY <1>1, <2>1
    <3>3. Available(S, p, c) = 0 /\ p + 0 = p
      BY <1>1, <2>1, <2>3, <2>4
    <3> QED BY <2>2, <3>1, <3>2, <3>3 DEF Got, S
  <2>5. CASE L - p > 0
    <3>1. p + Available(S, p, c) = end
      <4> HIDE DEF L
      <4>1. Available(S, p, c) = IF L - p < c THEN L - p ELSE c
        BY <1>1, <2>1, <2>3, <2>5
      <4> QED BY <1>1, <2>1, <4>1
    <3> QED BY <2>2, <3>1 DEF Got, S
  <2> QED BY <1>1, <2>1, <2>4, <2>5
<1>3. RowPart(f, r) = Got(f.body, p, c) /\ RowPart(g, r) = Got(g.body, p, c)
  BY <1>2
<1> HIDE DEF p, c
<1>4. f.body \in Seq(Nat) /\ g.body \in Seq(Nat)
  BY DEF FileType
<1>5. Got(f.body, p, c) = Got(g.body, p, c) => Agree(f.body, g.body, p, c)
  BY <1>1, <1>4, ReadsAgree
<1>6. Agree(f.body, g.body, p, c) => Got(f.body, p, c) = Got(g.body, p, c)
  BY <1>1, <1>4, ReadsAgree
<1> QED BY <1>3, <1>5, <1>6 DEF p, c

-----------------------------------------------------------------------------
(* The invariant of the comparison.                                        *)

Wide == file[1].width * PixelSize

RowStart(r) == r * ReadmeStride(file[1].width)

\* How much of the row has been compared.
Compared == IF step = "row" THEN Wide - left ELSE Wide

\* The files whose rows are compared have sizes and are of the same size.
Comparable ==
  /\ HeaderIsCorrect(file[1]) /\ HeaderIsCorrect(file[2])
  /\ file[1].width = file[2].width /\ file[1].height = file[2].height

\* The first n rows agree.
RowsAgree(n) == \A r \in 0 .. n - 1 : Agree(file[1].body, file[2].body, RowStart(r), Wide)

\* Both files are read from the same place, and all up to it has been equal.
ComparedSoFar ==
  /\ step \in {"wait", "open", "headers"} => at = <<0, 0>>
  /\ (step \in {"row", "skip"} /\ ~failed /\ RowFits) =>
       /\ Comparable
       /\ line < file[1].height
       /\ left <= Wide
       /\ at[1] = at[2]
       /\ RowsAgree(line)
       /\ Agree(file[1].body, file[2].body, RowStart(line), Compared)
       /\ ReadFrom(file[1].body, file[2].body, at[1], RowStart(line) + Compared)

\* What the verdict is to say, in terms of agreement.
LEMMA VerdictMeans ==
  ASSUME CmpTypeOK
  PROVE  VerdictExact <=>
           ((step = "exit" /\ ~failed /\ RowFits) =>
              (verdict = BMP_CMP_EQUALS <=> Comparable /\ RowsAgree(file[1].height)))
<1>1. file[1] \in FileType /\ file[2] \in FileType
  BY DEF CmpTypeOK
<1>2. file[1].height \in Nat
  BY <1>1 DEF FileType
<1>3. ASSUME Comparable, NEW r \in 0 .. file[1].height - 1
      PROVE  RowPart(file[1], r) = RowPart(file[2], r) <=>
               Agree(file[1].body, file[2].body, RowStart(r), Wide)
  <2>1. r \in Nat /\ file[1].width = file[2].width
    BY <1>2, <1>3 DEF Comparable
  <2> QED BY <1>1, <2>1, RowPartsAgree DEF RowStart, Wide
<1>4. Comparable =>
        ((\A r \in 0 .. file[1].height - 1 : RowPart(file[1], r) = RowPart(file[2], r))
          <=> RowsAgree(file[1].height))
  BY <1>3 DEF RowsAgree
<1> QED BY <1>4 DEF VerdictExact, Comparable

\* The tester starts with nothing compared.
LEMMA InitTestInv == TestInit => ComparedSoFar /\ VerdictExact /\ CmpTypeOK
<1> SUFFICES ASSUME CmpInit PROVE ComparedSoFar /\ VerdictExact /\ CmpTypeOK
  BY DEF TestInit
<1>1. ComparedSoFar /\ VerdictExact
  BY DEF CmpInit, ComparedSoFar, VerdictExact
<1>2. file \in [1 .. 2 -> FileType]
  <2>1. Missing \in FileType
    BY DEF Missing, FileType
  <2> QED BY <2>1 DEF CmpInit
<1>3. at \in [1 .. 2 -> Nat]
  BY DEF CmpInit
<1>4. /\ step \in {"wait", "open", "headers", "row", "skip", "exit", "err"}
      /\ line \in Nat /\ left \in Nat /\ failed \in BOOLEAN
  BY DEF CmpInit
<1>5. verdict \in BMP_CMP_EQUALS .. BMP_CMP_INVALID_FORMAT
  BY DEF CmpInit, BMP_CMP_EQUALS, BMP_CMP_INVALID_FORMAT
<1> QED BY <1>1, <1>2, <1>3, <1>4, <1>5, Zenon DEF CmpTypeOK

USE DEF BMP_CMP_EQUALS, BMP_CMP_DIFF, BMP_CMP_FILE_ERROR, BMP_CMP_DIMENSIONS_DIFFER,
        BMP_CMP_INVALID_FORMAT

\* What the invariant is about does not change.
CmpInv == CmpTypeOK /\ ComparedSoFar /\ VerdictExact

\* A row that begins after the last one ends the comparison.
LEMMA BeginRowKeeps ==
  ASSUME CmpTypeOK, NEW n \in Nat, BeginRow(n), file' = file,
         (~failed' /\ RowFits) =>
           /\ Comparable /\ n <= file[1].height
           /\ RowsAgree(n)
           /\ at'[1] = at'[2]
           /\ ReadFrom(file[1].body, file[2].body, at'[1], RowStart(n)),
         at' \in [1 .. 2 -> Nat], failed' \in BOOLEAN
  PROVE  CmpInv'
<1>1. file[1] \in FileType /\ file[2] \in FileType /\ file' = file
  BY DEF CmpTypeOK
<1>2. file[1].height \in Nat /\ file[1].width \in Nat
  BY <1>1 DEF FileType
<1>3. Wide \in Nat /\ (RowFits => RowSize(file[1].width) = Wide)
      /\ RowSize(file[1].width) \in Nat
  <2> DEFINE m == file[1].width * PixelSize
  <2>1. m \in Nat
    BY <1>2 DEF PixelSize
  <2>2. FieldMod \in Nat \ {0}
    BY WordsAssumption
  <2>3. m % FieldMod \in Nat /\ (m < FieldMod => m % FieldMod = m)
    <3> HIDE DEF m
    <3> QED BY <2>1, <2>2
  <2> QED BY <2>1, <2>3 DEF Wide, RowFits, RowSize
<1>4. CASE n = file[1].height
  <2>1. step' = "exit" /\ verdict' = BMP_CMP_EQUALS /\ UNCHANGED <<line, left>>
    BY <1>4 DEF BeginRow, Exit
  <2>2. CmpTypeOK'
    BY <1>1, <2>1 DEF CmpTypeOK
  <2>3. ComparedSoFar'
    BY <2>1 DEF ComparedSoFar
  <2>4. (~failed' /\ RowFits') => (Comparable /\ RowsAgree(file[1].height))'
    BY <1>1, <1>4 DEF RowFits, Comparable, RowsAgree, RowStart, Wide
  <2>5. VerdictExact'
    <3>1. ((step = "exit" /\ ~failed /\ RowFits) =>
              (verdict = BMP_CMP_EQUALS <=> Comparable /\ RowsAgree(file[1].height)))'
      BY <2>1, <2>4
    <3> QED BY <2>2, <3>1, VerdictMeans, PTL
  <2> QED BY <2>2, <2>3, <2>5 DEF CmpInv
<1>5. CASE n # file[1].height
  <2>1. step' = "row" /\ line' = n /\ left' = RowSize(file[1].width) /\ verdict' = verdict
    BY <1>5 DEF BeginRow
  <2>2. CmpTypeOK'
    BY <1>1, <1>3, <2>1 DEF CmpTypeOK
  <2>3. VerdictExact'
    BY <2>1 DEF VerdictExact
  <2>4. ASSUME ~failed', RowFits
        PROVE  /\ Comparable' /\ line' < file'[1].height /\ left' <= Wide'
               /\ RowsAgree(n)' /\ Compared' = 0
               /\ Wide' = Wide /\ RowStart(n)' = RowStart(n)
    <3>1. n < file[1].height /\ left' = Wide
      BY <1>2, <1>3, <1>5, <2>1, <2>4
    <3> QED BY <1>1, <1>3, <2>1, <2>4, <3>1 DEF Comparable, RowsAgree, RowStart, Wide, Compared
  <2>5. RowStart(n) \in Nat
    <3>1. ReadmeStride(file[1].width) \in Nat
      BY <1>2, ReadmeStrideIs
    <3>2. ASSUME NEW t \in Nat PROVE n * t \in Nat
      OBVIOUS
    <3> QED BY <3>1, <3>2 DEF RowStart
  <2>6. ASSUME ~failed', RowFits
        PROVE  /\ Agree(file[1].body, file[2].body, RowStart(n), 0)
               /\ RowStart(n) + 0 = RowStart(n)
    BY <2>5 DEF Agree
  <2>7. ComparedSoFar'
    <3>1. RowFits' = RowFits
      BY <1>1 DEF RowFits
    <3>2. step' = "row" /\ line' = n /\ file' = file
      BY <1>1, <2>1
    <3>3. ASSUME ~failed', RowFits
          PROVE /\ at'[1] = at'[2]
                /\ Agree(file'[1].body, file'[2].body, RowStart(line)', Compared')
                /\ ReadFrom(file'[1].body, file'[2].body, at'[1], RowStart(line)' + Compared')
      <4>1. RowStart(line)' = RowStart(n)
        BY <3>2, <2>4, <3>3 DEF RowStart
      <4> QED BY <2>4, <2>6, <3>2, <3>3, <4>1
    <3>4. ASSUME ~failed', RowFits PROVE RowsAgree(line)'
      BY <2>4, <3>2, <3>4 DEF RowsAgree, RowStart, Wide
    <3> QED BY <2>4, <3>1, <3>2, <3>3, <3>4 DEF ComparedSoFar
  <2> QED BY <2>2, <2>3, <2>7 DEF CmpInv
<1> QED BY <1>4, <1>5

\* The files are opened.
LEMMA OpenFilesCmpInv == CmpInv /\ OpenFiles => CmpInv'
<1> SUFFICES ASSUME CmpInv, OpenFiles PROVE CmpInv'
  OBVIOUS
<1>1. ComparedSoFar' /\ VerdictExact'
  BY DEF CmpInv, ComparedSoFar, VerdictExact, OpenFiles
<1>2. step' \in {"headers", "err"} /\ UNCHANGED <<file, at, line, left>>
  BY DEF OpenFiles
<1>3. verdict' \in BMP_CMP_EQUALS .. BMP_CMP_INVALID_FORMAT
  <2>1. verdict' = verdict \/ verdict' = 1
    BY DEF OpenFiles
  <2>2. verdict \in BMP_CMP_EQUALS .. BMP_CMP_INVALID_FORMAT
    BY DEF CmpInv, CmpTypeOK
  <2> QED BY <2>1, <2>2
<1>4. failed' \in BOOLEAN
  <2>1. ASSUME failed' = \A i \in 1 .. 2 : file[i].exists
        PROVE  failed' \in BOOLEAN
    BY <2>1, Zenon
  <2> QED BY <2>1 DEF OpenFiles, CmpInv, CmpTypeOK
<1> QED BY <1>1, <1>2, <1>3, <1>4 DEF CmpInv, CmpTypeOK

\* A comparison that ends in the headers says what they are like.
LEMMA CompareHeadersCmpInv == CmpInv /\ CompareHeaders => CmpInv'
<1> SUFFICES ASSUME CmpInv, CompareHeaders PROVE CmpInv'
  OBVIOUS
<1>1. /\ CmpTypeOK /\ step = "headers" /\ at = <<0, 0>> /\ file' = file /\ at' = at
      /\ file[1].height \in Nat /\ file[1].width \in Nat
  BY DEF CmpInv, ComparedSoFar, CompareHeaders, CmpTypeOK, FileType
<1>2. ASSUME NEW s \in BMP_CMP_EQUALS .. BMP_CMP_INVALID_FORMAT, s # BMP_CMP_EQUALS,
             Exit(s), UNCHANGED <<line, left>>, failed' \in BOOLEAN,
             failed' \/ ~Comparable
      PROVE  CmpInv'
  <2>1. CmpTypeOK'
    BY <1>1, <1>2 DEF CmpTypeOK, Exit
  <2>2. ComparedSoFar'
    BY <1>2 DEF ComparedSoFar, Exit
  <2>3. VerdictExact'
    <3>1. ((step = "exit" /\ ~failed /\ RowFits) =>
              (verdict = BMP_CMP_EQUALS <=> Comparable /\ RowsAgree(file[1].height)))'
      BY <1>1, <1>2 DEF Exit, Comparable
    <3> QED BY <2>1, <3>1, VerdictMeans, PTL
  <2> QED BY <2>1, <2>2, <2>3 DEF CmpInv
<1>3. CASE /\ Exit(BMP_CMP_FILE_ERROR)
           /\ failed' = HeaderIsCorrect(file[1])
           /\ UNCHANGED <<line, left>>
  <2>1. failed' \in BOOLEAN /\ (failed' \/ ~Comparable)
    BY <1>3 DEF Comparable, HeaderIsCorrect
  <2> QED BY <1>2, <1>3, <2>1
<1>4. CASE /\ HeaderIsCorrect(file[1])
           /\ Exit(BMP_CMP_INVALID_FORMAT)
           /\ failed' = HeaderIsCorrect(file[2])
           /\ UNCHANGED <<line, left>>
  <2>1. failed' \in BOOLEAN /\ (failed' \/ ~Comparable)
    BY <1>4 DEF Comparable, HeaderIsCorrect
  <2> QED BY <1>2, <1>4, <2>1
<1>5. CASE /\ HeaderIsCorrect(file[1]) /\ HeaderIsCorrect(file[2])
           /\ file[1].width = file[2].width /\ file[1].height = file[2].height
           /\ BeginRow(0)
           /\ UNCHANGED failed
  <2>1. Comparable
    BY <1>5 DEF Comparable
  <2>2. RowStart(0) = 0
    <3>1. ReadmeStride(file[1].width) \in Nat
      BY <1>1, ReadmeStrideIs
    <3>2. ASSUME NEW t \in Nat PROVE 0 * t = 0
      OBVIOUS
    <3> QED BY <3>1, <3>2 DEF RowStart
  <2>3. /\ 0 <= file[1].height /\ RowsAgree(0) /\ at'[1] = at'[2]
        /\ ReadFrom(file[1].body, file[2].body, at'[1], RowStart(0))
    BY <1>1, <2>2 DEF RowsAgree, ReadFrom
  <2>4. at' \in [1 .. 2 -> Nat] /\ failed' \in BOOLEAN /\ BeginRow(0) /\ 0 \in Nat
    BY <1>1, <1>5 DEF CmpTypeOK
  <2> QED BY ONLY <1>1, <2>1, <2>3, <2>4, BeginRowKeeps
<1>6. CASE /\ HeaderIsCorrect(file[1]) /\ HeaderIsCorrect(file[2])
           /\ ~(file[1].width = file[2].width /\ file[1].height = file[2].height)
           /\ Exit(BMP_CMP_DIMENSIONS_DIFFER) /\ UNCHANGED <<line, left>>
           /\ UNCHANGED failed
  <2>1. ~Comparable /\ failed' \in BOOLEAN
    BY <1>1, <1>6 DEF Comparable, CmpTypeOK
  <2> QED BY <1>2, <1>6, <2>1
<1> QED BY <1>3, <1>4, <1>5, <1>6 DEF CompareHeaders

\* Behind the pixels of a row both files are moved on to the next one.
LEMMA SkipPaddingsCmpInv == CmpInv /\ SkipPaddings => CmpInv'
<1> SUFFICES ASSUME CmpInv, SkipPaddings PROVE CmpInv'
  OBVIOUS
<1>1. /\ CmpTypeOK /\ file' = file
      /\ step = "skip" \/ (step = "row" /\ left = 0)
      /\ file[1].height \in Nat /\ file[1].width \in Nat
      /\ file[1].body \in Seq(Nat) /\ file[2].body \in Seq(Nat)
      /\ line \in Nat /\ at[1] \in Nat /\ at[2] \in Nat
  BY DEF CmpInv, SkipPaddings, CmpTypeOK, FileType
<1> DEFINE A == file[1].body
           B == file[2].body
           pad == CmpPadding(file[1].width)
           p == RowStart(line)
<1>2. /\ pad \in Nat /\ Wide \in Nat /\ p \in Nat
      /\ RowStart(line + 1) = p + Wide + pad
  <2>1. /\ ReadmeStride(file[1].width) = Wide + pad
        /\ ReadmeStride(file[1].width) \in Nat /\ pad \in Nat /\ Wide \in Nat
    BY <1>1, ReadmeStrideIs DEF Wide
  <2>2. ASSUME NEW t \in Nat
        PROVE  line * t \in Nat /\ (line + 1) * t = line * t + t
    BY <1>1
  <2> DEFINE t == ReadmeStride(file[1].width)
             q == line * t
  <2>3. q \in Nat /\ (line + 1) * t = q + t
    BY <2>1, <2>2
  <2>4. p = q /\ RowStart(line + 1) = (line + 1) * t
    BY DEF RowStart
  <2> HIDE DEF p, pad, t, q
  <2> QED BY <2>1, <2>3, <2>4 DEF t
<1>3. CASE /\ at' = [i \in 1 .. 2 |-> at[i] + pad]
           /\ BeginRow(line + 1)
           /\ UNCHANGED failed
  <2>1. at'[1] = at[1] + pad /\ at'[2] = at[2] + pad
    BY <1>3
  <2>2. at' \in [1 .. 2 -> Nat] /\ failed' \in BOOLEAN
    <3>1. \A i \in 1 .. 2 : at[i] + pad \in Nat
      <4>1. pad \in Nat /\ at[1] \in Nat /\ at[2] \in Nat
        BY <1>1, <1>2
      <4> HIDE DEF pad
      <4> QED BY ONLY <4>1
    <3>2. at' = [i \in 1 .. 2 |-> at[i] + pad]
      BY <1>3
    <3>3. at' \in [1 .. 2 -> Nat]
      <4> HIDE DEF pad
      <4> QED BY ONLY <3>1, <3>2
    <3>4. failed' = failed /\ failed \in BOOLEAN
      BY <1>1, <1>3 DEF CmpTypeOK
    <3> QED BY <3>3, <3>4
  <2>3. ASSUME ~failed', RowFits
        PROVE  /\ Comparable /\ line + 1 <= file[1].height
               /\ RowsAgree(line + 1)
               /\ at'[1] = at'[2]
               /\ ReadFrom(A, B, at'[1], RowStart(line + 1))
    <3>1. /\ Comparable /\ line < file[1].height /\ at[1] = at[2]
          /\ RowsAgree(line)
          /\ Agree(A, B, p, Compared)
          /\ ReadFrom(A, B, at[1], p + Compared)
      BY <1>1, <1>3, <2>3 DEF CmpInv, ComparedSoFar
    <3>2. Compared = Wide
      <4> HIDE DEF A, B, pad, p
      <4>1. Wide \in Nat /\ (step # "row" \/ left = 0)
        BY <1>1, <1>2
      <4> QED BY ONLY <4>1 DEF Compared
    <3>3. RowsAgree(line + 1)
      <4>1. \A r \in 0 .. (line + 1) - 1 : r \in 0 .. line - 1 \/ r = line
        BY <1>1
      <4> QED BY <3>1, <3>2, <4>1 DEF RowsAgree
    <3>4. ReadFrom(A, B, at'[1], RowStart(line + 1))
      <4> HIDE DEF A, B, pad, p
      <4>1. \A S \in {A, B} : Len(S) \in Nat
        BY <1>1 DEF A, B
      <4>2. at[1] = p + Wide \/ \A S \in {A, B} : Len(S) <= at[1] /\ Len(S) <= p + Wide
        BY <3>1, <3>2 DEF ReadFrom
      <4>3. ASSUME NEW S \in {A, B}, Len(S) <= at[1] /\ Len(S) <= p + Wide
            PROVE  Len(S) <= at'[1] /\ Len(S) <= RowStart(line + 1)
        <5> DEFINE L == Len(S)
                   next == RowStart(line + 1)
                   m == at'[1]
        <5>1. L \in Nat /\ L <= at[1] /\ L <= p + Wide
          BY <4>1, <4>3
        <5>2. m = at[1] + pad /\ next = p + Wide + pad
          BY <1>2, <2>1
        <5> HIDE DEF L, next, m
        <5>3. L <= m /\ L <= next
          <6>1. /\ at[1] \in Nat /\ pad \in Nat /\ p \in Nat /\ Wide \in Nat
            BY <1>1, <1>2
          <6> DEFINE k == at[1]
          <6> HIDE DEF k
          <6>2. /\ k \in Nat /\ pad \in Nat /\ p \in Nat /\ Wide \in Nat
                /\ L \in Nat /\ L <= k /\ L <= p + Wide
                /\ m = k + pad /\ next = p + Wide + pad
            BY <5>1, <5>2, <6>1 DEF k
          <6> QED BY ONLY <6>2
        <5> QED BY <5>3 DEF L, next, m
      <4>4. at[1] = p + Wide => at'[1] = RowStart(line + 1)
        BY <1>2, <2>1
      <4> QED BY <4>2, <4>3, <4>4 DEF ReadFrom
    <3> QED BY <1>1, <2>1, <3>1, <3>3, <3>4
  <2>4. line + 1 \in Nat
    BY <1>1
  <2>5. CmpTypeOK /\ file' = file /\ BeginRow(line + 1)
    BY <1>1, <1>3
  <2> QED BY ONLY <2>2, <2>3, <2>4, <2>5, BeginRowKeeps
<1>4. CASE Exit(BMP_CMP_FILE_ERROR) /\ failed' = TRUE /\ UNCHANGED <<at, line, left>>
  BY <1>1, <1>4 DEF Exit, CmpInv, CmpTypeOK, ComparedSoFar, VerdictExact
<1> QED BY <1>3, <1>4 DEF SkipPaddings
\* The bytes one fread asks for.
Chunk == IF left < CMP_BUFFER_SIZE THEN left ELSE CMP_BUFFER_SIZE

\* What it gets if it does not fail.
LEMMA ReadableIs ==
  ASSUME CmpTypeOK, NEW i \in 1 .. 2
  PROVE  /\ Readable(i) = Available(file[i].body, at[i], Chunk)
         /\ Readable(i) \in 0 .. Chunk
         /\ Read(i, Readable(i)) = Got(file[i].body, at[i], Chunk)
<1>1. file[i] \in FileType /\ at[i] \in Nat /\ left \in Nat
  BY DEF CmpTypeOK
<1>2. file[i].body \in Seq(Nat) /\ Chunk \in Nat
  BY <1>1, BufferAssumption DEF FileType, Chunk
<1>3. Readable(i) = Available(file[i].body, at[i], Chunk)
  BY DEF Readable, Available, Chunk
<1>4. Available(file[i].body, at[i], Chunk) \in 0 .. Chunk
  BY <1>1, <1>2, ReadsAgree
<1>5. Read(i, Readable(i)) = Got(file[i].body, at[i], Chunk)
  BY <1>3 DEF Read, Got
<1> QED BY <1>3, <1>4, <1>5

\* One chunk is compared.
LEMMA CompareChunkCmpInv == CmpInv /\ CompareChunk => CmpInv'
<1> SUFFICES ASSUME CmpInv, CompareChunk PROVE CmpInv'
  OBVIOUS
<1>1. PICK read1 \in 0 .. Readable(1), read2 \in 0 .. Readable(2) :
        /\ at' = <<at[1] + read1, at[2] + read2>>
        /\ failed' = (failed \/ read1 < Readable(1) \/ read2 < Readable(2))
        /\ \/ /\ Read(1, read1) = Read(2, read2)
              /\ ChunkResult(read1)
              /\ UNCHANGED verdict
           \/ /\ Read(1, read1) # Read(2, read2)
              /\ Exit(BMP_CMP_DIFF)
              /\ UNCHANGED left
  BY DEF CompareChunk
<1>2. /\ CmpTypeOK /\ step = "row" /\ left > 0 /\ left \in Nat /\ UNCHANGED <<file, line>>
      /\ file[1].body \in Seq(Nat) /\ file[2].body \in Seq(Nat)
      /\ file[1].height \in Nat /\ file[1].width \in Nat
      /\ line \in Nat /\ at[1] \in Nat /\ at[2] \in Nat
      /\ CMP_BUFFER_SIZE \in Nat \ {0}
  <2>1. step = "row" /\ left > 0 /\ UNCHANGED <<file, line>>
    BY DEF CompareChunk
  <2>2. CmpTypeOK
    BY DEF CmpInv
  <2>3. /\ file[1] \in FileType /\ file[2] \in FileType
        /\ left \in Nat /\ line \in Nat /\ at[1] \in Nat /\ at[2] \in Nat
    BY ONLY <2>2 DEF CmpTypeOK
  <2>4. /\ file[1].body \in Seq(Nat) /\ file[2].body \in Seq(Nat)
        /\ file[1].height \in Nat /\ file[1].width \in Nat
    BY ONLY <2>3 DEF FileType
  <2> QED BY <2>1, <2>2, <2>3, <2>4, BufferAssumption
<1> DEFINE A == file[1].body
           B == file[2].body
           c == Chunk
<1>3. /\ c \in Nat /\ c <= left
      /\ Readable(1) \in 0 .. c /\ Readable(2) \in 0 .. c
      /\ Readable(1) = Available(A, at[1], c) /\ Readable(2) = Available(B, at[2], c)
      /\ Read(1, Readable(1)) = Got(A, at[1], c)
      /\ Read(2, Readable(2)) = Got(B, at[2], c)
  <2>1. CmpTypeOK /\ 1 \in 1 .. 2 /\ 2 \in 1 .. 2
    BY <1>2
  <2>2. c \in Nat /\ c <= left
    BY <1>2 DEF Chunk
  <2>3. Readable(1) \in 0 .. c /\ Readable(2) \in 0 .. c
    BY ONLY <2>1, ReadableIs
  <2>4. Readable(1) = Available(A, at[1], c) /\ Readable(2) = Available(B, at[2], c)
    BY ONLY <2>1, ReadableIs
  <2>5. /\ Read(1, Readable(1)) = Got(A, at[1], c)
        /\ Read(2, Readable(2)) = Got(B, at[2], c)
    BY ONLY <2>1, ReadableIs
  <2> QED BY <2>2, <2>3, <2>4, <2>5
<1> HIDE DEF A, B, c
<1>4. CmpTypeOK'
  <2>1. read1 \in Nat /\ read2 \in Nat /\ read1 <= left
    BY <1>2, <1>3
  <2>2. at' \in [1 .. 2 -> Nat]
    <3>1. at[1] + read1 \in Nat /\ at[2] + read2 \in Nat
      <4>1. at[1] \in Nat /\ at[2] \in Nat
        BY <1>2
      <4> QED BY ONLY <2>1, <4>1
    <3> QED BY <1>1, <3>1
  <2>3. left' \in Nat
    BY <1>1, <1>2, <2>1 DEF ChunkResult
  <2>4. step' \in {"row", "skip", "exit"}
    BY <1>1, <1>2 DEF ChunkResult, Exit
  <2>5. verdict' = verdict \/ verdict' = BMP_CMP_DIFF
    BY <1>1 DEF Exit
  <2>6. failed' \in BOOLEAN
    BY <1>1, <1>2 DEF CmpTypeOK
  <2>7. file' \in [1 .. 2 -> FileType] /\ line' \in Nat
    BY <1>2 DEF CmpTypeOK
  <2>8. verdict' \in BMP_CMP_EQUALS .. BMP_CMP_INVALID_FORMAT
    BY <1>2, <2>5 DEF CmpTypeOK, BMP_CMP_EQUALS, BMP_CMP_DIFF, BMP_CMP_INVALID_FORMAT
  <2>9. step' \in {"wait", "open", "headers", "row", "skip", "exit", "err"}
    BY ONLY <2>4
  <2> QED BY ONLY <2>2, <2>3, <2>6, <2>7, <2>8, <2>9 DEF CmpTypeOK
<1>5. CASE failed' \/ ~RowFits
  <2>1. failed' \/ ~RowFits'
    BY <1>2, <1>5 DEF RowFits
  <2>2. step' \in {"row", "skip", "exit"}
    BY <1>1, <1>2 DEF ChunkResult, Exit
  <2> QED BY <1>4, <2>1, <2>2 DEF CmpInv, ComparedSoFar, VerdictExact
<1>6. CASE ~failed' /\ RowFits
  <2>1. ~failed /\ read1 = Readable(1) /\ read2 = Readable(2)
    <3>1. ~failed /\ ~(read1 < Readable(1)) /\ ~(read2 < Readable(2))
      BY <1>1, <1>6
    <3>2. Readable(1) \in Nat /\ Readable(2) \in Nat
      BY <1>3
    <3> QED BY <3>1, <3>2
  <2> DEFINE p == RowStart(line) + Compared
             n == Readable(1)
  <2>2. /\ Comparable /\ line < file[1].height /\ left <= Wide
        /\ at[1] = at[2] /\ RowsAgree(line)
        /\ Agree(A, B, RowStart(line), Compared)
        /\ ReadFrom(A, B, at[1], p)
    BY <1>2, <1>6, <2>1 DEF CmpInv, ComparedSoFar, A, B
  <2>3. /\ RowStart(line) \in Nat /\ Wide \in Nat /\ Compared = Wide - left
        /\ Compared \in Nat /\ p \in Nat
    <3>1. ReadmeStride(file[1].width) \in Nat /\ Wide \in Nat
      BY <1>2, ReadmeStrideIs DEF Wide
    <3>2. ASSUME NEW t \in Nat PROVE line * t \in Nat
      BY <1>2
    <3>3. RowStart(line) \in Nat
      BY <3>1, <3>2 DEF RowStart
    <3>4. Compared = Wide - left
      BY <1>2 DEF Compared
    <3>5. Compared \in Nat
      BY <1>2, <2>2, <3>1, <3>4
    <3>6. p \in Nat
      <4>1. ASSUME NEW s \in Nat, NEW d \in Nat PROVE s + d \in Nat
        OBVIOUS
      <4> QED BY <3>3, <3>5, <4>1
    <3> QED BY <3>1, <3>3, <3>4, <3>5, <3>6
  <2> HIDE DEF p
  <2>4. /\ n \in Nat /\ Readable(2) \in Nat
        /\ Got(A, at[1], c) = Got(B, at[1], c) => Readable(2) = n
        /\ Got(A, at[1], c) = Got(B, at[1], c) /\ n = CMP_BUFFER_SIZE =>
             /\ CMP_BUFFER_SIZE <= left
             /\ Agree(A, B, p, CMP_BUFFER_SIZE)
             /\ ReadFrom(A, B, at[1] + CMP_BUFFER_SIZE, p + CMP_BUFFER_SIZE)
        /\ Got(A, at[1], c) = Got(B, at[1], c) /\ n # CMP_BUFFER_SIZE =>
             /\ Agree(A, B, p, left)
             /\ ReadFrom(A, B, at[1] + n, p + left)
        /\ Got(A, at[1], c) # Got(B, at[1], c) => ~Agree(A, B, p, left)
    <3>1. /\ A \in Seq(Nat) /\ B \in Seq(Nat) /\ at[1] \in Nat /\ p \in Nat
          /\ ReadFrom(A, B, at[1], p)
          /\ left \in Nat \ {0} /\ CMP_BUFFER_SIZE \in Nat \ {0}
          /\ c = IF left < CMP_BUFFER_SIZE THEN left ELSE CMP_BUFFER_SIZE
          /\ n = Available(A, at[1], c) /\ Readable(2) = Available(B, at[1], c)
      BY <1>2, <1>3, <2>2, <2>3 DEF A, B, c, Chunk
    <3> DEFINE equal == Got(A, at[1], c) = Got(B, at[1], c)
    <3> HIDE DEF n
    <3>2. n \in Nat /\ Readable(2) \in Nat
      BY <1>3 DEF n
    <3>3. equal => Readable(2) = n
      BY ONLY <3>1, ChunkCompared
    <3>4. equal /\ n = CMP_BUFFER_SIZE => CMP_BUFFER_SIZE <= left
      BY ONLY <3>1, ChunkCompared
    <3>5. equal /\ n = CMP_BUFFER_SIZE => Agree(A, B, p, CMP_BUFFER_SIZE)
      BY ONLY <3>1, ChunkCompared
    <3>6. equal /\ n = CMP_BUFFER_SIZE =>
            ReadFrom(A, B, at[1] + CMP_BUFFER_SIZE, p + CMP_BUFFER_SIZE)
      BY ONLY <3>1, ChunkCompared
    <3>7. equal /\ n # CMP_BUFFER_SIZE => Agree(A, B, p, left)
      BY ONLY <3>1, ChunkCompared
    <3>8. equal /\ n # CMP_BUFFER_SIZE => ReadOn(A, B, at[1], p, n, left)
      BY ONLY <3>1, ChunkCompared
    <3>9. ~equal => ~Agree(A, B, p, left)
      BY ONLY <3>1, ChunkCompared
    <3> HIDE DEF equal
    <3> QED BY <3>2, <3>3, <3>4, <3>5, <3>6, <3>7, <3>8, <3>9 DEF equal, ReadOn
  <2>5. /\ Read(1, read1) = Got(A, at[1], c) /\ Read(2, read2) = Got(B, at[1], c)
    BY <1>3, <2>1, <2>2
  <2>6. CASE /\ Got(A, at[1], c) = Got(B, at[1], c)
             /\ ChunkResult(n) /\ UNCHANGED verdict
    <3>1. step' \in {"row", "skip"} /\ at' = <<at[1] + n, at[1] + n>>
      BY <1>1, <1>2, <2>1, <2>2, <2>4, <2>6 DEF ChunkResult
    <3>2. VerdictExact'
      BY <3>1 DEF VerdictExact
    <3>3. /\ Comparable' /\ RowsAgree(line)' /\ line' < file'[1].height
          /\ Wide' = Wide /\ RowStart(line)' = RowStart(line) /\ left' <= Wide
      <4>1. left' <= left
        BY <1>2, <2>6 DEF ChunkResult
      <4>2. left' <= Wide
        BY <1>2, <1>4, <2>2, <2>3, <4>1 DEF CmpTypeOK
      <4> QED BY <1>2, <2>2, <4>2 DEF Comparable, RowsAgree, RowStart, Wide
    <3>4. /\ Agree(A, B, RowStart(line), Compared')
          /\ ReadFrom(A, B, at'[1], RowStart(line) + Compared')
      <4> DEFINE s == RowStart(line)
                 d == Compared
                 a == at[1]
      <4>1. /\ s \in Nat /\ d \in Nat /\ Wide \in Nat /\ d = Wide - left /\ p = s + d
            /\ Agree(A, B, s, d) /\ a \in Nat /\ left \in Nat
            /\ at'[1] = a + n
        BY <1>2, <2>2, <2>3, <3>1 DEF p
      <4>2. ASSUME NEW m \in Nat, Agree(A, B, p, m), ReadFrom(A, B, a + n, p + m),
                   Compared' = d + m
            PROVE  Agree(A, B, s, Compared') /\ ReadFrom(A, B, at'[1], s + Compared')
        <5> HIDE DEF s, d, a
        <5>1. Agree(A, B, s, d + m)
          <6>1. /\ s \in Nat /\ d \in Nat /\ m \in Nat
                /\ Agree(A, B, s, d) /\ Agree(A, B, s + d, m)
            BY <4>1, <4>2
          <6> QED BY ONLY <6>1, AgreeOn
        <5>2. p + m = s + (d + m)
          BY <4>1
        <5> QED BY <4>1, <4>2, <5>1, <5>2
      <4>3. CASE n = CMP_BUFFER_SIZE
        <5>1. left' = left - CMP_BUFFER_SIZE /\ step' = "row"
          BY <1>2, <2>6, <4>3 DEF ChunkResult
        <5>2. Compared' = Wide - left'
          BY <3>3, <5>1 DEF Compared
        <5>3. Compared' = d + CMP_BUFFER_SIZE
          <6> HIDE DEF d, a, s
          <6> QED BY <1>2, <4>1, <5>1, <5>2
        <5> HIDE DEF d, a, s
        <5>4. /\ CMP_BUFFER_SIZE \in Nat /\ Agree(A, B, p, CMP_BUFFER_SIZE)
              /\ ReadFrom(A, B, a + n, p + CMP_BUFFER_SIZE)
          BY <1>2, <2>4, <2>6, <4>3 DEF a
        <5> QED BY <4>2, <5>3, <5>4 DEF s
      <4>4. CASE n # CMP_BUFFER_SIZE
        <5>1. step' = "skip"
          BY <2>6, <4>4 DEF ChunkResult
        <5>2. Compared' = Wide
          BY <3>3, <5>1 DEF Compared
        <5>3. Compared' = d + left
          <6> HIDE DEF d, a, s
          <6> QED BY <1>2, <4>1, <5>2
        <5> HIDE DEF d, a, s
        <5>4. left \in Nat /\ Agree(A, B, p, left) /\ ReadFrom(A, B, a + n, p + left)
          BY <1>2, <2>4, <2>6, <4>4 DEF a
        <5> QED BY <4>2, <5>3, <5>4 DEF s
      <4> QED BY <4>3, <4>4
    <3>5. ComparedSoFar'
      <4>1. at'[1] = at'[2]
        BY <3>1
      <4>2. RowStart(line)' = RowStart(line') /\ line' = line /\ file' = file
        BY <1>2, <3>3 DEF RowStart
      <4>3. /\ Agree(file'[1].body, file'[2].body, RowStart(line)', Compared')
            /\ ReadFrom(file'[1].body, file'[2].body, at'[1], RowStart(line)' + Compared')
        BY <3>3, <3>4, <4>2 DEF A, B
      <4> QED BY <3>1, <3>3, <4>1, <4>3 DEF ComparedSoFar
    <3> QED BY <1>4, <3>2, <3>5 DEF CmpInv
  <2>7. CASE /\ Got(A, at[1], c) # Got(B, at[1], c)
             /\ Exit(BMP_CMP_DIFF) /\ UNCHANGED left
    <3>1. ~Agree(A, B, RowStart(line), Wide)
      <4> DEFINE s == RowStart(line)
                 d == Compared
      <4>1. /\ s \in Nat /\ d \in Nat /\ left \in Nat /\ Wide = d + left
            /\ ~Agree(A, B, s + d, left)
        <5>1. ~Agree(A, B, p, left)
          BY <2>4, <2>7
        <5>2. Wide = d + left
          <6>1. Wide \in Nat /\ left \in Nat /\ d = Wide - left
            BY <1>2, <2>3
          <6> HIDE DEF d
          <6> QED BY ONLY <6>1
        <5> QED BY <1>2, <2>3, <5>1, <5>2 DEF p
      <4> HIDE DEF s, d
      <4>2. ~Agree(A, B, s, d + left)
        BY ONLY <4>1, AgreeOn
      <4> QED BY <4>1, <4>2 DEF s
    <3>2. ~RowsAgree(file[1].height)
      <4>1. line \in 0 .. file[1].height - 1
        <5>1. line \in Nat /\ line < file[1].height /\ file[1].height \in Nat
          BY <1>2, <2>2
        <5> DEFINE h == file[1].height
        <5> HIDE DEF h
        <5>2. line \in 0 .. h - 1
          BY <5>1 DEF h
        <5> QED BY <5>2 DEF h
      <4> QED BY <3>1, <4>1 DEF RowsAgree, A, B
    <3>3. VerdictExact'
      <4>1. ((step = "exit" /\ ~failed /\ RowFits) =>
                (verdict = BMP_CMP_EQUALS <=> Comparable /\ RowsAgree(file[1].height)))'
        BY <1>2, <2>7, <3>2 DEF Exit, Comparable, RowsAgree, RowStart, Wide
      <4> QED BY <1>4, <4>1, VerdictMeans, PTL
    <3>4. ComparedSoFar'
      BY <2>7 DEF Exit, ComparedSoFar
    <3> QED BY <1>4, <3>3, <3>4 DEF CmpInv
  <2> QED BY <1>1, <2>1, <2>5, <2>6, <2>7
<1> QED BY <1>5, <1>6
\* Every step of the tester keeps the invariant.
LEMMA CmpNextCmpInv == CmpInv /\ CmpNext => CmpInv'
BY OpenFilesCmpInv, CompareHeadersCmpInv, CompareChunkCmpInv, SkipPaddingsCmpInv
   DEF CmpNext

-----------------------------------------------------------------------------
(* The test.                                                               *)

\* The file the program has written is one the tester can be given.
LEMMA WrittenTyped ==
  ASSUME RunInv
  PROVE  Written \in FileType
<1>1. out.headers \in {<<>>, <<Header>>} /\ out.body \in Seq(Nat)
  BY DEF RunInv, FilesTyped
<1>2. CASE out.headers = <<>>
  <2>1. Written = [exists |-> TRUE, header |-> FALSE, correct |-> FALSE,
                   width |-> 0, height |-> 0, body |-> <<>>]
    BY <1>2 DEF Written, Missing
  <2> QED BY <2>1 DEF FileType
<1>3. CASE out.headers = <<Header>>
  <2>1. Header.biWidth \in Nat /\ Header.biHeight \in Nat
    <3>1. /\ input.width \in Nat /\ input.width < FieldMod
          /\ input.height \in Nat /\ input.height < FieldMod
      BY InputTyped DEF RunInv, IInv
    <3> QED BY <3>1, HeaderAgrees DEF Header
  <2>2. out.headers # <<>> /\ out.headers[1] = Header
    BY <1>3
  <2> QED BY <1>1, <2>1, <2>2 DEF Written, FileType
<1> QED BY <1>1, <1>2, <1>3

\* A step of the test is a step of the program, or none.
LEMMA TestStepRuns == [TestNext]_testVars => [Next]_vars
BY DEF TestNext, testVars, RunMain, StartTester, RunTester, vars

\* Every step of the test keeps both invariants.
LEMMA NextTestInv == RunInv /\ CmpInv /\ [TestNext]_testVars => RunInv' /\ CmpInv'
<1> SUFFICES ASSUME RunInv, CmpInv, [TestNext]_testVars PROVE RunInv' /\ CmpInv'
  OBVIOUS
<1>1. RunInv'
  BY TestStepRuns, NextRunInv
<1>2. CASE UNCHANGED cmpVars
  <2>1. UNCHANGED <<step, file, at, line, left, verdict, failed>>
    BY <1>2 DEF cmpVars
  <2>2. CmpTypeOK'
    BY <2>1 DEF CmpInv, CmpTypeOK
  <2>3. ComparedSoFar'
    BY <2>1 DEF CmpInv, ComparedSoFar, RowFits, Comparable, RowsAgree, RowStart, Wide, Compared
  <2>4. VerdictExact'
    BY <2>1 DEF CmpInv, VerdictExact, RowFits
  <2> QED BY <1>1, <2>2, <2>3, <2>4 DEF CmpInv
<1>3. CASE StartTester
  <2>1. PICK e \in Expected(input) : file' = <<Written, e>>
    BY <1>3 DEF StartTester
  <2>2. e \in FileType /\ Written \in FileType
    BY <2>1, ExpectedAssumption, WrittenTyped DEF RunInv, IInv, Types
  <2>3. file' \in [1 .. 2 -> FileType]
    BY <2>1, <2>2
  <2>4. /\ step = "wait" /\ step' = "open"
        /\ UNCHANGED <<at, line, left, verdict, failed>>
    BY <1>3 DEF StartTester
  <2> QED BY <1>1, <2>3, <2>4 DEF CmpInv, CmpTypeOK, ComparedSoFar, VerdictExact
<1>4. CASE RunTester
  BY <1>1, <1>4, CmpNextCmpInv DEF RunTester
<1>5. UNCHANGED cmpVars \/ StartTester \/ RunTester
  BY DEF TestNext, testVars, RunMain, cmpVars
<1> QED BY <1>1, <1>2, <1>3, <1>4, <1>5

\* Both hold in every test.
LEMMA TestInvariance == TestSpec => [](RunInv /\ CmpInv)
<1>1. TestInit => RunInv /\ CmpInv
  BY InitIInv, InitContents, InitFilesTyped, InitTestInv DEF TestInit, RunInv, CmpInv
<1> QED BY <1>1, NextTestInv, PTL DEF TestSpec

\* All variables of the program and of the tester keep their types, the file
\* that is handed from one to the other among them.
THEOREM TypesCorrect == TestSpec => []TestTypeOK
<1>1. RunInv /\ CmpInv => TestTypeOK
  BY RunTyped DEF CmpInv, TestTypeOK
<1> QED BY <1>1, TestInvariance, PTL

\* The tester calls two files equal exactly if they are BMP files of the same
\* dimensions with the same bytes in every row: for all files, long or short,
\* and every size of the buffer, however the rows are cut into chunks.
THEOREM VerdictIsExact == TestSpec => []VerdictExact
<1>1. CmpInv => VerdictExact
  BY DEF CmpInv
<1> QED BY <1>1, TestInvariance, PTL

-----------------------------------------------------------------------------
(* What a test says of the program.                                        *)

\* The program takes no step after its end.
LEMMA DoneIsTheEnd == pc = "done" => ~Next
<1> SUFFICES ASSUME pc = "done", Next PROVE FALSE
  OBVIOUS
<1>1. ~OpenIn /\ ~CloseNull /\ ~ReadBmpHeader /\ ~AllocPixels /\ ~SeekBody
  BY DEF OpenIn, CloseNull, ReadBmpHeader, AllocPixels, SeekBody
<1>2. ~ReadRow /\ ~SkipPadding /\ ~SetPixels /\ ~CloseIn /\ ~Rotate
  BY DEF ReadRow, SkipPadding, SetPixels, CloseIn, Rotate
<1>3. ~OpenOut /\ ~WriteBmpHeader /\ ~WriteRow /\ ~WritePadding /\ ~WriteDone
  BY DEF OpenOut, WriteBmpHeader, WriteRow, WritePadding, WriteDone
<1>4. ~CloseOut /\ ~FreeSource /\ ~FreeDest
  BY DEF CloseOut, FreeSource, FreeDest
<1> QED BY <1>1, <1>2, <1>3, <1>4 DEF Next

\* Once the tester runs, the program has ended well and its file is compared.
Tested == step # "wait" => pc = "done" /\ status = WRITE_OK /\ file[1] = Written

LEMMA TestedKept == Tested /\ [TestNext]_testVars => Tested'
<1> SUFFICES ASSUME Tested, [TestNext]_testVars PROVE Tested'
  OBVIOUS
<1>1. CASE UNCHANGED testVars
  BY <1>1 DEF Tested, testVars, vars, cmpVars, Written
<1>2. CASE RunMain
  <2>1. Next /\ UNCHANGED <<step, file>>
    BY <1>2 DEF RunMain, cmpVars
  <2>2. step = "wait"
    BY <2>1, DoneIsTheEnd DEF Tested
  <2> QED BY <2>1, <2>2 DEF Tested
<1>3. CASE StartTester
  <2>1. PICK e \in Expected(input) : file' = <<Written, e>>
    BY <1>3 DEF StartTester
  <2>2. /\ pc = "done" /\ status = WRITE_OK
        /\ UNCHANGED vars
    BY <1>3 DEF StartTester
  <2>3. Written' = Written
    BY <2>2 DEF Written, vars
  <2>4. file'[1] = Written
    BY <2>1
  <2>5. pc' = "done" /\ status' = WRITE_OK
    BY <2>2 DEF vars, WRITE_OK
  <2> QED BY <2>3, <2>4, <2>5 DEF Tested
<1>4. CASE RunTester
  <2>1. CmpNext /\ UNCHANGED vars
    BY <1>4 DEF RunTester
  <2>2. file' = file /\ step # "wait"
    <3>1. CASE OpenFiles
      BY <3>1 DEF OpenFiles
    <3>2. CASE CompareHeaders
      BY <3>2 DEF CompareHeaders
    <3>3. CASE CompareChunk
      BY <3>3 DEF CompareChunk
    <3>4. CASE SkipPaddings
      BY <3>4 DEF SkipPaddings
    <3> QED BY <2>1, <3>1, <3>2, <3>3, <3>4 DEF CmpNext
  <2>3. Written' = Written /\ pc' = pc /\ status' = status
    BY <2>1 DEF Written, vars
  <2> QED BY <2>2, <2>3 DEF Tested
<1> QED BY <1>1, <1>2, <1>3, <1>4 DEF TestNext

\* Two files with rows of h pixels, r rows of which agree, show the same; rows
\* of the second begin where README.md says, those of the first there, too.
LEMMA RowsAgreeAsPixels ==
  ASSUME NEW A \in Seq(Nat), NEW B \in Seq(Nat), NEW w \in Nat, NEW h \in Nat,
         Len(A) = w * Stride(h), w <= 1 \/ Stride(h) = ReadmeStride(h)
  PROVE  (\A r \in 0 .. w - 1 : Agree(A, B, r * ReadmeStride(h), h * PixelSize)) <=>
           /\ Complete(B, h, w, ReadmeStride(h))
           /\ \A r \in 0 .. w - 1, j \in 0 .. h - 1, c \in 1 .. PixelSize :
                B[r * ReadmeStride(h) + j * PixelSize + c] = FileByte(A, h, r, j, c)
<1> DEFINE s == ReadmeStride(h)
           m == h * PixelSize
           Byte(r, j, c) == B[r * s + j * PixelSize + c] = FileByte(A, h, r, j, c)
<1>1. s \in Nat /\ m \in Nat /\ s >= m /\ Stride(h) \in Nat /\ Stride(h) >= m
  <2>1. s = m + CmpPadding(h) /\ s \in Nat /\ CmpPadding(h) \in Nat /\ m \in Nat
    BY ReadmeStrideIs
  <2>2. s >= m
    <3> HIDE DEF s, m
    <3> QED BY <2>1
  <2>3. Stride(h) \in Nat /\ Stride(h) >= m
    BY StrideNat
  <2> QED BY <2>1, <2>2, <2>3
<1>2. ASSUME NEW r \in 0 .. w - 1
      PROVE  r * s \in Nat /\ r * Stride(h) = r * s /\ r * s + m <= Len(A)
  <2>1. CASE w <= 1
    <3>1. r = 0 /\ w = 1
      BY <2>1
    <3>2. Len(A) = Stride(h)
      BY <1>1, <3>1
    <3> HIDE DEF s, m
    <3> QED BY <1>1, <3>1, <3>2
  <2>2. CASE Stride(h) = s
    <3> DEFINE t == Stride(h)
    <3>1. t \in Nat /\ t >= m /\ t = s /\ Len(A) = w * t
      BY <1>1, <2>2
    <3> HIDE DEF t, s, m
    <3>2. r * t \in Nat /\ r * t + t <= w * t
      BY <3>1, RowEnds
    <3> DEFINE x == r * t
               y == w * t
    <3>3. x \in Nat /\ x + t <= y /\ Len(A) = y
      BY <3>1, <3>2
    <3>4. y \in Nat
      BY <3>1
    <3>5. t \in Nat /\ m \in Nat /\ t >= m
      BY <1>1, <3>1
    <3>6. x + m <= Len(A)
      <4> HIDE DEF x, y
      <4> QED BY ONLY <3>3, <3>4, <3>5
    <3> QED BY <3>1, <3>3, <3>6 DEF t
  <2> QED BY <2>1, <2>2
<1>3. ASSUME NEW r \in 0 .. w - 1, NEW j \in 0 .. h - 1, NEW c \in 1 .. PixelSize
      PROVE  FileByte(A, h, r, j, c) = A[r * s + j * PixelSize + c]
  BY <1>2 DEF FileByte
<1>4. ASSUME \A r \in 0 .. w - 1 : Agree(A, B, r * s, m)
      PROVE  /\ Complete(B, h, w, s)
             /\ \A r \in 0 .. w - 1, j \in 0 .. h - 1, c \in 1 .. PixelSize : Byte(r, j, c)
  <2>1. Complete(B, h, w, s)
    <3>1. CASE w = 0
      BY <3>1 DEF Complete
    <3>2. CASE w > 0 /\ h = 0
      <4>1. s = 0 /\ h * PixelSize = 0
        BY <3>2 DEF ReadmeStride, PixelSize, PADDING
      <4>2. (w - 1) * s = 0
        BY <4>1
      <4> HIDE DEF s
      <4> QED BY <4>1, <4>2 DEF Complete
    <3>3. CASE w > 0 /\ h > 0
      <4> DEFINE x == (w - 1) * s
      <4>1. w - 1 \in 0 .. w - 1
        BY <3>3
      <4>2. x \in Nat /\ x + m <= Len(A) /\ Agree(A, B, x, m)
        BY <1>2, <1>4, <4>1
      <4>3. m > 0
        BY <3>3 DEF PixelSize
      <4> HIDE DEF x, m, s
      <4>4. x + m \in x + 1 .. x + m
        BY <1>1, <4>2, <4>3
      <4>5. x + m <= Len(B)
        BY <4>2, <4>4 DEF Agree
      <4> QED BY <4>5 DEF Complete, x, m
    <3> QED BY <3>1, <3>2, <3>3
  <2>2. ASSUME NEW r \in 0 .. w - 1, NEW j \in 0 .. h - 1, NEW c \in 1 .. PixelSize
        PROVE  Byte(r, j, c)
    <3> DEFINE x == r * s
               k == x + j * PixelSize + c
    <3>1. x \in Nat /\ x + m <= Len(A) /\ Agree(A, B, x, m)
      BY <1>2, <1>4
    <3>2. k \in x + 1 .. x + m
      <4> HIDE DEF x
      <4> QED BY <3>1 DEF PixelSize
    <3>3. k <= Len(A)
      <4>1. m \in Nat /\ Len(A) \in Nat
        BY <1>1
      <4> HIDE DEF k, x, m
      <4> QED BY ONLY <3>1, <3>2, <4>1
    <3>4. A[k] = B[k]
      <4> HIDE DEF k, x, m
      <4> QED BY <3>1, <3>2, <3>3 DEF Agree
    <3> QED BY <1>3, <3>4
  <2> QED BY <2>1, <2>2
<1>5. ASSUME Complete(B, h, w, s),
             \A r \in 0 .. w - 1, j \in 0 .. h - 1, c \in 1 .. PixelSize : Byte(r, j, c),
             NEW r \in 0 .. w - 1
      PROVE  Agree(A, B, r * s, m)
  <2> DEFINE x == r * s
             y == (w - 1) * s
  <2>1. x \in Nat /\ x + m <= Len(A)
    BY <1>2
  <2>2. y + m <= Len(B) /\ x <= y /\ y \in Nat
    <3>1. w # 0
      OBVIOUS
    <3>2. y + m <= Len(B)
      BY <1>5, <3>1 DEF Complete
    <3>3. x <= y /\ y \in Nat
      <4> HIDE DEF s
      <4> QED BY <1>1, ProductGrows
    <3> QED BY <3>2, <3>3
  <2>3. ASSUME NEW k \in x + 1 .. x + m
        PROVE  k <= Len(A) /\ k <= Len(B) /\ A[k] = B[k]
    <3> DEFINE n == k - x - 1
               j == n \div PixelSize
               c == (n % PixelSize) + 1
    <3>1. n \in 0 .. m - 1
      <4> HIDE DEF x, m
      <4> QED BY <1>1, <2>1, <2>3
    <3>2. j \in 0 .. h - 1 /\ c \in 1 .. PixelSize /\ n = j * PixelSize + c - 1
      <4> HIDE DEF n
      <4> QED BY <3>1 DEF PixelSize
    <3>3. k = x + j * PixelSize + c
      <4>1. k \in Nat /\ n = k - x - 1 /\ j * PixelSize \in Int
        <5>1. k \in Nat
          <6> HIDE DEF x, m
          <6> QED BY <1>1, <2>1, <2>3
        <5>2. j \in Int
          <6> HIDE DEF j
          <6> QED BY <3>2
        <5> QED BY <5>1, <5>2 DEF PixelSize
      <4> HIDE DEF n, j, c, x
      <4> QED BY <2>1, <3>2, <4>1 DEF PixelSize
    <3>4. Byte(r, j, c)
      <4> HIDE DEF j, c
      <4> QED BY <1>5, <3>2
    <3>5. FileByte(A, h, r, j, c) = A[r * s + j * PixelSize + c]
      <4> HIDE DEF j, c, s
      <4> QED BY <1>3, <3>2
    <3>6. B[r * s + j * PixelSize + c] = A[r * s + j * PixelSize + c]
      BY <3>4, <3>5
    <3>7. A[k] = B[k]
      <4> HIDE DEF j, c
      <4> QED BY <3>3, <3>6
    <3>8. k <= Len(A) /\ k <= Len(B)
      <4>1. m \in Nat /\ Len(A) \in Nat /\ Len(B) \in Nat /\ k \in x + 1 .. x + m
        BY <1>1, <2>3
      <4> HIDE DEF x, y, m
      <4> QED BY ONLY <2>1, <2>2, <4>1
    <3> QED BY <3>7, <3>8
  <2> HIDE DEF x, m
  <2>4. Agree(A, B, x, m)
    BY <2>3 DEF Agree
  <2> QED BY <2>4 DEF x, m
<1> QED BY <1>4, <1>5

\* What the program has written, as the tester reads it: rows agree with an
\* expected file of the same dimensions exactly if that shows the input turned left.
LEMMA RowsAgreeIfTurned ==
  ASSUME NEW w \in Nat, NEW h \in Nat, NEW body, NEW A, NEW e \in FileType,
         WholeRows(w, A, body, w, h), w <= 1 \/ Stride(h) = ReadmeStride(h),
         e.width = h, e.height = w
  PROVE  (\A r \in 0 .. w - 1 : Agree(A, e.body, r * ReadmeStride(h), h * PixelSize)) <=>
           /\ Complete(e.body, h, w, ReadmeStride(h))
           /\ TurnedLeft(Picture(body, w, h), ImageAt(e.body, h, w, ReadmeStride(h)))
<1> DEFINE s == ReadmeStride(h)
           B == e.body
           src == Picture(body, w, h)
           dst == ImageAt(B, h, w, s)
           AsWritten == \A r \in 0 .. w - 1, j \in 0 .. h - 1, c \in 1 .. PixelSize :
                          B[r * s + j * PixelSize + c] = FileByte(A, h, r, j, c)
<1>1. A \in Seq(Nat) /\ Len(A) = w * Stride(h) /\ B \in Seq(Nat)
  BY DEF WholeRows, RowsWritten, FileType
<1>2. (\A r \in 0 .. w - 1 : Agree(A, B, r * s, h * PixelSize)) <=>
        Complete(B, h, w, s) /\ AsWritten
  <2> HIDE DEF B
  <2>1. w \in Nat /\ h \in Nat /\ (w <= 1 \/ Stride(h) = ReadmeStride(h))
    OBVIOUS
  <2> QED BY ONLY <1>1, <2>1, RowsAgreeAsPixels
<1>3. /\ src.width = w /\ src.height = h
      /\ dst.width = h /\ dst.height = w
  BY DEF Picture, ImageAt
<1>4. ASSUME NEW x \in 0 .. h - 1, NEW y \in 0 .. w - 1
      PROVE  /\ Shown(dst, x, y) = [c \in 1 .. PixelSize |-> B[(w - 1 - y) * s + x * PixelSize + c]]
             /\ Shown(src, w - 1 - y, x) = FilePixel(A, h, w - 1 - y, x)
  <2> DEFINE i == w - 1 - y
             j == h - 1 - x
             from == j * w + i
             to == i * h + x
  <2>1. i \in 0 .. w - 1 /\ j \in 0 .. h - 1 /\ i \in Nat /\ j \in Nat
    OBVIOUS
  <2>2. to \in 0 .. h * w - 1 /\ to \div h = i /\ to % h = x
    <3> HIDE DEF i
    <3>1. to \in 0 .. h * w - 1
      BY <2>1, IndexInside
    <3>2. h \in Nat \ {0}
      OBVIOUS
    <3>3. to \div h = i /\ to % h = x
      BY <2>1, <3>2, IndexSplits
    <3> QED BY <3>1, <3>3
  <2>3. from \in 0 .. w * h - 1 /\ from \div w = j /\ from % w = i
    <3> HIDE DEF i, j
    <3>1. from \in 0 .. w * h - 1
      BY <2>1, IndexInside
    <3>2. w \in Nat \ {0}
      OBVIOUS
    <3>3. from \div w = j /\ from % w = i
      BY <2>1, <3>2, IndexSplits
    <3> QED BY <3>1, <3>3
  <2>4. dst.pixels[to] = [c \in 1 .. PixelSize |-> B[i * s + x * PixelSize + c]]
    <3> HIDE DEF to, i, s, B
    <3> QED BY <2>2 DEF ImageAt
  <2>5. src.pixels[from] = FilePixel(body, w, j, i)
    <3> HIDE DEF from, i, j
    <3> QED BY <2>3 DEF Picture, ImageAt, FilePixel, FileByte
  <2>6. FilePixel(A, h, i, x) = FilePixel(body, w, j, i)
    <3>1. h - x - 1 = j
      OBVIOUS
    <3> HIDE DEF i, j
    <3>2. \A c \in 1 .. PixelSize :
            FileByte(A, h, i, x, c) = FileByte(body, w, j, i, c)
      BY <2>1, <3>1 DEF WholeRows, RowsWritten
    <3> QED BY <3>2 DEF FilePixel
  <2>7. Shown(dst, x, y) = dst.pixels[to]
    BY <1>3 DEF Shown
  <2>8. Shown(src, w - 1 - y, x) = src.pixels[from]
    BY <1>3 DEF Shown
  <2> QED BY <2>4, <2>5, <2>6, <2>7, <2>8
<1>5. AsWritten => TurnedLeft(src, dst)
  <2> SUFFICES ASSUME AsWritten, NEW x \in 0 .. h - 1, NEW y \in 0 .. w - 1
               PROVE  Shown(dst, x, y) = Shown(src, w - 1 - y, x)
    <3> HIDE DEF src, dst, AsWritten
    <3> QED BY <1>3 DEF TurnedLeft
  <2> DEFINE i == w - 1 - y
  <2>1. i \in 0 .. w - 1
    OBVIOUS
  <2>2. \A c \in 1 .. PixelSize : B[i * s + x * PixelSize + c] = FileByte(A, h, i, x, c)
    <3> HIDE DEF i, s, B
    <3> QED BY <2>1
  <2>3. [c \in 1 .. PixelSize |-> B[i * s + x * PixelSize + c]] = FilePixel(A, h, i, x)
    <3> HIDE DEF i, s, B
    <3> QED BY <2>2 DEF FilePixel
  <2>4. /\ Shown(dst, x, y) = [c \in 1 .. PixelSize |-> B[i * s + x * PixelSize + c]]
        /\ Shown(src, w - 1 - y, x) = FilePixel(A, h, i, x)
    BY <1>4
  <2> HIDE DEF i, s, B, src, dst, AsWritten
  <2> QED BY ONLY <2>3, <2>4
<1>6. TurnedLeft(src, dst) => AsWritten
  <2> SUFFICES ASSUME TurnedLeft(src, dst),
                      NEW i \in 0 .. w - 1, NEW j \in 0 .. h - 1, NEW c \in 1 .. PixelSize
               PROVE  B[i * s + j * PixelSize + c] = FileByte(A, h, i, j, c)
    OBVIOUS
  <2> DEFINE y == w - 1 - i
  <2>1. y \in 0 .. w - 1 /\ w - 1 - y = i
    OBVIOUS
  <2> HIDE DEF y
  <2>2. Shown(dst, j, y) = Shown(src, w - 1 - y, j)
    BY <1>3, <2>1 DEF TurnedLeft
  <2>3. /\ Shown(dst, j, y) = [k \in 1 .. PixelSize |-> B[i * s + j * PixelSize + k]]
        /\ Shown(src, w - 1 - y, j) = FilePixel(A, h, i, j)
    BY <1>4, <2>1
  <2>4. [k \in 1 .. PixelSize |-> B[i * s + j * PixelSize + k]] = FilePixel(A, h, i, j)
    BY <2>2, <2>3
  <2> HIDE DEF s, B
  <2>5. [k \in 1 .. PixelSize |-> B[i * s + j * PixelSize + k]][c] = FilePixel(A, h, i, j)[c]
    BY <2>4
  <2> QED BY <2>5 DEF FilePixel
<1> QED BY <1>2, <1>5, <1>6

\* tester.sh: if the rows of the result are where the tester looks for them (a
\* single one, or none that is aligned), a test passes exactly if the expected
\* file holds the input turned left: for every picture, every expected file and
\* every size of the buffer, and whatever fails in the program.  This takes
\* what the program leaves in the file, that nothing changes it before
\* the tester reads it, and what the tester's verdict means.
THEOREM TestDecidesWhereRowsAgree == TestSpec => [](SameRows /\ RowFits => TestDecides)
<1>1. RunInv /\ CmpInv /\ Tested => (SameRows /\ RowFits => TestDecides)
  <2> SUFFICES ASSUME RunInv, CmpInv, Tested, SameRows, RowFits,
                      step = "exit", ~failed, ~lost
               PROVE  verdict = BMP_CMP_EQUALS <=> ExpectedIsRight
    BY DEF TestDecides
  <2> DEFINE w == input.width
             h == input.height
             e == file[2]
             A == out.body
             s == ReadmeStride(h)
             Right == /\ Complete(e.body, h, w, s)
                      /\ TurnedLeft(Picture(input.body, w, h), ImageAt(e.body, h, w, s))
  <2>1. w \in Nat /\ h \in Nat /\ w < FieldMod /\ h < FieldMod
    BY InputTyped DEF RunInv, IInv
  <2>2. pc = "done" /\ status = WRITE_OK /\ file[1] = Written
    BY DEF Tested
  <2>3. out.headers = <<Header>> /\ WholeRows(w, A, input.body, w, h)
    BY <2>2 DEF RunInv, Contents, ResultThere
  <2>4. /\ HeaderIsCorrect(file[1])
        /\ file[1].width = h /\ file[1].height = w /\ file[1].body = A
    <3>1. Header.biWidth = h /\ Header.biHeight = w
      BY <2>1, HeaderAgrees DEF Header
    <3>2. out.headers # <<>> /\ out.headers[1] = Header
      BY <2>3
    <3> QED BY <2>2, <3>1, <3>2 DEF Written, HeaderIsCorrect
  <2>5. e \in FileType
    BY DEF CmpInv, CmpTypeOK
  <2>6. verdict = BMP_CMP_EQUALS <=> Comparable /\ RowsAgree(w)
    <3>1. verdict = BMP_CMP_EQUALS <=> Comparable /\ RowsAgree(file[1].height)
      BY VerdictMeans DEF CmpInv
    <3> QED BY <2>4, <3>1
  <2>7. Comparable <=> HeaderIsCorrect(e) /\ e.width = h /\ e.height = w
    BY <2>4 DEF Comparable
  <2>8. RowsAgree(w) <=>
          \A r \in 0 .. w - 1 : Agree(A, e.body, r * ReadmeStride(h), h * PixelSize)
    BY <2>4 DEF RowsAgree, RowStart, Wide
  <2>9. e.width = h /\ e.height = w => (RowsAgree(w) <=> Right)
    <3>1. w <= 1 \/ Stride(h) = ReadmeStride(h)
      BY DEF SameRows
    <3> SUFFICES ASSUME e.width = h, e.height = w PROVE RowsAgree(w) <=> Right
      OBVIOUS
    <3> HIDE DEF w, h, e, A
    <3> QED BY <2>1, <2>3, <2>5, <2>8, <3>1, RowsAgreeIfTurned
  <2>10. ExpectedIsRight <=> HeaderIsCorrect(e) /\ e.width = h /\ e.height = w /\ Right
    BY DEF ExpectedIsRight
  <2> QED BY <2>6, <2>7, <2>9, <2>10
<1>2. TestSpec => []Tested
  <2>1. TestInit => Tested
    BY DEF TestInit, CmpInit, Tested
  <2> QED BY <2>1, TestedKept, PTL DEF TestSpec
<1> QED BY <1>1, <1>2, TestInvariance, PTL
=============================================================================
