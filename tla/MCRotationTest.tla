-------------------------- MODULE MCRotationTest --------------------------
(* Expected pictures for the sources of MCImageTransformer, right and wrong
   ones.  A buffer of four bytes cuts the rows of two pixels and more, and some
   of them exactly at their end. *)
EXTENDS MCImageTransformer, RotationTest

\* The raster of a source turned left, with rows as in README.md: the lowest
\* row holds the left column of the source, its top pixel first.
RightBody(source) ==
  LET width == source.height
      stride == ReadmeStride(width)
      Byte(r, b) ==
        source.body[(source.height - 1 - b \div PixelSize) * Stride(source.width)
                    + r * PixelSize + (b % PixelSize) + 1]
  IN [k \in 1 .. source.width * stride |->
        IF (k - 1) % stride < width * PixelSize
        THEN Byte((k - 1) \div stride, (k - 1) % stride) ELSE 0]

Right(source) ==
  [exists |-> TRUE, header |-> TRUE, correct |-> TRUE,
   width |-> source.height, height |-> source.width, body |-> RightBody(source)]

\* The right file; with other paddings; with one pixel wrong; one byte, or half
\* of the file short; with other dimensions; and files that are none.
MCExpected(source) ==
  LET right == Right(source)
      n == Len(right.body)
      last == n - CmpPadding(right.width)
  IN IF ~Complete(source.body, source.width, source.height, Stride(source.width)) THEN {}
     ELSE {right, Missing,
           [right EXCEPT !.body = SubSeq(@, 1, n - 1)],
           [right EXCEPT !.body = SubSeq(@, 1, n \div 2)],
           [right EXCEPT !.body = [k \in 1 .. n |-> IF k > last THEN 1 ELSE @[k]]],
           [right EXCEPT !.body = [k \in 1 .. n |-> IF k = last THEN 0 ELSE @[k]]],
           [right EXCEPT !.width = right.height, !.height = right.width],
           [right EXCEPT !.header = FALSE],
           [right EXCEPT !.correct = FALSE]}
=============================================================================
