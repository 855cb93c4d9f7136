------------------------ MODULE MCImageTransformer ------------------------
(* Source files whose bytes are all different, so that a pixel that ends up in
   a wrong place is seen.  Size_t has seven bits: a five by five image is
   enough to make the size of its array wrap around. *)
EXTENDS ImageTransformer

Bytes(n) == [k \in 1 .. n |-> k]

File(w, h, n) ==
  [exists |-> TRUE, header |-> TRUE, signed |-> TRUE, sizes |-> TRUE,
   width |-> w, height |-> h, body |-> Bytes(n)]

\* Files as the program writes them, of every padding and of both degenerate
\* shapes; one as README.md describes them; one cut short; one too large.
MCInputs ==
  {File(w, h, Stride(w) * h) : w \in 1 .. 4, h \in 1 .. 3}
  \union {File(2, 4, Stride(2) * 4), File(0, 2, 8), File(0, 2, 0), File(2, 0, 0)}
  \union {File(4, 2, ReadmeStride(4) * 2), File(2, 3, 21), File(2, 3, 22), File(5, 9, 180)}
  \union {[File(1, 1, 4) EXCEPT !.exists = FALSE],
          [File(1, 1, 4) EXCEPT !.header = FALSE],
          [File(1, 1, 4) EXCEPT !.signed = FALSE],
          [File(1, 1, 4) EXCEPT !.sizes = FALSE]}
=============================================================================
