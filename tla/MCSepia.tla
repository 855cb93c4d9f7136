------------------------------ MODULE MCSepia ------------------------------
(* Pictures of zero to nine pixels, so that every number of pixels behind the
   last group of four occurs; channel values that saturate, that round up and
   that round down. *)
EXTENDS Sepia

Values == <<0, 255, 254, 250, 200, 180, 2, 100, 1, 90, 60, 3, 7>>

Body(n) == [k \in 1 .. n |-> Values[(k % 13) + 1]]

File(w, h, n) ==
  [exists |-> TRUE, header |-> TRUE, width |-> w, height |-> h, body |-> Body(n)]

Whole(w, h) == File(w, h, Stride(w) * h)

\* The last one has a picture of more pixels than an index can tell apart.
MCInputs ==
  {Whole(w, h) : w \in 0 .. 3, h \in 0 .. 2} \union {Whole(1, 7), Whole(4, 2), Whole(3, 3), Whole(6, 3)}
  \union {[Whole(2, 2) EXCEPT !.exists = FALSE], [Whole(2, 2) EXCEPT !.header = FALSE]}
  \union {File(2, 2, 9), File(3, 2, 12), File(7, 7, 0)}

MCArgvs == {<<>>, <<"in">>, <<"in", "out">>, <<"-sse", "in">>, <<"-sse", "in", "out">>,
            <<"-perf", "in">>}

MCJunk == {0, 77}
=============================================================================
