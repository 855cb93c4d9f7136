---------------------------- MODULE RotationTest ----------------------------
(***************************************************************************)
(* A test of the rotation, as the Makefile and tester.sh run it: the       *)
(* program turns the input, and if it exits with zero the tester compares  *)
(* what it wrote with the expected picture.                                *)
(***************************************************************************)
EXTENDS ImageTransformer, BmpCmp

CONSTANT Expected(_)   \* the expected files that may go with an input

ASSUME ExpectedAssumption == \A source \in Inputs : Expected(source) \subseteq FileType

testVars == <<vars, cmpVars>>

TestInit == Init /\ CmpInit

\* $main_cmd: the tester waits.
RunMain == Next /\ UNCHANGED cmpVars

\* The file the program has written; init_bmp_header fills in a correct type
\* and bit count.
Written ==
  IF out.headers = <<>>
  THEN [Missing EXCEPT !.exists = TRUE]
  ELSE [exists |-> TRUE, header |-> TRUE, correct |-> TRUE,
        width |-> out.headers[1].biWidth, height |-> out.headers[1].biHeight,
        body |-> out.body]

\* $tester_cmd, only after exit status zero.  Which file is expected has been
\* fixed all along, but nobody looks at it before.
StartTester ==
  /\ step = "wait"
  /\ pc = "done" /\ status = WRITE_OK
  /\ \E e \in Expected(input) : file' = <<Written, e>>
  /\ step' = "open"
  /\ UNCHANGED <<vars, at, line, left, verdict, failed>>

RunTester == CmpNext /\ UNCHANGED vars

TestNext == RunMain \/ StartTester \/ RunTester

TestSpec == TestInit /\ [][TestNext]_testVars

-----------------------------------------------------------------------------
TestTypeOK == TypeOK /\ CmpTypeOK

\* The expected file holds the input turned left, laid out as in README.md.
ExpectedIsRight ==
  LET e == file[2] IN
  /\ HeaderIsCorrect(e)
  /\ e.width = input.height /\ e.height = input.width
  /\ Complete(e.body, e.width, e.height, ReadmeStride(e.width))
  /\ TurnedLeft(Picture(input.body, input.width, input.height),
                ImageAt(e.body, e.width, e.height, ReadmeStride(e.width)))

\* The program and the tester find the rows of the result at the same places:
\* not if a row is aligned and another one follows it.
SameRows == input.width <= 1 \/ Stride(input.height) = ReadmeStride(input.height)

\* A test passes exactly if the expected file holds the input turned left and
\* the rows of the result are where the tester looks for them.  So it cannot
\* pass a wrong picture, and it fails a right one only because of the padding
\* bmp.c adds to aligned rows.  (Bytes are different from each other in the
\* pictures the runs use; a picture of one colour has the same bytes anywhere.)
TestDecides ==
  (step = "exit" /\ ~failed /\ ~lost) =>
    (verdict = BMP_CMP_EQUALS <=> ExpectedIsRight /\ SameRows)
=============================================================================
