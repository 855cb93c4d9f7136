------------------------------- MODULE BmpCmp -------------------------------
(***************************************************************************)
(* assignment-image-rotation/tester: compares two BMP files row by row and *)
(* a row in chunks of CMP_BUFFER_SIZE bytes.  The padding of a row is      *)
(* skipped; how much that is, the tester computes on its own.  Every call  *)
(* of stdio may fail; `failed` records for the properties that one did.    *)
(***************************************************************************)
EXTENDS Bmp

CONSTANT CMP_BUFFER_SIZE    \* 8192 in cmp.h

ASSUME BufferAssumption == CMP_BUFFER_SIZE \in Nat \ {0}

\* enum bmp_compare_status
BMP_CMP_EQUALS == 0
BMP_CMP_DIFF == 1
BMP_CMP_FILE_ERROR == 2
BMP_CMP_DIMENSIONS_DIFFER == 3
BMP_CMP_INVALID_FORMAT == 4

\* A file: whether it exists, holds a whole header, and has one that passes
\* header_is_correct; and what follows the header.
FileType ==
  [exists : BOOLEAN, header : BOOLEAN, correct : BOOLEAN,
   width : Nat, height : Nat, body : Seq(Nat)]

Missing ==
  [exists |-> FALSE, header |-> FALSE, correct |-> FALSE,
   width |-> 0, height |-> 0, body |-> <<>>]

VARIABLES
  step,     \* what the tester does next; "wait" before it is started
  file,     \* both files
  at,       \* read positions behind the headers
  line,     \* i of bmp_cmp
  left,     \* sz of file_cmp
  verdict,  \* exit status
  failed    \* whether a call of stdio has failed

cmpVars == <<step, file, at, line, left, verdict, failed>>

CmpInit ==
  /\ step = "wait"
  /\ file = <<Missing, Missing>>
  /\ at = <<0, 0>>
  /\ line = 0
  /\ left = 0
  /\ verdict = BMP_CMP_EQUALS
  /\ failed = FALSE

\* Mistake: the padding of the solution, four bytes behind aligned rows.
CmpPadding_NeverZero(width) == 4 - ((width * PixelSize) % 4)

\* get_padding of the tester.
CmpPadding(width) == width % 4

\* h1.biWidth * 3 in 32 bits.
RowSize(width) == (width * PixelSize) % FieldMod

Exit(status) ==
  /\ step' = "exit"
  /\ verdict' = status

\* The head of the loop over the rows.
BeginRow(n) ==
  IF n = file[1].height
  THEN Exit(BMP_CMP_EQUALS) /\ UNCHANGED <<line, left>>
  ELSE /\ step' = "row"
       /\ line' = n
       /\ left' = RowSize(file[1].width)
       /\ UNCHANGED verdict

\* Both fopen; err exits with 1, which is BMP_CMP_DIFF as well.
OpenFiles ==
  /\ step = "open"
  /\ \/ /\ \A i \in 1 .. 2 : file[i].exists
        /\ step' = "headers"
        /\ UNCHANGED <<verdict, failed>>
     \/ /\ step' = "err"
        /\ verdict' = 1
        /\ failed' = \A i \in 1 .. 2 : file[i].exists
  /\ UNCHANGED <<file, at, line, left>>

HeaderIsCorrect(f) == f.header /\ f.correct

\* The first half of bmp_cmp.  A bad first file is a file error, a bad second
\* one an invalid format.
CompareHeaders ==
  /\ step = "headers"
  /\ \/ /\ Exit(BMP_CMP_FILE_ERROR)
        /\ failed' = HeaderIsCorrect(file[1])
        /\ UNCHANGED <<line, left>>
     \/ /\ HeaderIsCorrect(file[1])
        /\ Exit(BMP_CMP_INVALID_FORMAT)
        /\ failed' = HeaderIsCorrect(file[2])
        /\ UNCHANGED <<line, left>>
     \/ /\ HeaderIsCorrect(file[1]) /\ HeaderIsCorrect(file[2])
        /\ IF file[1].width = file[2].width /\ file[1].height = file[2].height
           THEN BeginRow(0)
           ELSE Exit(BMP_CMP_DIMENSIONS_DIFFER) /\ UNCHANGED <<line, left>>
        /\ UNCHANGED failed
  /\ UNCHANGED <<file, at>>

\* What fread can get at most from file i.
Readable(i) ==
  LET chunk == IF left < CMP_BUFFER_SIZE THEN left ELSE CMP_BUFFER_SIZE
      rest == Len(file[i].body) - at[i]
  IN IF rest <= 0 THEN 0 ELSE IF rest < chunk THEN rest ELSE chunk

Read(i, n) == SubSeq(file[i].body, at[i] + 1, at[i] + n)

\* Mistake: a whole buffer that is equal ends the comparison of the row.
ChunkResult_FullIsEqual(n) == step' = "skip" /\ UNCHANGED left

\* cmp_chunk found n equal bytes: after a full buffer the row goes on, after
\* less the row is taken to be over, at the end of the file, too.
ChunkResult(n) ==
  IF n = CMP_BUFFER_SIZE
  THEN left' = left - CMP_BUFFER_SIZE /\ UNCHANGED step
  ELSE step' = "skip" /\ UNCHANGED left

\* One iteration of file_cmp.  A failing fread returns fewer bytes.
CompareChunk ==
  /\ step = "row"
  /\ left > 0
  /\ \E read1 \in 0 .. Readable(1), read2 \in 0 .. Readable(2) :
       /\ at' = <<at[1] + read1, at[2] + read2>>
       /\ failed' = (failed \/ read1 < Readable(1) \/ read2 < Readable(2))
       /\ \/ /\ Read(1, read1) = Read(2, read2)
             /\ ChunkResult(read1)
             /\ UNCHANGED verdict
          \/ /\ Read(1, read1) # Read(2, read2)
             /\ Exit(BMP_CMP_DIFF)
             /\ UNCHANGED left
  /\ UNCHANGED <<file, line>>

\* The row is equal: both fseek over the padding, which may lead beyond the
\* end of the file.
SkipPaddings ==
  /\ step = "skip" \/ (step = "row" /\ left = 0)
  /\ \/ /\ at' = [i \in 1 .. 2 |-> at[i] + CmpPadding(file[1].width)]
        /\ BeginRow(line + 1)
        /\ UNCHANGED failed
     \/ /\ Exit(BMP_CMP_FILE_ERROR)
        /\ failed' = TRUE
        /\ UNCHANGED <<at, line, left>>
  /\ UNCHANGED file

CmpNext == OpenFiles \/ CompareHeaders \/ CompareChunk \/ SkipPaddings

-----------------------------------------------------------------------------
(* What the verdict says.                                                  *)

CmpTypeOK ==
  /\ step \in {"wait", "open", "headers", "row", "skip", "exit", "err"}
  /\ file \in [1 .. 2 -> FileType]
  /\ at \in [1 .. 2 -> Nat]
  /\ line \in Nat /\ left \in Nat
  /\ verdict \in BMP_CMP_EQUALS .. BMP_CMP_INVALID_FORMAT
  /\ failed \in BOOLEAN

\* What a file has of row r, the rows being laid out as in README.md.
RowPart(f, r) ==
  SubSeq(f.body, r * ReadmeStride(f.width) + 1,
         LET end == r * ReadmeStride(f.width) + f.width * PixelSize
         IN IF end < Len(f.body) THEN end ELSE Len(f.body))

\* A row has less than 2^32 bytes: the tester counts them in 32 bits.
RowFits == file[1].width * PixelSize < FieldMod

\* The tester calls files equal exactly if they are BMP files of the same
\* dimensions with the same bytes of pixels, however they are cut into chunks
\* and whatever the padding holds.  Two files that end at the same place are
\* equal for it, too (file_cmp.c:20, a short chunk ends the row).
VerdictExact ==
  (step = "exit" /\ ~failed /\ RowFits) =>
    (verdict = BMP_CMP_EQUALS <=>
       /\ HeaderIsCorrect(file[1]) /\ HeaderIsCorrect(file[2])
       /\ file[1].width = file[2].width /\ file[1].height = file[2].height
       /\ \A r \in 0 .. file[1].height - 1 : RowPart(file[1], r) = RowPart(file[2], r))
=============================================================================
