------------------------------- MODULE Sepia -------------------------------
(***************************************************************************)
(* One run of assignment-sepia-filter: main.c, the BMP adapter and the     *)
(* loops of sepia_filter.c.  Nothing here looks at the status of a library *)
(* call, so a failing call changes what the following steps work on; the   *)
(* ghost variable `failed` remembers that one has.                         *)
(***************************************************************************)
EXTENDS SepiaFilter, Bmp

CONSTANTS
  Argvs,       \* argument vectors, without the name of the program
  Inputs,      \* the source files a run may be given
  Junk,        \* bytes malloc may leave in a new array
  Durations,   \* measured times
  MinStart,    \* 999999: where the minimum of perf_counter starts
  TestsNum     \* TESTS_NUM, 50 in the code

\* A source: whether it can be opened, whether it has a header, its sizes and
\* the bytes from bOffBits on.
InputType == [exists : BOOLEAN, header : BOOLEAN, width : Nat, height : Nat, body : Seq(0 .. 255)]

\* Of the sizes of machine words only this matters: both are powers of two.
ASSUME PowersOfTwo == FieldMod % 4 = 0 /\ WordMod % FieldMod = 0

ASSUME SepiaAssumption ==
  /\ Argvs \subseteq Seq({"-sse", "-perf", "in", "out"})
  /\ Inputs \subseteq InputType
  /\ \A f \in Inputs : f.width < FieldMod /\ f.height < FieldMod
  /\ Junk \subseteq 0 .. 255
  /\ Durations \subseteq Nat
  /\ MinStart \in Nat
  /\ TestsNum \in Nat \ {0}

Unset == -1                \* a byte of a new array nobody has written
NullArray == <<Unset>>     \* what malloc returns when it fails

VARIABLES
  pc,
  argv,     \* the arguments
  input,    \* the source file
  err,      \* the error of the float sums
  size,     \* width and height of the original image
  pixels,   \* its pixel array, byte by byte
  pos,      \* read position in the body
  row,      \* i of the read loop
  kind,     \* the filter that runs: "c" or "sse"
  index,    \* i of the filter loops
  results,  \* filtered images: kind -> pixel array
  live,     \* images allocated and not freed
  test,     \* i of perf_counter
  times,    \* kind -> the times measured
  stats,    \* kind -> minimum, maximum and sum so far
  out,      \* the destination file
  failed    \* what went wrong unnoticed

file == <<argv, input, err>>
image == <<size, pixels, pos, row>>
filter == <<kind, index, results>>
perf == <<test, times, stats>>
vars == <<pc, file, image, filter, live, perf, out, failed>>

Original == <<"original", 0>>

NoFile == [headers |-> <<>>, body |-> <<>>]
NoStats == [min |-> MinStart, max |-> 0, sum |-> 0]

Init ==
  /\ pc = "main"
  /\ argv \in Argvs
  /\ input \in Inputs
  /\ err \in Errors
  /\ size = [width |-> 0, height |-> 0]
  /\ pixels = <<>>
  /\ pos = 0 /\ row = 0 /\ index = 0 /\ test = 0
  /\ kind = "c"
  /\ results = [k \in {"c", "sse"} |-> <<>>]
  /\ live = {}
  /\ times = [k \in {"c", "sse"} |-> <<>>]
  /\ stats = [k \in {"c", "sse"} |-> NoStats]
  /\ out = NoFile
  /\ failed = {}

Perf == argv[1] = "-perf"
Sse == argv[1] = "-sse"

\* argv[arg_i] of main: behind the last argument there is a null pointer.
OutputFile == IF Sse THEN IF Len(argv) = 3 THEN argv[3] ELSE "null" ELSE argv[2]

Main ==
  /\ pc = "main"
  /\ IF Len(argv) < 2
     THEN pc' = "usage" /\ UNCHANGED kind
     ELSE pc' = "open_in" /\ kind' = IF Sse THEN "sse" ELSE "c"
  /\ UNCHANGED <<file, image, index, results, live, perf, out, failed>>

-----------------------------------------------------------------------------
(* from_bmp                                                                *)

\* open_file and alloc_image(0, 0); rewind(NULL) does not return.
OpenIn ==
  /\ pc = "open_in"
  /\ \/ input.exists /\ pc' = "header" /\ live' = {Original}
     \/ pc' = "crashed" /\ UNCHANGED live
  /\ UNCHANGED <<file, image, filter, perf, out, failed>>

\* read_bmp_header and the sizes: nothing of the header is checked.  A short read
\* fills the fields up to some place, and what is behind it stays zero.
ReadHeader ==
  /\ pc = "header"
  /\ pc' = "alloc"
  /\ \/ /\ input.header
        /\ size' = [width |-> input.width, height |-> input.height]
        /\ UNCHANGED failed
     \/ /\ failed' = failed \union {"read"}
        /\ size' \in {size, [size EXCEPT !.width = input.width],
                     [width |-> input.width, height |-> input.height]}
  /\ UNCHANGED <<file, pixels, pos, row, filter, live, perf, out>>

Count == size.width * size.height
RowSize == size.width * PixelSize

\* An array of w * h pixels, not initialised: what its bytes are is arbitrary.
AllocPixelArray ==
  /\ pc = "alloc"
  /\ pc' = "read_row"
  /\ \/ \E j \in Junk : pixels' = [k \in 1 .. AllocSize(size.width, size.height) |-> j]
     \/ pixels' = NullArray
  /\ UNCHANGED <<file, size, pos, row, filter, live, perf, out, failed>>

\* fread of a row takes what is left of the file; then the padding is skipped.
ReadRow ==
  LET there == IF Len(input.body) > pos THEN Len(input.body) - pos ELSE 0
      first == row * RowSize
  IN
  /\ pc = "read_row"
  /\ row < size.height
  /\ IF RowSize > 0 /\ pixels = NullArray
     THEN pc' = "crashed" /\ UNCHANGED <<pixels, pos, row, failed>>
     ELSE IF first + RowSize > AllocSize(size.width, size.height)
     THEN pc' = "out_of_bounds" /\ UNCHANGED <<pixels, pos, row, failed>>
     ELSE \E got \in 0 .. RowSize :
            /\ \/ got = IF there < RowSize THEN there ELSE RowSize
               \/ got = 0
            /\ pixels' = IF RowSize = 0 THEN pixels
                         ELSE [k \in DOMAIN pixels |->
                                 IF k \in first + 1 .. first + got
                                 THEN input.body[pos + k - first] ELSE pixels[k]]
            /\ pos' = pos + got + GetPadding(size.width)
            /\ row' = row + 1
            /\ failed' = IF got < RowSize THEN failed \union {"read"} ELSE failed
            /\ UNCHANGED pc
  /\ UNCHANGED <<file, size, filter, live, perf, out>>

\* The old array is freed and replaced, the source closed.
ReadDone ==
  /\ pc = "read_row"
  /\ row = size.height
  /\ pc' = IF Perf THEN "filter" ELSE "open_out"
  /\ UNCHANGED <<file, image, filter, live, perf, out, failed>>

OpenOut ==
  /\ pc = "open_out"
  /\ \/ OutputFile # "null" /\ UNCHANGED failed
     \/ failed' = failed \union {"open"}
  /\ pc' = "filter"
  /\ UNCHANGED <<file, image, filter, live, perf, out>>

-----------------------------------------------------------------------------
(* sepia_image and sepia_image_sse                                         *)

\* alloc_image for the result; its array is not initialised.
AllocOutput ==
  /\ pc = "filter"
  /\ pc' = "pixels"
  /\ index' = 0
  /\ \/ results' = [results EXCEPT ![kind] =
                      [k \in 1 .. AllocSize(size.width, size.height) |-> Unset]]
     \/ results' = [results EXCEPT ![kind] = NullArray]
  /\ live' = live \union {<<kind, test>>}
  /\ UNCHANGED <<file, image, kind, perf, out, failed>>

\* pixel_of takes an index of 32 bits.
PixelOf(array, i) ==
  LET at == (i % FieldMod) * PixelSize IN <<array[at + 1], array[at + 2], array[at + 3]>>

Stored(array, i, bytes) ==
  LET at == (i % FieldMod) * PixelSize
  IN [k \in DOMAIN array |->
        IF k \in at + 1 .. at + Len(bytes) THEN bytes[k - at] ELSE array[k]]

\* Pixels that the SSE loop takes in groups of four.
Grouped == 4 * (Count \div 4)

\* The loops that filter pixel by pixel: all of sepia_image, and the last
\* pixels of sepia_image_sse.
ByPixel == kind = "c" \/ index >= Grouped

\* One round of a filter loop, writing through a null array if malloc failed.
FilterStep ==
  /\ pc = "pixels"
  /\ index < Count
  /\ IF results[kind] = NullArray
     THEN pc' = "crashed" /\ UNCHANGED <<index, results>>
     ELSE /\ IF ByPixel
             THEN /\ results' = [results EXCEPT ![kind] =
                                   Stored(@, index, SepiaOne(PixelOf(pixels, index), err))]
                  /\ index' = index + 1
             ELSE /\ LET channel(n) == [k \in 1 .. 4 |-> PixelOf(pixels, index + k - 1)[n]]
                     IN results' = [results EXCEPT ![kind] =
                          Stored(@, index,
                                 SepiaFilterSse(channel(3), channel(2), channel(1), err))]
                  /\ index' = index + 4
          /\ UNCHANGED pc
  /\ UNCHANGED <<file, image, kind, live, perf, out, failed>>

\* The result is written to a file, or measured by perf_counter.
FilterDone ==
  /\ pc = "pixels"
  /\ index >= Count
  /\ pc' = IF Perf THEN "measure" ELSE "to_bmp"
  /\ UNCHANGED <<file, image, filter, live, perf, out, failed>>

-----------------------------------------------------------------------------
(* perf_counter                                                            *)

\* Mistake: both filters' times go to the statistics of the C filter.
Measure_OneAccount ==
  /\ pc = "measure"
  /\ \E d \in Durations :
       /\ times' = [times EXCEPT ![kind] = Append(@, d)]
       /\ stats' = [stats EXCEPT !["c"] =
                      [min |-> IF d < @.min THEN d ELSE @.min,
                       max |-> IF d > @.max THEN d ELSE @.max,
                       sum |-> @.sum + d]]
  /\ IF kind = "c"
     THEN kind' = "sse" /\ pc' = "filter" /\ UNCHANGED test
     ELSE /\ kind' = "c"
          /\ test' = test + 1
          /\ pc' = IF test + 1 = TestsNum THEN "free" ELSE "filter"
  /\ UNCHANGED <<file, image, index, results, live, out, failed>>

\* The time of the filter that has run; the images it made are not freed.
Measure ==
  /\ pc = "measure"
  /\ \E d \in Durations :
       /\ times' = [times EXCEPT ![kind] = Append(@, d)]
       /\ stats' = [stats EXCEPT ![kind] =
                      [min |-> IF d < @.min THEN d ELSE @.min,
                       max |-> IF d > @.max THEN d ELSE @.max,
                       sum |-> @.sum + d]]
  /\ IF kind = "c"
     THEN kind' = "sse" /\ pc' = "filter" /\ UNCHANGED test
     ELSE /\ kind' = "c"
          /\ test' = test + 1
          /\ pc' = IF test + 1 = TestsNum THEN "free" ELSE "filter"
  /\ UNCHANGED <<file, image, index, results, live, out, failed>>

-----------------------------------------------------------------------------
(* to_bmp and the end                                                      *)

\* init_bmp_header: here the padding is counted in bytes.
SepiaHeader(width, height) ==
  LET bytes == ((PixelSize * width + GetPadding(width)) * height) % WordMod IN
  [bfileSize |-> (bytes + HeaderBytes) % FieldMod, bOffBits |-> HeaderBytes,
   biWidth |-> width, biHeight |-> height, biSizeImage |-> bytes % FieldMod]

\* Mistake: rows are written without the padding.
Raster_NoPadding(array) == array

\* The rows of an array, each with its padding of zeroes.
Raster(array) ==
  [k \in 1 .. Stride(size.width) * size.height |->
     LET r == (k - 1) \div Stride(size.width)
         at == (k - 1) % Stride(size.width)
     IN IF at < RowSize THEN array[r * RowSize + at + 1] ELSE 0]

\* to_bmp and close_file.  A stream that was not opened is refused by to_bmp
\* and then closed, which crashes; results of fwrite are not looked at, so the
\* file may end after any row.
ToBmp ==
  LET header == SepiaHeader(size.width, size.height) IN
  /\ pc = "to_bmp"
  /\ IF "open" \in failed
     THEN pc' = "crashed" /\ UNCHANGED <<out, failed>>
     ELSE \/ /\ out' = [headers |-> <<header>>, body |-> Raster(results[kind])]
             /\ pc' = "free"
             /\ UNCHANGED failed
          \/ /\ \E rows \in 0 .. size.height, n \in 0 .. 1 :
                  out' = [headers |-> SubSeq(<<header>>, 1, n),
                          body |-> SubSeq(Raster(results[kind]), 1, rows * Stride(size.width))]
             /\ failed' = failed \union {"write"}
             /\ pc' = "free"
          \/ /\ size.height > 0   \* no memory for the padding
             /\ pc' = "crashed"
             /\ UNCHANGED <<out, failed>>
  /\ UNCHANGED <<file, image, filter, live, perf>>

\* Mistake: only the image that was read is freed.
Freed_OriginalOnly == {Original}

\* What is freed at the end: perf_counter frees the original only.
Freed == IF Perf THEN {Original} ELSE {Original, <<kind, test>>}

Exit ==
  /\ pc = "free"
  /\ live' = live \ Freed
  /\ pc' = "done"
  /\ UNCHANGED <<file, image, filter, perf, out, failed>>

Next ==
  \/ Main \/ OpenIn \/ ReadHeader \/ AllocPixelArray \/ ReadRow \/ ReadDone
  \/ OpenOut \/ AllocOutput \/ FilterStep \/ FilterDone \/ Measure \/ ToBmp \/ Exit

Spec == Init /\ [][Next]_vars

-----------------------------------------------------------------------------
(* What a run must keep to.                                                *)

TypeOK ==
  /\ pc \in {"main", "usage", "open_in", "header", "alloc", "read_row", "open_out", "filter",
             "pixels", "measure", "to_bmp", "free", "done", "crashed", "out_of_bounds"}
  /\ size \in [width : 0 .. FieldMod - 1, height : 0 .. FieldMod - 1]
  /\ pixels \in Seq(0 .. 255) \union {NullArray}
  /\ results \in [{"c", "sse"} -> Seq(Unset .. 255)]
  /\ index \in 0 .. Count
  /\ pos \in Nat /\ row \in 0 .. size.height
  /\ test \in 0 .. TestsNum
  /\ live \subseteq {Original} \union ({"c", "sse"} \X (0 .. TestsNum - 1))
  /\ failed \subseteq {"read", "open", "write"}

\* The picture fits 32 bit indices.
Indexable == Count <= FieldMod

Distance(x, y) == IF x >= y THEN x - y ELSE y - x

\* The sepia value of channel n (b, g, r) of a pixel, in ten-thousandths.
Exact(pixel, n) ==
  LET coeff == <<Coefficients.b, Coefficients.g, Coefficients.r>>[n]
      sum == 10 * (pixel[3] * coeff[1] + pixel[2] * coeff[2] + pixel[1] * coeff[3])
  IN IF sum < 255 * One THEN sum ELSE 255 * One

\* Whichever filter has run, and whatever the number of pixels is modulo four:
\* every channel of every pixel was written, at its own place, with the product
\* of the sepia matrix and its own pixel, to within one.
EveryPixelFiltered ==
  (pc \in {"measure", "to_bmp"} /\ Indexable) =>
    \A i \in 0 .. Count - 1, n \in 1 .. 3 :
      Distance(One * results[kind][PixelSize * i + n], Exact(PixelOf(pixels, i), n)) <= One

\* README.md: "both C and assembly versions produce similar results": on the
\* same image they differ by one in a channel at most.
SseLikeC ==
  (pc = "measure" /\ kind = "sse") =>
    \A k \in 1 .. PixelSize * Count : Distance(results["c"][k], results["sse"][k]) <= 1

\* When no call has failed, the file written is a BMP of the size of the source
\* whose raster, padding included, is as long as its header says and holds the
\* filtered pixels row by row.
OutputIsPicture ==
  (pc = "done" /\ ~Perf /\ failed = {}) =>
    /\ Len(out.headers) = 1
    /\ SizesAgree(out.headers[1])
    /\ out.headers[1].biSizeImage = Len(out.body) % FieldMod
    /\ LET picture == ImageAt(out.body, input.width, input.height, Stride(input.width))
       IN \A i \in 0 .. Count - 1 : picture.pixels[i] = PixelOf(results[kind], i) \/ ~Indexable

\* However the run went, when it comes to its end the images of make_sepia are
\* freed; of perf_counter only the original is.
ImagesFreed == pc = "done" => live = {} \/ (Perf /\ Original \notin live)

Sum(s) ==
  LET sum[i \in 0 .. Len(s)] == IF i = 0 THEN 0 ELSE sum[i - 1] + s[i] IN sum[Len(s)]

\* The table perf_counter prints is that of the measured times of each filter:
\* none is left out, counted twice or put to the other filter's account.  The
\* minimum is one of the times only if a run was faster than the initial value.
StatsOfRuns ==
  \A k \in {"c", "sse"} :
    LET measured == {times[k][i] : i \in DOMAIN times[k]} IN
    /\ stats[k].sum = Sum(times[k])
    /\ stats[k].max \in measured \union {0} /\ \A t \in measured : t <= stats[k].max
    /\ stats[k].min \in measured \union {MinStart} /\ \A t \in measured : stats[k].min <= t
    /\ (pc = "free" /\ Perf) => Len(times[k]) = TestsNum
=============================================================================
