-------------------------- MODULE ImageTransformer --------------------------
(***************************************************************************)
(* One run of image-transformer (assignment-image-rotation): main.c,       *)
(* bmp.c, bmp_reader.c and bmp_writer.c, one action per library call that  *)
(* may fail.  The file system, malloc and the stdio buffer are the         *)
(* environment: every call may fail whenever it likes.                     *)
(***************************************************************************)
EXTENDS Bmp, FiniteSets

CONSTANT Inputs      \* the source files a run may be given

\* A source file: `header` is whether it is long enough for one, `signed` is
\* bfType = TYPE, `sizes` the result of the size check of the header, `width`
\* and `height` are its uint32_t fields, and `body` is what follows at bOffBits.
InputType ==
  [exists : BOOLEAN, header : BOOLEAN, signed : BOOLEAN, sizes : BOOLEAN,
   width : 0 .. FieldMod - 1, height : 0 .. FieldMod - 1, body : Seq(Nat)]

ASSUME InputsAssumption == Inputs \subseteq InputType

\* enum read_status and enum write_status
READ_OK == 0
READ_INVALID_SIGNATURE == 1
READ_INVALID_BITS == 2
READ_INVALID_HEADER == 3
READ_ERROR == 4
WRITE_OK == 0
WRITE_HEADER_ERROR == 1
WRITE_PIXELS_ERROR == 2
WRITE_ERROR == 3

None == "none"      \* a null pixel pointer
Buffers == {"source", "dest"}

VARIABLES
  pc,       \* the next call
  input,    \* the source file
  pos,      \* read position in its body
  row,      \* i of the row loops
  pixels,   \* the pixel array read so far
  image,    \* struct image source: the sizes and the buffer `pixels` points to
  dest,     \* struct image dest, with its pixels
  status,   \* rs, later w_status
  live,     \* buffers allocated and not freed
  out,      \* the destination file: headers (none or one) and body
  lost      \* whether bytes were lost in fclose

vars == <<pc, input, pos, row, pixels, image, dest, status, live, out, lost>>

NoImage == [width |-> 0, height |-> 0, pixels |-> <<>>]
NoFile == [headers |-> <<>>, body |-> <<>>]

Init ==
  /\ pc = "open_in"
  /\ input \in Inputs
  /\ pos = 0
  /\ row = 0
  /\ pixels = <<>>
  /\ image = [width |-> 0, height |-> 0, buffer |-> None]
  /\ dest = NoImage
  /\ status = READ_OK
  /\ live = {}
  /\ out = NoFile
  /\ lost = FALSE

-----------------------------------------------------------------------------
(* Reading.                                                                *)

ReadFails(s) ==
  /\ pc' = "close_in"
  /\ status' = s

\* fopen(in, "r"), then from_bmp.  A stream that could not be opened makes
\* read_bmp_header return READ_ERROR, and from_bmp_name closes it all the same.
OpenIn ==
  /\ pc = "open_in"
  /\ \/ input.exists /\ pc' = "header" /\ UNCHANGED status
     \/ pc' = "close_null" /\ status' = READ_ERROR
  /\ UNCHANGED <<input, pos, row, pixels, image, dest, live, out, lost>>

\* fclose(NULL): undefined, and a crash in practice.
CloseNull ==
  /\ pc = "close_null"
  /\ pc' = "crashed"
  /\ UNCHANGED <<input, pos, row, pixels, image, dest, status, live, out, lost>>

\* read_bmp_header, and the sizes from_bmp takes from the header.
ReadBmpHeader ==
  /\ pc = "header"
  /\ \/ /\ ReadFails(READ_ERROR)
        /\ UNCHANGED image
     \/ /\ input.header /\ ~input.signed
        /\ ReadFails(READ_INVALID_SIGNATURE)
        /\ UNCHANGED image
     \/ /\ input.header /\ input.signed /\ ~input.sizes
        /\ ReadFails(READ_INVALID_HEADER)
        /\ UNCHANGED image
     \/ /\ input.header /\ input.signed /\ input.sizes
        /\ image' = [image EXCEPT !.width = input.width, !.height = input.height]
        /\ pc' = "alloc"
        /\ UNCHANGED status
  /\ UNCHANGED <<input, pos, row, pixels, dest, live, out, lost>>

\* Mistake: a failed malloc counts as an array.
AllocPixels_NullCounted ==
  /\ pc = "alloc"
  /\ \/ live' = live \union {"source"}
     \/ live' = live \union {None}
  /\ pc' = "seek"
  /\ UNCHANGED <<input, pos, row, pixels, image, dest, status, out, lost>>

\* alloc_pixels and the seek to bOffBits.  malloc is not checked: a null array
\* is noticed only by the first row that is read into it.
AllocPixels ==
  /\ pc = "alloc"
  /\ \/ live' = live \union {"source"}
     \/ live' = live
  /\ pc' = "seek"
  /\ UNCHANGED <<input, pos, row, pixels, image, dest, status, out, lost>>

SeekBody ==
  /\ pc = "seek"
  /\ \/ ReadFails(READ_ERROR) /\ UNCHANGED pos
     \/ pc' = "read_row" /\ pos' = 0 /\ UNCHANGED status
  /\ UNCHANGED <<input, row, pixels, image, dest, live, out, lost>>

\* fread of one row: it needs all its bytes, and room for them in the array.  A
\* row of no bytes is read wherever the file ends.
\* On failure the pixels of *image* are freed, which are still none.
ReadRow ==
  LET bytes == image.width * PixelSize IN
  /\ pc = "read_row"
  /\ row < image.height
  /\ IF bytes > 0 /\ "source" \notin live
     THEN pc' = "crashed" /\ UNCHANGED <<pos, pixels, status>>
     ELSE IF (row + 1) * bytes > AllocSize(image.width, image.height)
     THEN pc' = "out_of_bounds" /\ UNCHANGED <<pos, pixels, status>>
     ELSE \/ image.width > 0 /\ ReadFails(READ_INVALID_BITS) /\ UNCHANGED <<pos, pixels>>
          \/ /\ bytes = 0 \/ Len(input.body) >= pos + bytes
             /\ pixels' = pixels \o
                  [k \in 1 .. image.width |->
                     [c \in 1 .. PixelSize |-> input.body[pos + (k - 1) * PixelSize + c]]]
             /\ pos' = pos + bytes
             /\ pc' = "read_pad"
             /\ UNCHANGED status
  /\ UNCHANGED <<input, row, image, dest, live, out, lost>>

\* fseek over the padding; seeking beyond the end of the file succeeds.
SkipPadding ==
  /\ pc = "read_pad"
  /\ \/ ReadFails(READ_INVALID_BITS) /\ UNCHANGED <<pos, row>>
     \/ /\ pos' = pos + GetPadding(image.width)
        /\ row' = row + 1
        /\ pc' = "read_row"
        /\ UNCHANGED status
  /\ UNCHANGED <<input, pixels, image, dest, live, out, lost>>

\* Mistake: the new pixels are freed in place of the old ones.
SetPixels_FreesNew ==
  /\ pc = "read_row"
  /\ row = image.height
  /\ image' = [image EXCEPT !.buffer = IF "source" \in live THEN "source" ELSE None]
  /\ live' = live \ {"source"}
  /\ status' = READ_OK
  /\ pc' = "close_in"
  /\ UNCHANGED <<input, pos, row, pixels, dest, out, lost>>

\* After the last row the old pixels are freed and the new ones handed over.
SetPixels ==
  /\ pc = "read_row"
  /\ row = image.height
  /\ image' = [image EXCEPT !.buffer = IF "source" \in live THEN "source" ELSE None]
  /\ status' = READ_OK
  /\ pc' = "close_in"
  /\ UNCHANGED <<input, pos, row, pixels, dest, live, out, lost>>

\* fclose of the source, and main's look at the read status.
CloseIn ==
  /\ pc = "close_in"
  /\ pc' = IF status = READ_OK THEN "rotate" ELSE "free_failed"
  /\ row' = 0
  /\ UNCHANGED <<input, pos, pixels, image, dest, status, live, out, lost>>

-----------------------------------------------------------------------------
(* Rotating.                                                               *)

SourceImage ==
  [width |-> image.width, height |-> image.height,
   pixels |-> [k \in 0 .. image.width * image.height - 1 |-> pixels[k + 1]]]

\* rotate_image; malloc is not checked here either.
Rotate ==
  /\ pc = "rotate"
  /\ \/ /\ live' = live \union {"dest"}
        /\ dest' = RotateImage(SourceImage)
        /\ pc' = "open_out"
     \/ /\ UNCHANGED live
        /\ IF image.width * image.height > 0
           THEN pc' = "crashed" /\ UNCHANGED dest
           ELSE pc' = "open_out" /\ dest' = RotateImage(SourceImage)
  /\ UNCHANGED <<input, pos, row, pixels, image, status, out, lost>>

-----------------------------------------------------------------------------
(* Writing.                                                                *)

OpenOut ==
  /\ pc = "open_out"
  /\ \/ pc' = "write_header" /\ UNCHANGED status
     \/ pc' = "close_null" /\ status' = WRITE_ERROR
  /\ UNCHANGED <<input, pos, row, pixels, image, dest, live, out, lost>>

WriteFails(s) ==
  /\ pc' = "close_out"
  /\ status' = s
  /\ UNCHANGED <<out, row>>

WriteBmpHeader ==
  /\ pc = "write_header"
  /\ \/ WriteFails(WRITE_HEADER_ERROR)
     \/ /\ out' = [out EXCEPT !.headers = <<InitBmpHeader(dest.width, dest.height)>>]
        /\ pc' = "write_row"
        /\ UNCHANGED <<row, status>>
  /\ UNCHANGED <<input, pos, pixels, image, dest, live, lost>>

WriteRow ==
  /\ pc = "write_row"
  /\ row < dest.height
  /\ \/ dest.width > 0 /\ WriteFails(WRITE_PIXELS_ERROR)
     \/ /\ out' = [out EXCEPT !.body = @ \o RowBytes(dest.pixels, dest.width, row)]
        /\ pc' = "write_pad"
        /\ UNCHANGED <<row, status>>
  /\ UNCHANGED <<input, pos, pixels, image, dest, live, lost>>

\* The padding is filled with the first bytes of the row just written, which
\* must have as many.
WritePadding ==
  LET n == GetPadding(dest.width)
      rest == (dest.height - row) * dest.width * PixelSize
  IN
  /\ pc = "write_pad"
  /\ IF n > rest
     THEN pc' = "out_of_bounds" /\ UNCHANGED <<out, row, status>>
     ELSE \/ WriteFails(WRITE_PIXELS_ERROR)
          \/ /\ out' = [out EXCEPT !.body =
                          @ \o SubSeq(RowBytes(dest.pixels, dest.width, row), 1, n)]
             /\ row' = row + 1
             /\ pc' = "write_row"
             /\ UNCHANGED status
  /\ UNCHANGED <<input, pos, pixels, image, dest, live, lost>>

WriteDone ==
  /\ pc = "write_row"
  /\ row = dest.height
  /\ status' = WRITE_OK
  /\ pc' = "close_out"
  /\ UNCHANGED <<input, pos, row, pixels, image, dest, live, out, lost>>

\* fclose writes what stdio still holds; the end of the file is missing if
\* that fails, and its result is not looked at.
CloseOut ==
  /\ pc = "close_out"
  /\ \/ UNCHANGED <<out, lost>>
     \/ /\ out.headers # <<>>
        /\ \/ out' = NoFile
           \/ \E n \in 0 .. Len(out.body) - 1 : out' = [out EXCEPT !.body = SubSeq(@, 1, n)]
        /\ lost' = TRUE
  /\ pc' = "free_source"
  /\ UNCHANGED <<input, pos, row, pixels, image, dest, status, live>>

-----------------------------------------------------------------------------
(* Leaving main.                                                           *)

\* free_image(&source), at the end or when the read has failed.
FreeSource ==
  /\ pc \in {"free_failed", "free_source"}
  /\ IF image.buffer \in live \union {None}
     THEN /\ live' = live \ {image.buffer}
          /\ pc' = IF pc = "free_failed" THEN "done" ELSE "free_dest"
     ELSE pc' = "double_free" /\ UNCHANGED live
  /\ UNCHANGED <<input, pos, row, pixels, image, dest, status, out, lost>>

\* free_image(&dest); free(NULL) is allowed.
FreeDest ==
  /\ pc = "free_dest"
  /\ live' = live \ {"dest"}
  /\ pc' = "done"
  /\ UNCHANGED <<input, pos, row, pixels, image, dest, status, out, lost>>

Next ==
  \/ OpenIn \/ CloseNull \/ ReadBmpHeader \/ AllocPixels \/ SeekBody
  \/ ReadRow \/ SkipPadding \/ SetPixels \/ CloseIn
  \/ Rotate
  \/ OpenOut \/ WriteBmpHeader \/ WriteRow \/ WritePadding \/ WriteDone \/ CloseOut
  \/ FreeSource \/ FreeDest

Spec == Init /\ [][Next]_vars

-----------------------------------------------------------------------------
(* What a run must keep to.                                                *)

Pcs == {"open_in", "close_null", "header", "alloc", "seek", "read_row", "read_pad",
        "close_in", "rotate", "open_out", "write_header", "write_row", "write_pad",
        "close_out", "free_failed", "free_source", "free_dest", "done", "crashed",
        "out_of_bounds", "double_free"}

TypeOK ==
  /\ pc \in Pcs
  /\ input \in Inputs
  /\ pos \in Nat /\ row \in Nat
  /\ pixels \in Seq([1 .. PixelSize -> Nat])
  /\ image \in [width : Nat, height : Nat, buffer : Buffers \union {None}]
  /\ status \in READ_OK .. READ_ERROR
  /\ live \subseteq Buffers

\* Pixel in column x of line y from the top, as a viewer shows it: the rows of
\* a BMP file go from the bottom to the top.
Shown(img, x, y) == img.pixels[(img.height - 1 - y) * img.width + x]

\* What "turned by 90 degrees counterclockwise" means on the screen: the right
\* column of the source has become the top line.
TurnedLeft(src, dst) ==
  /\ dst.width = src.height
  /\ dst.height = src.width
  /\ \A x \in 0 .. dst.width - 1, y \in 0 .. dst.height - 1 :
       Shown(dst, x, y) = Shown(src, src.width - 1 - y, x)

Picture(body, width, height) == ImageAt(body, width, height, Stride(width))

\* Exit status zero means that all pixels of the source were there and that the
\* file written, read the way the program reads files, is the source turned
\* left; whatever failed on the way is reported, but for bytes lost in fclose.
ExitZeroRotates ==
  (pc = "done" /\ status = WRITE_OK /\ ~lost) =>
    /\ Len(out.headers) = 1
    /\ input.width = 0 \/ Complete(input.body, input.width, input.height, Stride(input.width))
    /\ out.headers[1].biWidth = input.height /\ out.headers[1].biHeight = input.width
    /\ SizesAgree(out.headers[1])
    /\ Complete(out.body, input.height, input.width, Stride(input.height))
    /\ TurnedLeft(Picture(input.body, input.width, input.height),
                  Picture(out.body, input.height, input.width))

\* Rows stay inside the arrays that malloc returned: they are left only when
\* the size of the array wraps around, and when the result has rows of no
\* pixels, whose padding is then read from an empty array.
RowsInBounds ==
  pc = "out_of_bounds" =>
    \/ input.width * input.height * PixelSize >= WordMod
    \/ input.width > 0 /\ input.height = 0

\* Whatever fails, no array is freed twice, and both are freed before main
\* returns; only one that was allocated for pixels that could not be read, and
\* so was never handed to the image, stays behind.
HandedOverIsFreed ==
  /\ pc # "double_free"
  /\ pc = "done" => \/ live = {}
                    \/ live = {"source"} /\ image.buffer = None /\ status # READ_OK
=============================================================================
