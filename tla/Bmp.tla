-------------------------------- MODULE Bmp --------------------------------
(***************************************************************************)
(* Images and the BMP format of assignment-image-rotation: bmp.c, image.c  *)
(* and rotate.c as pure functions.  A file body is a sequence of bytes and *)
(* a byte is whatever the caller puts there; an image is its two sizes and *)
(* its pixel array, indexed row * width + col as in get_pixel.             *)
(***************************************************************************)
EXTENDS Integers, Sequences

CONSTANTS
  WordMod,    \* SIZE_MAX + 1: size_t arithmetic is modulo WordMod
  FieldMod    \* 2^32: the header fields are uint32_t

ASSUME WordsAssumption ==
  /\ WordMod \in Nat \ {0}
  /\ FieldMod \in Nat \ {0}
  /\ FieldMod <= WordMod

PADDING == 4
PixelSize == 3      \* sizeof(struct pixel), BIT_COUNT / 8
HeaderBytes == 54   \* sizeof(struct bmp_header), packed
RESERVED == 0

\* The empty space after each row: never zero, a whole word for aligned rows.
GetPadding(width) == PADDING - ((width * PixelSize) % PADDING)

\* What the fields of init_bmp_header say of the sizes.  The padding is
\* counted in pixels, and the sums are cut to 32 bits.
InitBmpHeader(width, height) ==
  LET size == (PixelSize * (width + GetPadding(width)) * height) % WordMod IN
  [bfileSize |-> (size + RESERVED + HeaderBytes) % FieldMod,
   bOffBits |-> HeaderBytes,
   biWidth |-> width % FieldMod,
   biHeight |-> height % FieldMod,
   biSizeImage |-> size % FieldMod]

\* The last check of read_bmp_header.
SizesAgree(header) ==
  header.bfileSize = (header.bOffBits + header.biSizeImage) % FieldMod

\* Mistake: the size of a pixel is left out.
AllocSize_PixelsNotBytes(width, height) == (width * height) % WordMod

\* The bytes malloc is asked for.
AllocSize(width, height) == (width * height * PixelSize) % WordMod

\* Mistake: the image is turned clockwise in place of its columns.
RotateImage_Mirrored(source) ==
  LET dw == source.height
      dh == source.width
  IN [width |-> dw, height |-> dh,
      pixels |-> [k \in 0 .. dw * dh - 1 |->
                    LET i == k \div dw
                        j == k % dw
                    IN source.pixels[j * source.width + i]]]

\* rotate_image: pixel (j, i) of the result is pixel (i, height - 1 - j).
RotateImage(source) ==
  LET dw == source.height
      dh == source.width
  IN [width |-> dw, height |-> dh,
      pixels |-> [k \in 0 .. dw * dh - 1 |->
                    LET i == k \div dw
                        j == k % dw
                    IN source.pixels[(dw - j - 1) * source.width + i]]]

\* The bytes of a row of pixels; a pixel is a sequence of PixelSize bytes.
RowBytes(pixels, width, row) ==
  [b \in 1 .. width * PixelSize |->
     pixels[row * width + (b - 1) \div PixelSize][((b - 1) % PixelSize) + 1]]

\* The image whose rows lie `stride` bytes apart in a body.
ImageAt(body, width, height, stride) ==
  [width |-> width, height |-> height,
   pixels |-> [k \in 0 .. width * height - 1 |->
                 LET at == (k \div width) * stride + (k % width) * PixelSize
                 IN [c \in 1 .. PixelSize |-> body[at + c]]]]

\* A body is complete when all its rows, without the last padding, are there.
Complete(body, width, height, stride) ==
  height = 0 \/ Len(body) >= (height - 1) * stride + width * PixelSize

\* The distance of two rows as the program reads and writes them.
Stride(width) == width * PixelSize + GetPadding(width)

\* The distance of two rows as README.md defines it: rounded up to a multiple
\* of four, nothing added to rows that are aligned.
ReadmeStride(width) ==
  LET bytes == width * PixelSize
      over == bytes % PADDING
  IN IF over = 0 THEN bytes ELSE bytes + PADDING - over
=============================================================================
