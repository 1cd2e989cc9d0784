------------------------------- MODULE Planar -------------------------------
(***************************************************************************)
(* The pixels of a frame, from the captured surface to the encoder's       *)
(* pixel buffer, and from the decoder to the viewer's window.              *)
(*                                                                         *)
(* The host converts BGRA rows, which may be padded, to a luma plane and   *)
(* chroma samples at half the resolution (rda-encode/convert.rs), in Q16   *)
(* arithmetic, and copies the planes into a buffer whose rows are padded   *)
(* too (rda-encode/backend/videotoolbox.rs). The viewer drops the padding  *)
(* of a decoded frame (rda-client/viewer.rs).                              *)
(*                                                                         *)
(* Coordinates and byte offsets are counted from 0. A pixel is             *)
(* <<red, green, blue>>.                                                   *)
(***************************************************************************)
EXTENDS Integers

CONSTANTS
    Sources,             \* [width, height, stride, length, pixels], pixels[<<x, y>>]
    Settings,            \* [matrix, range, chroma, format]
    Alignments,          \* what a row of the pixel buffer has more (less) than it needs
    MAX_SIDE,            \* the largest side validate accepts
    Unwritten            \* a byte of an output that nothing was written to

\* The red, green and blue of a pixel.
Colour == [1..3 -> 0..255]

ASSUME PlanarAssumption ==
    /\ MAX_SIDE \in Nat /\ Unwritten \notin Int
    /\ \A s \in Sources :
         /\ s.width \in Nat /\ s.height \in Nat /\ s.stride \in Nat /\ s.length \in Nat
         /\ \A x \in 0..(s.width - 1), y \in 0..(s.height - 1) : s.pixels[<<x, y>>] \in Colour
    /\ Settings \subseteq [matrix : {"Bt709", "Bt601"}, range : {"Full", "Limited"},
                           chroma : {"Box", "Nearest"}, format : {"Nv12", "I420"}]
    /\ Alignments \subseteq Int

VARIABLES
    source,              \* the buffer that is converted
    setting,             \* PlanarFormat and ConvertConfig
    stage,               \* where the conversion is, or how it ended
    row,                 \* the next row of the plane that is written
    planes,              \* PlanarFrame::data
    pixelBuffer          \* of each plane: stride and bytes

planarVars == <<source, setting, stage, row, planes, pixelBuffer>>

NoBytes == [i \in {} |-> Unwritten]
Blank(n) == [i \in 0..(n - 1) |-> Unwritten]
\* Half of n, rounded up: a side of the chroma planes.
HalfOf(n) == (n + 1) \div 2

Width == source.width
Height == source.height
LumaSize == Width * Height
ChromaSize == HalfOf(Width) * HalfOf(Height)

PlanarInit ==
    /\ source \in Sources
    /\ setting \in Settings
    /\ stage = "new" /\ row = 0
    /\ planes = NoBytes /\ pixelBuffer = <<>>

-----------------------------------------------------------------------------
(* One pixel                                                               *)

Coefficients(matrix) ==
    IF matrix = "Bt709"
      THEN [yr |-> 13933, yg |-> 46871, yb |-> 4732, cb |-> 35318, cr |-> 41615]
      ELSE [yr |-> 19595, yg |-> 38470, yb |-> 7471, cb |-> 36985, cr |-> 46743]

\* A sum in Q16, rounded: (v + ROUND) >> SHIFT.
Rounded(v) == (v + 32768) \div 65536
\* Rust's division, which truncates.
Truncated(a, b) == IF a < 0 THEN -((-a) \div b) ELSE a \div b
Clamped(v, low, high) == IF v < low THEN low ELSE IF v > high THEN high ELSE v

Brightness(c, rgb) == Rounded(c.yr * rgb[1] + c.yg * rgb[2] + c.yb * rgb[3])

Luma(c, range, rgb) ==
    LET y == Brightness(c, rgb)
    IN  IF range = "Full" THEN Clamped(y, 0, 255)
        ELSE Clamped(16 + (y * 219 + 127) \div 255, 16, 235)

\* A colour difference of either kind, in the range asked for.
Difference(range, factor, value, y) ==
    LET d == Rounded(factor * (value - y))
    IN  IF range = "Full" THEN Clamped(d + 128, 0, 255)
        ELSE Clamped(128 + Truncated(d * 224 + 127, 255), 16, 240)

Chroma(c, range, rgb) ==
    LET y == Brightness(c, rgb)
    IN  [cb |-> Difference(range, c.cb, rgb[3], y), cr |-> Difference(range, c.cr, rgb[1], y)]

-----------------------------------------------------------------------------
(* Reading the source                                                      *)

\* The bytes of the source: rows of BGRA, then whatever fills them up.
Byte(i) ==
    LET k == i % source.stride
        y == i \div source.stride
    IN  IF k < 4 * Width /\ k % 4 < 3 /\ y < Height
          THEN source.pixels[<<k \div 4, y>>][3 - (k % 4)]
          ELSE 170

PixelAt(i) == <<Byte(i + 2), Byte(i + 1), Byte(i)>>

\* Mutant: rows are taken to follow each other without padding.
PackedOffset(x, y) == y * Width * 4 + x * 4

\* Where the pixel is, as sample_pixel, average_block and the luma loop compute it.
Offset(x, y) == y * source.stride + x * 4

\* The pixels of the 2x2 block, the last column or row twice where there is no other.
Block(x, y) ==
    LET x1 == IF x + 1 < Width THEN x + 1 ELSE Width - 1
        y1 == IF y + 1 < Height THEN y + 1 ELSE Height - 1
    IN  <<PixelAt(Offset(x, y)), PixelAt(Offset(x1, y)),
          PixelAt(Offset(x, y1)), PixelAt(Offset(x1, y1))>>

AverageBlock(x, y) ==
    LET b == Block(x, y)
    IN  [k \in 1..3 |-> (b[1][k] + b[2][k] + b[3][k] + b[4][k] + 2) \div 4]

Sample(x, y) ==
    IF setting.chroma = "Nearest" THEN PixelAt(Offset(x, y)) ELSE AverageBlock(x, y)

-----------------------------------------------------------------------------
(* The conversion                                                          *)

\* The bytes the geometry needs: the last row without its padding.
Need == source.stride * (Height - 1) + Width * 4

Validate ==
    /\ stage = "new"
    /\ stage' = CASE Width = 0 \/ Height = 0 \/ Width > MAX_SIDE \/ Height > MAX_SIDE -> "BadDimensions"
                  [] source.stride < Width * 4 -> "BadStride"
                  [] source.length < Need -> "SourceTooSmall"
                  [] OTHER -> "luma"
    /\ planes' = IF stage' = "luma" THEN Blank(LumaSize + 2 * ChromaSize) ELSE planes
    /\ UNCHANGED <<source, setting, row, pixelBuffer>>

\* A read past the end of a slice panics.
Panics(last) == last >= source.length

NextRow(rows, then) ==
    IF row + 1 < rows THEN row' = row + 1 /\ stage' = stage ELSE row' = 0 /\ stage' = then

\* One row of the luma loop.
LumaRow ==
    /\ stage = "luma"
    /\ IF Panics(Offset(Width - 1, row) + 3)
         THEN stage' = "panicked" /\ UNCHANGED <<row, planes>>
         ELSE /\ NextRow(Height, "chroma")
              /\ planes' = [i \in DOMAIN planes |->
                              IF i \in (row * Width)..((row + 1) * Width - 1)
                                THEN Luma(Coefficients(setting.matrix), setting.range,
                                          PixelAt(Offset(i - row * Width, row)))
                                ELSE planes[i]]
    /\ UNCHANGED <<source, setting, pixelBuffer>>

\* Where sample <<cx, cy>> goes: side by side (NV12), or each kind in a plane (I420).
CbIndex(cx, cy) ==
    LET n == cy * HalfOf(Width) + cx IN LumaSize + (IF setting.format = "Nv12" THEN 2 * n ELSE n)
CrIndex(cx, cy) ==
    CbIndex(cx, cy) + (IF setting.format = "Nv12" THEN 1 ELSE ChromaSize)

\* One row of the chroma loop. The block of a sample is inside the picture, so that
\* what the luma rows could read can be read again.
ChromaRow ==
    /\ stage = "chroma"
    /\ NextRow(HalfOf(Height), "converted")
    /\ LET columns == 0..(HalfOf(Width) - 1)
           made(cx) == Chroma(Coefficients(setting.matrix), setting.range, Sample(2 * cx, 2 * row))
           cbs == [i \in {CbIndex(cx, row) : cx \in columns} |->
                     made(CHOOSE cx \in columns : CbIndex(cx, row) = i).cb]
           crs == [i \in {CrIndex(cx, row) : cx \in columns} |->
                     made(CHOOSE cx \in columns : CrIndex(cx, row) = i).cr]
       IN  planes' = [i \in DOMAIN planes |->
                        IF i \in DOMAIN cbs THEN cbs[i]
                        ELSE IF i \in DOMAIN crs THEN crs[i] ELSE planes[i]]
    /\ UNCHANGED <<source, setting, pixelBuffer>>

\* luma_stride and chroma_stride; of NV12, which alone is copied, also the bytes of a row.
LumaStride == Width
ChromaStride == HalfOf(Width) * (IF setting.format = "Nv12" THEN 2 ELSE 1)

\* CoreVideo (external): each plane has a stride of the buffer's choosing.
CopiedPlane(first, stride, rows, rowBytes) ==
    [stride |-> stride,
     bytes |-> [i \in 0..(rows * stride - 1) |->
                  IF i % stride < rowBytes
                    THEN planes[first + (i \div stride) * rowBytes + (i % stride)]
                    ELSE Unwritten]]

\* make_pixel_buffer and copy_planes: row by row, with both strides.
CopyPlanes ==
    /\ stage = "converted"
    /\ IF setting.format # "Nv12" THEN stage' = "BadConfig" /\ UNCHANGED pixelBuffer
       ELSE \E more \in Alignments :
              IF more < 0 THEN stage' = "StrideTooSmall" /\ UNCHANGED pixelBuffer
              ELSE /\ stage' = "copied"
                   /\ pixelBuffer' =
                        <<CopiedPlane(0, LumaStride + more, Height, LumaStride),
                          CopiedPlane(LumaSize, ChromaStride + more, HalfOf(Height), ChromaStride)>>
    /\ UNCHANGED <<source, setting, row, planes>>

\* Framebuffer::from_decoded, of a frame the decoder filled to the end of its last row, in
\* rows that have room for their pixels.
FromDecoded ==
    /\ stage = "new" /\ Width > 0 /\ Height > 0
    /\ source.stride >= 4 * Width /\ source.length = source.stride * Height
    /\ stage' = "shown"
    /\ planes' = [i \in 0..(LumaSize - 1) |-> PixelAt(Offset(i % Width, i \div Width))]
    /\ UNCHANGED <<source, setting, row, pixelBuffer>>

PlanarNext == Validate \/ LumaRow \/ ChromaRow \/ CopyPlanes \/ FromDecoded

PlanarSpec == PlanarInit /\ [][PlanarNext]_planarVars

-----------------------------------------------------------------------------

\* The weights of red, green and blue in the standards, in ten-thousandths.
Weights(matrix) == IF matrix = "Bt709" THEN <<2126, 7152, 722>> ELSE <<2990, 5870, 1140>>
Weighted(rgb) ==
    LET w == Weights(setting.matrix) IN w[1] * rgb[1] + w[2] * rgb[2] + w[3] * rgb[3]

CloseTo(v, num, den, units) == v * den - num <= units * den /\ num - v * den <= units * den

\* v is the luma of the colour to the nearest code values on either side.
LumaIsTrue(v, rgb) ==
    IF setting.range = "Full" THEN v \in 0..255 /\ CloseTo(v, Weighted(rgb), 10000, 1)
    ELSE v \in 16..235 /\ CloseTo(v - 16, 219 * Weighted(rgb), 2550000, 1)

\* v is the colour difference of channel k of the block (four pixels, added up): to two
\* code values, since the average, the luma and the difference are each rounded; and to
\* three in limited range, where the division truncates what is negative towards grey.
DifferenceIsTrue(v, k, sum) ==
    LET den == 2 * (10000 - Weights(setting.matrix)[k])
        num == 10000 * sum[k] - Weighted(sum)
    IN  IF setting.range = "Full" THEN v \in 0..255 /\ CloseTo(v - 128, num, 4 * den, 2)
        ELSE v \in 16..240 /\ CloseTo(v - 128, 56 * num, 255 * den, 3)

\* The pixels sample <<cx, cy>> stands for, added up.
BlockSum(cx, cy) ==
    LET x(i) == IF setting.chroma = "Nearest" \/ 2 * cx + i >= Width THEN 2 * cx ELSE 2 * cx + i
        y(j) == IF setting.chroma = "Nearest" \/ 2 * cy + j >= Height THEN 2 * cy ELSE 2 * cy + j
    IN  [k \in 1..3 |-> source.pixels[<<x(0), y(0)>>][k] + source.pixels[<<x(1), y(0)>>][k]
                          + source.pixels[<<x(0), y(1)>>][k] + source.pixels[<<x(1), y(1)>>][k]]

\* What a reader of the planes finds for a pixel: of NV12 in the pixel buffer, of either
\* layout in the frame itself.
LumaRead(x, y) ==
    IF stage = "copied" THEN pixelBuffer[1].bytes[y * pixelBuffer[1].stride + x]
    ELSE planes[y * LumaStride + x]
ChromaRead(cx, cy) ==
    CASE stage = "copied" ->
           LET at == cy * pixelBuffer[2].stride + 2 * cx
           IN  <<pixelBuffer[2].bytes[at], pixelBuffer[2].bytes[at + 1]>>
      [] stage # "copied" /\ setting.format = "Nv12" ->
           LET at == LumaSize + cy * ChromaStride + 2 * cx IN <<planes[at], planes[at + 1]>>
      [] OTHER ->
           LET at == LumaSize + cy * ChromaStride + cx IN <<planes[at], planes[at + ChromaSize]>>

\* The encoder sees the colours of the screen: whatever the padding of the rows, the odd
\* sides and the layout, the luma read for a pixel and the chroma read for a block are
\* those the standard defines, up to rounding; grey has no colour; every byte of the frame
\* is written. A buffer that validate lets through is never read past its end
\* (bgra_to_planar, copy_planes), and the window shows each pixel where the decoder put it
\* (from_decoded).
PlanesAreTrue ==
    /\ stage # "panicked"
    /\ stage \in {"converted", "copied"} =>
         /\ \A i \in DOMAIN planes : planes[i] # Unwritten
         /\ \A x \in 0..(Width - 1), y \in 0..(Height - 1) :
              LumaIsTrue(LumaRead(x, y), source.pixels[<<x, y>>])
         /\ \A cx \in 0..(HalfOf(Width) - 1), cy \in 0..(HalfOf(Height) - 1) :
              LET sum == BlockSum(cx, cy)
              IN  /\ DifferenceIsTrue(ChromaRead(cx, cy)[1], 3, sum)
                  /\ DifferenceIsTrue(ChromaRead(cx, cy)[2], 1, sum)
                  /\ (sum[1] = sum[2] /\ sum[2] = sum[3]) => ChromaRead(cx, cy) = <<128, 128>>
    /\ stage = "shown" =>
         \A x \in 0..(Width - 1), y \in 0..(Height - 1) : planes[y * Width + x] = source.pixels[<<x, y>>]
=============================================================================
