------------------------------- MODULE Picture -------------------------------
(***************************************************************************)
(* From a pixel of the host's screen to the viewer's window and back: the  *)
(* frame is scaled to the encoder's size (rda-encode/convert.rs, rate.rs), *)
(* drawn inside the window with bars (rda-client/viewer.rs), and a pointer *)
(* over it is sent as a fraction of the frame, which the host turns into a *)
(* point of its display (rda-input/lib.rs).  Rows and columns are treated  *)
(* alike: an axis is 1 (across) or 2 (down).                               *)
(*                                                                         *)
(* The viewer computes in f32; here a fraction is a quotient of integers,  *)
(* which is what f32 approximates.                                         *)
(***************************************************************************)
EXTENDS Integers

CONSTANTS
    NORM,                \* u16::MAX, the far edge of the frame on the wire
    MIN_DIMENSION,       \* the smallest side of an encoded frame
    Screens,             \* [pixels |-> <<across, down>>, scale |-> pixels to a
                         \* thousand points (scale_permille)]
    Percents,            \* the scales of the ladder
    WindowSizes,
    NoPoint

PERMILLE == 1000

\* A screen is larger than what an encoder accepts at least (EncoderConfig::is_valid) and
\* smaller than what validate accepts at most, a quarter of NORM (convert.rs). A point has
\* at least one pixel (rda-capture/backend/macos.rs).
ASSUME PictureAssumption ==
    /\ NORM \in Nat \ {0} /\ MIN_DIMENSION \in Nat \ {0}
    /\ NoPoint \notin Int \X Int
    /\ Percents \subseteq Nat
    /\ \A d \in Screens : /\ d.scale \in Nat /\ PERMILLE <= d.scale
                          /\ \A axis \in {1, 2} : /\ d.pixels[axis] \in Nat
                                                 /\ 2 <= d.pixels[axis] /\ d.pixels[axis] <= NORM
                                                 /\ d.scale <= PERMILLE * d.pixels[axis]
    /\ \A w \in WindowSizes : \A axis \in {1, 2} : w[axis] \in Nat \ {0}

VARIABLES
    display,             \* the host's display
    canvas,              \* the size of the frame the viewer shows
    window,              \* the size of its window
    pointer,             \* where the pointer was when the window loop last looked
    cursor               \* the point of the display it was sent to

pictureVars == <<display, canvas, window, pointer, cursor>>

Axes == {1, 2}

AtMost(a, b) == IF a < b THEN a ELSE b
AtLeast(a, b) == IF a < b THEN b ELSE a
DivCeil(a, b) == (a + b - 1) \div b
Even(n) == 2 * (n \div 2)

-----------------------------------------------------------------------------
(* The host's side of the frame                                            *)

\* The size the stream starts with, and the one the ladder scales.
EvenDimensions(pixels) == [axis \in Axes |-> Even(pixels[axis])]

\* EncoderDirective::scaled_dimensions
ScaledDimensions(native, percent) ==
    [axis \in Axes |-> AtLeast(Even((native[axis] * percent) \div 100), MIN_DIMENSION)]

\* scale_bgra: the rows (columns) of the screen, numbered from 0, that are averaged
\* into row (column) d of the frame.
SourceOf(d, to, from) ==
    LET first == (d * from) \div to
        last  == AtLeast(AtMost(DivCeil((d + 1) * from, to), from), first + 1)
    IN  first .. (last - 1)

\* convert_surface_scaled: nothing is resampled when the sizes agree.
Shown(d, to, from) == IF to = from THEN d .. d ELSE SourceOf(d, to, from)

\* DisplayInfo::logical_size: layout points, in which the input backend counts.
LogicalSize(disp) ==
    LET scale == AtLeast(disp.scale, 10)
    IN  [axis \in Axes |-> (2 * PERMILLE * disp.pixels[axis] + scale) \div (2 * scale)]

\* DisplayGeometry::denormalise, from the display's own corner: its place among the
\* others is added to every point.
Denormalise(disp, norm) ==
    [axis \in Axes |-> (norm[axis] * AtLeast(LogicalSize(disp)[axis] - 1, 0)) \div NORM]

-----------------------------------------------------------------------------
(* The viewer's side                                                       *)

\* map_to_remote: the place of the pointer along an axis, as a fraction of the picture.
\* The picture fills the axis on which the window is the tighter fit; on the other one
\* it is centred, so that bars are left on both sides.
Fraction(axis, win, frame, at) ==
    LET other == 3 - axis
        tight == win[axis] * frame[other] <= win[other] * frame[axis]
    IN  IF tight
          THEN [num |-> at[axis], den |-> win[axis]]
          ELSE [num |-> 2 * at[axis] * frame[other]
                          - (win[axis] * frame[other] - win[other] * frame[axis]),
                den |-> 2 * win[other] * frame[axis]]

\* Clamped to the picture and rounded to the wire's u16.
ToNorm(f) ==
    LET n == AtLeast(0, AtMost(f.num, f.den))
    IN  (2 * n * NORM + f.den) \div (2 * f.den)

MapToRemote(win, frame, at) ==
    [axis \in Axes |-> ToNorm(Fraction(axis, win, frame, at))]

\* minifb (external): whether row (column) d of the frame is drawn where the pointer is.
\* AspectRatioStretch enlarges the frame as far as both axes allow, and centres it.
DrawnAt(axis, d, at) ==
    LET tight == CHOOSE t \in Axes : \A u \in Axes : window[t] * canvas[u] <= window[u] * canvas[t]
        edge(i) == window[axis] * canvas[tight] + (2 * i - canvas[axis]) * window[tight]
        place == 2 * at[axis] * canvas[tight]
    IN  edge(d) <= place /\ place < edge(d + 1)

-----------------------------------------------------------------------------

PictureInit ==
    /\ display \in Screens
    /\ canvas = EvenDimensions(display.pixels)
    /\ window \in WindowSizes
    /\ pointer = NoPoint /\ cursor = NoPoint

\* The ladder changes the size of the encoder, and a frame of that size is shown.
Rescale ==
    /\ \E percent \in Percents :
         canvas' = ScaledDimensions(EvenDimensions(display.pixels), percent)
    /\ pointer' = NoPoint /\ cursor' = NoPoint
    /\ UNCHANGED <<display, window>>

ResizeWindow ==
    /\ window' \in WindowSizes
    /\ pointer' = NoPoint /\ cursor' = NoPoint
    /\ UNCHANGED <<display, canvas>>

\* A turn of the window loop: the position is sent and the host moves its pointer.
\* Positions are clamped to the window (MouseMode::Clamp).
PointAt ==
    /\ \E x \in 0..window[1], y \in 0..window[2] :
         /\ pointer' = <<x, y>>
         /\ cursor' = Denormalise(display, MapToRemote(window, canvas, <<x, y>>))
    /\ UNCHANGED <<display, canvas, window>>

PictureNext == Rescale \/ ResizeWindow \/ PointAt

PictureSpec == PictureInit /\ [][PictureNext]_pictureVars

-----------------------------------------------------------------------------

\* Every row and column of the host's screen contributes to the frame, whatever the
\* scale: the viewer never sees a part of the screen only. Odd screens whose even size
\* is one less are resampled too, and lose nothing.
NothingCropped ==
    \A axis \in Axes : \A s \in 0..(display.pixels[axis] - 1) :
        \E d \in 0..(canvas[axis] - 1) : s \in Shown(d, canvas[axis], display.pixels[axis])

\* The points of the display that row (column) s of its pixels lies on.
PointsOf(s) ==
    ((PERMILLE * s) \div display.scale)..((PERMILLE * (s + 1) - 1) \div display.scale)

\* What the user points at is where the host's pointer goes: a pixel that is shown under
\* the pointer lies on the point of the display, the one before it or one of the two
\* behind it. Bars, scaling of the frame, and displays with more pixels than points, by
\* whatever factor, change nothing in that; it is the rounding to 16 bits, the width less one and the truncation
\* (map_to_remote, denormalise) that keep it from being that point itself.
CursorIsUnderThePointer ==
    pointer # NoPoint =>
        \A axis \in Axes : \A d \in 0..(canvas[axis] - 1) :
            DrawnAt(axis, d, pointer) =>
                \E s \in Shown(d, canvas[axis], display.pixels[axis]) :
                    \E p \in PointsOf(s) : p \in (cursor[axis] - 1)..(cursor[axis] + 2)

\* The viewer sees the whole screen, and points at what it sees.
PictureIsTrue == NothingCropped /\ CursorIsUnderThePointer
=============================================================================
