---------------------------- MODULE ScaledFrames ----------------------------
(***************************************************************************)
(* Where a VNC session shows the server's framebuffer and where it sends a *)
(* pointer event: handleFrame, sendPointer and the translations of         *)
(* internal/vnc/session.go, scale.go.  A frame is fitted to the screen in  *)
(* its proportions, or shown as it is, cropped or centred (RDP, web).  All *)
(* of this is integer arithmetic in two directions that must agree; along  *)
(* one axis ImageProofs proves it for all sizes.                         *)
(*                                                                         *)
(* Abstracted: how the pixels of a rectangle are mixed when it is scaled.  *)
(***************************************************************************)
EXTENDS ImageRectangles, Sequences, FiniteSets

CONSTANTS
    Screens,     \* sizes of the terminal's screen
    FrameSizes   \* sizes of the server's framebuffer

Sizes == [w : Nat \ {0}, h : Nat \ {0}]

\* A session starts with a usable screen (resolution modes) and a server
\* announces a framebuffer that is not empty (validateSize).
ASSUME SizeAssumption == Screens \subseteq Sizes /\ FrameSizes \subseteq Sizes

VARIABLES
    canvas,      \* ScreenWidth and ScreenHeight
    scaleToFit,  \* ScaleToFit
    frame,       \* size of the framebuffer, and of the frame that is shown
    stale        \* cells drawn before the pixel under them changed (auxiliary)

scaleVars == <<canvas, scaleToFit, frame, stale>>

NoFrame == [w |-> 0, h |-> 0]

Area(rect)       == (rect.x..rect.x + rect.w - 1) \X (rect.y..rect.y + rect.h - 1)
Bounds(size)     == Rect(0, 0, size.w, size.h)
Rectangles(size) ==
    {r \in [x : 0..size.w - 1, y : 0..size.h - 1, w : 1..size.w, h : 1..size.h] :
        r.x + r.w <= size.w /\ r.y + r.h <= size.h}

-----------------------------------------------------------------------------
(* One axis *)

\* divideCeil.
DivideCeil(value, divisor) == (value + divisor - 1) \div divisor

\* mapRectangle: the cells of the pixels from..from+length-1 when size pixels
\* are shown on cells cells.
FirstCell(from, size, cells)         == (from * cells) \div size
EndCellFloor(from, length, size, cells) == ((from + length) * cells) \div size
EndCell(from, length, size, cells)   == DivideCeil((from + length) * cells, size)

\* translateScaledPoint: the pixel of a cell.
PixelOf(cell, size, cells) == Smaller((cell * size) \div cells, size - 1)

-----------------------------------------------------------------------------
(* Two axes *)

\* fitRectangle.
Fit(size) ==
    LET tall == (size.h * canvas.w) \div size.w
        h    == Larger(1, Smaller(tall, canvas.h))
        w    == IF tall > canvas.h
                THEN Larger(1, (size.w * canvas.h) \div size.h) ELSE Larger(1, canvas.w)
    IN  Rect((canvas.w - w) \div 2, (canvas.h - h) \div 2, w, h)

\* ShowImage and ShowImageRegions: the visible part of a frame as it is.
Centred(size) ==
    LET w == Smaller(size.w, canvas.w)
        h == Smaller(size.h, canvas.h)
    IN  Rect((canvas.w - w) \div 2, (canvas.h - h) \div 2, w, h)

\* Where the frame is on the screen.
Shown == IF scaleToFit THEN Fit(frame) ELSE Centred(frame)

\* mapRectangle, with the intersection that cuts what rounding adds.
Mapped(rect) ==
    LET x == FirstCell(rect.x, frame.w, Shown.w)
        y == FirstCell(rect.y, frame.h, Shown.h)
    IN  Rect(Shown.x + x, Shown.y + y,
             Smaller(EndCell(rect.x, rect.w, frame.w, Shown.w), Shown.w) - x,
             Smaller(EndCell(rect.y, rect.h, frame.h, Shown.h), Shown.h) - y)

\* What is drawn for a changed rectangle.
Drawn(rect) ==
    IF scaleToFit THEN Area(Mapped(rect))
    ELSE {<<p[1] + Shown.x, p[2] + Shown.y>> : p \in Area(rect)} \cap Area(Shown)

Clamp(value, low, high) == Smaller(Larger(value, low), high)

\* translateCoordinate.
Translated(value, screenSize, size) ==
    LET offset == IF screenSize > size THEN (screenSize - size) \div 2 ELSE 0
    IN  Clamp(value - offset, 0, size - 1)

\* sendPointer: the pixel that an event at a cell of the screen is sent to.
PixelUnder(cell) ==
    IF scaleToFit
    THEN <<PixelOf(Clamp(cell[1], Shown.x, Shown.x + Shown.w - 1) - Shown.x, frame.w, Shown.w),
           PixelOf(Clamp(cell[2], Shown.y, Shown.y + Shown.h - 1) - Shown.y, frame.h, Shown.h)>>
    ELSE <<Translated(cell[1], canvas.w, frame.w), Translated(cell[2], canvas.h, frame.h)>>

-----------------------------------------------------------------------------
\* handleFrame of the first frame, of a new size or of a resize: all is drawn.
FullFrame(size) ==
    /\ frame' = size
    /\ stale' = {}
    /\ UNCHANGED <<canvas, scaleToFit>>

\* handleFrame of changed rectangles.
ChangedFrame(rects) ==
    /\ stale' = (stale \cup {cell \in Area(Shown) : \E r \in rects : PixelUnder(cell) \in Area(r)})
                   \ UNION {Drawn(r) : r \in rects}
    /\ UNCHANGED <<canvas, scaleToFit, frame>>

Configure ==
    /\ canvas = NoFrame
    /\ canvas' \in Screens
    /\ scaleToFit' \in BOOLEAN
    /\ UNCHANGED <<frame, stale>>

ScaleInit == canvas = NoFrame /\ scaleToFit = FALSE /\ frame = NoFrame /\ stale = {}

ScaleNext ==
    \/ Configure
    \/ canvas # NoFrame /\ \E size \in FrameSizes : FullFrame(size)
    \/ frame # NoFrame /\ \E rect \in Rectangles(frame) : ChangedFrame({rect})

ScaleSpec == ScaleInit /\ [][ScaleNext]_scaleVars

-----------------------------------------------------------------------------
(* Properties *)

\* A click hits what the operator sees: whenever a pixel of the framebuffer
\* changes, every cell whose clicks go to that pixel is drawn again, for a
\* frame that is enlarged, reduced, cropped or centred; and every cell of the
\* shown frame has a pixel.
ClickHitsWhatIsShown ==
    /\ stale = {}
    /\ frame # NoFrame => \A cell \in Area(Shown) : PixelUnder(cell) \in Area(Bounds(frame))
=============================================================================
