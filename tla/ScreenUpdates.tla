--------------------------- MODULE ScreenUpdates ---------------------------
(***************************************************************************)
(* What a terminal shows of the images that ShowImage and ShowImageRegions *)
(* (internal/display/render.go) send it as operations: see BitmapEncoding. *)
(* ShowImage draws a whole image over a black screen; ShowImageRegions     *)
(* draws the changed rectangles of a snapshot that holds nothing else      *)
(* (frameLoop of internal/vnc/session.go), or has the terminal copy.       *)
(* Operations are drawn once and in order here; their loss is              *)
(* DisplayChannel's, and copies among other updates are FramePipeline's.   *)
(***************************************************************************)
EXTENDS BitmapEncoding, SequencesExt, Functions

CONSTANTS
    ScreenSize,   \* of the terminal
    CursorBytes,  \* size of the cursor operation, 84 in the code
    Images        \* the images that are shown

\* An image has a width, a height and a colour at each point.
IsImage(img) ==
    /\ img = [w |-> img.w, h |-> img.h, at |-> img.at]
    /\ img.w \in Nat \ {0} /\ img.h \in Nat \ {0}
    /\ img.at \in [(0..img.w - 1) \X (0..img.h - 1) -> Nat]

\* ShowImage refuses empty images and screens.
ASSUME DrawAssumption ==
    /\ ScreenSize.x \in Nat \ {0} /\ ScreenSize.y \in Nat \ {0}
    /\ CursorBytes \in Nat /\ Fits(CursorBytes)
    /\ \A img \in Images : IsImage(img)

Black   == 0
Nothing == -1   \* what a copy from beyond the screen shows
Cells == (0..ScreenSize.x - 1) \X (0..ScreenSize.y - 1)

VARIABLES
    image,  \* the image that was shown last
    cells   \* what each cell of the terminal shows

drawVars == <<image, cells>>

NoImage == [w |-> 0, h |-> 0, at |-> <<>>]

Points(rect) == (rect.x..rect.x + rect.w - 1) \X (rect.y..rect.y + rect.h - 1)

-----------------------------------------------------------------------------
(* Operations: where they draw, how long they are, and what they draw. *)

MovedTo(rect, dst) == [rect EXCEPT !.x = dst.x, !.y = dst.y]

FillRect(rect, dst, colour) ==
    [code |-> "fill", rect |-> MovedTo(rect, dst), bytes |-> 16, colour |-> colour]

\* A bitmap keeps the pixels of its rectangle of the image, by their place on
\* the screen.
BitmapRGB(img, rect, dst) ==
    [code |-> "bitmap", rect |-> MovedTo(rect, dst), bytes |-> RGBBytes(rect.w, rect.h),
     pixels |-> [p \in Points(MovedTo(rect, dst)) |->
                    img.at[<<p[1] - dst.x + rect.x, p[2] - dst.y + rect.y>>]]]

\* One bit per pixel: set where it is the second colour.
BitmapBiColor(img, rect, dst, c0, c1) ==
    [BitmapRGB(img, rect, dst) EXCEPT
        !.bytes = BiColorBytes(rect.w, rect.h),
        !.pixels = [p \in DOMAIN @ |-> IF @[p] = c1 THEN c1 ELSE c0]]

Copy(rect, dst, source) ==
    [code |-> "copy", rect |-> MovedTo(rect, dst), bytes |-> 16, source |-> source]

\* What ShowImage begins with: the bounds, a black screen, an invisible cursor.
NewScreen ==
    <<[code |-> "bounds", rect |-> Rect(0, 0, 0, 0), bytes |-> 20],
      FillRect(Rect(0, 0, ScreenSize.x, ScreenSize.y), Point(0, 0), Black),
      [code |-> "cursor", rect |-> Rect(0, 0, 0, 0), bytes |-> CursorBytes]>>

-----------------------------------------------------------------------------
(* encodeBitmapOperations *)

\* classifyScanline: one or two colours, or none when there are more.
Encoding(img, rect, y) ==
    LET colours == {img.at[<<x, y>>] : x \in rect.x..rect.x + rect.w - 1}
    IN  IF Cardinality(colours) <= 2 THEN colours ELSE {}

\* compatibleScanlines.
Compatible(a, b) == a = b

\* A line belongs to the last run when it is compatible with its first line.
Joined(img, rect, runs, y) ==
    IF runs # <<>> /\ Compatible(Encoding(img, rect, Last(runs).y), Encoding(img, rect, y))
    THEN [runs EXCEPT ![Len(runs)].h = @ + 1]
    ELSE Append(runs, Rect(rect.x, y, rect.w, 1))

\* The runs of compatible lines, as rectangles from top to bottom.
LineRuns(img, rect) ==
    LET after[n \in 0..rect.h] ==
            IF n = 0 THEN <<>> ELSE Joined(img, rect, after[n - 1], rect.y + n - 1)
    IN  after[rect.h]

\* The operations of one run; offset leads from the image to the screen.
RunOperations(img, run, offset) ==
    LET colours == Encoding(img, run, run.y)
        low     == CHOOSE c \in colours : \A d \in colours : c <= d
        high    == CHOOSE c \in colours : \A d \in colours : c >= d
        bicolor == Tiles(run, BiColorTileSize(run.w, run.h))
        rgb     == Tiles(run, BestTileSize(run.w, run.h))
        On(r)   == Point(r.x + offset.x, r.y + offset.y)
    IN  CASE Cardinality(colours) = 1 -> <<FillRect(run, On(run), low)>>
          [] Cardinality(colours) = 2 ->
                [i \in DOMAIN bicolor |->
                    BitmapBiColor(img, bicolor[i], On(bicolor[i]), low, high)]
          [] OTHER -> [i \in DOMAIN rgb |-> BitmapRGB(img, rgb[i], On(rgb[i]))]

Encode(img, rect, offset) ==
    LET runs == LineRuns(img, rect)
    IN  FlattenSeq([i \in DOMAIN runs |-> RunOperations(img, runs[i], offset)])

-----------------------------------------------------------------------------
(* Sending *)

Bytes(datagram) ==
    LET sum[n \in 0..Len(datagram)] == IF n = 0 THEN 0 ELSE sum[n - 1] + datagram[n].bytes
    IN  sum[Len(datagram)]

\* sendEncodedOperationsLocked: a datagram is closed when the next operation
\* does not fit.
Packed(packets, op) ==
    IF packets # <<>> /\ Fits(Bytes(Last(packets)) + op.bytes)
    THEN [packets EXCEPT ![Len(packets)] = Append(@, op)]
    ELSE Append(packets, <<op>>)

Datagrams(ops) ==
    LET after[n \in 0..Len(ops)] == IF n = 0 THEN <<>> ELSE Packed(after[n - 1], ops[n])
    IN  after[Len(ops)]

\* The terminal (external) executes one operation.
Executed(screen, op) ==
    [p \in Cells |->
        IF ~Covers(op.rect, p) THEN screen[p]
        ELSE CASE op.code = "fill"   -> op.colour
               [] op.code = "bitmap" -> op.pixels[p]
               [] op.code = "copy"   ->
                     LET from == <<p[1] - op.rect.x + op.source.x, p[2] - op.rect.y + op.source.y>>
                     IN  IF from \in Cells THEN screen[from] ELSE Nothing
               [] OTHER -> screen[p]]

Displayed(screen, ops) ==
    LET after[n \in 0..Len(ops)] == IF n = 0 THEN screen ELSE Executed(after[n - 1], ops[n])
    IN  after[Len(ops)]

\* SendBatch: one operation that is too large, and nothing is sent.
SendBatch(screen, ops) ==
    IF \E i \in DOMAIN ops : ~Fits(ops[i].bytes) THEN screen
    ELSE Displayed(screen, FlattenSeq(Datagrams(ops)))

-----------------------------------------------------------------------------
(* ShowImage and ShowImageRegions *)

Visible(img) == Rect(0, 0, Smaller(img.w, ScreenSize.x), Smaller(img.h, ScreenSize.y))

\* The image is centred, or cropped where it is larger.
Offset(img) == Point((ScreenSize.x - Visible(img).w) \div 2, (ScreenSize.y - Visible(img).h) \div 2)

Intersect(a, b) ==
    LET x == Larger(a.x, b.x)
        y == Larger(a.y, b.y)
    IN  Rect(x, y, Larger(0, Smaller(a.x + a.w, b.x + b.w) - x),
                   Larger(0, Smaller(a.y + a.h, b.y + b.h) - y))

Empty(rect) == rect.w = 0 \/ rect.h = 0

RawUpdate(rect)       == [rect |-> rect, isCopy |-> FALSE, source |-> Point(0, 0)]
CopyUpdate(rect, src) == [rect |-> rect, isCopy |-> TRUE, source |-> src]

SourceRect(update) == [update.rect EXCEPT !.x = update.source.x, !.y = update.source.y]

\* A copy whose source is partly invisible copies what the terminal has not.
CopiesUnclipped(update, visible) == update.isCopy /\ Intersect(update.rect, visible) = update.rect

\* A native copy needs its whole source and destination on the screen.
CopiesNatively(update, visible) ==
    /\ update.isCopy
    /\ Intersect(update.rect, visible) = update.rect
    /\ Intersect(SourceRect(update), visible) = SourceRect(update)

UpdateOperations(img, update) ==
    LET visible == Visible(img)
        offset  == Offset(img)
        changed == Intersect(update.rect, visible)
        At(r)   == Point(r.x + offset.x, r.y + offset.y)
    IN  IF Empty(changed) THEN <<>>
        ELSE IF CopiesNatively(update, visible)
        THEN <<Copy(changed, At(changed), At(SourceRect(update)))>>
        ELSE Encode(img, changed, offset)

\* frameLoop: only the changed rectangles of the newest image are filled in.
Snapshot(img, updates) ==
    [img EXCEPT !.at = [p \in DOMAIN img.at |->
        IF \E i \in DOMAIN updates : Covers(updates[i].rect, p) THEN img.at[p] ELSE Black]]

\* ShowImage of a new screen, or of the first frame of a size.
ShowImage(img) ==
    /\ image' = img
    /\ cells' = SendBatch(SendBatch(cells, NewScreen), Encode(img, Visible(img), Offset(img)))

\* ShowImageRegions of the next frame.
ShowImageRegions(img, updates) ==
    /\ image' = img
    /\ cells' = LET snapshot == Snapshot(img, updates)
                IN  SendBatch(cells, FlattenSeq([i \in DOMAIN updates |->
                                        UpdateOperations(snapshot, updates[i])]))

-----------------------------------------------------------------------------
(* What a server may announce of the change from one frame to the next. *)

Changed(old, new) == {p \in DOMAIN new.at : old.at[p] # new.at[p]}

\* The smallest rectangle that has all of the points.
Hull(points) ==
    LET X == {p[1] : p \in points}
        Y == {p[2] : p \in points}
        From(S) == CHOOSE a \in S : \A b \in S : a <= b
        To(S)   == CHOOSE a \in S : \A b \in S : a >= b
    IN  Rect(From(X), From(Y), To(X) - From(X) + 1, To(Y) - From(Y) + 1)

\* One rectangle of each changed line, top to bottom.
LineUpdates(old, new) ==
    LET line(y) == {p \in Changed(old, new) : p[2] = y}
        after[n \in 0..new.h] ==
            IF n = 0 THEN <<>>
            ELSE IF line(n - 1) = {} THEN after[n - 1]
            ELSE Append(after[n - 1], RawUpdate(Hull(line(n - 1))))
    IN  after[new.h]

\* A copy of the rectangle of all changes from another place.
Copies(old, new) ==
    LET to == Hull(Changed(old, new))
        sources == {from \in (0..new.w - to.w) \X (0..new.h - to.h) :
                        \A p \in Points(to) :
                            new.at[p] = old.at[<<p[1] - to.x + from[1], p[2] - to.y + from[2]>>]}
    IN  {CopyUpdate(to, Point(from[1], from[2])) : from \in sources}

Announcements(old, new) ==
    {<<RawUpdate(Hull(Changed(old, new)))>>, LineUpdates(old, new)}
       \cup {<<copy>> : copy \in Copies(old, new)}

DrawInit == image = NoImage /\ cells = [p \in Cells |-> Black]

DrawNext ==
    \/ \E img \in Images : ShowImage(img)
    \/ \E img \in Images :
          /\ img.w = image.w /\ img.h = image.h /\ img # image
          /\ \E updates \in Announcements(image, img) : ShowImageRegions(img, updates)

DrawSpec == DrawInit /\ [][DrawNext]_drawVars

-----------------------------------------------------------------------------
(* Properties *)

\* Whatever the images and however their changes are announced, the terminal
\* shows the newest image, cropped and centred, pixel by pixel, and black
\* beside it: no operation is refused for its size, no pixel is missed at the
\* edge of a tile or of a run, and the regions of an update fall where the
\* whole image was drawn ("uses the same centered/cropped placement as
\* ShowImage", src/internal/display/render.go).
ScreenShowsImage ==
    LET offset == Offset(image)
    IN  image # NoImage => \A p \in Cells :
            LET from == <<p[1] - offset.x, p[2] - offset.y>>
            IN  cells[p] = IF from \in DOMAIN image.at THEN image.at[from] ELSE Black
=============================================================================
