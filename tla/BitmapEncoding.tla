--------------------------- MODULE BitmapEncoding ---------------------------
(***************************************************************************)
(* How an image becomes display operations and datagrams                   *)
(* (internal/display/render.go, operation.go and SendBatch of client.go).  *)
(* A picture is cropped and centred; scan lines are classified and merged; *)
(* a run of lines becomes a fill, bitmaps of two colours or of three bytes *)
(* a pixel, cut into tiles that fit a datagram; the operations are packed  *)
(* into datagrams in their order.  The pure part is here, with theorems    *)
(* about it in ImageProofs; ScreenUpdates has the screen.                  *)
(*                                                                         *)
(* A colour is a number, and colours are ordered as rgbaLess orders them.  *)
(* Abstracted: the header fields, the numbering (see DisplayChannel).      *)
(***************************************************************************)
EXTENDS ImageRectangles, Sequences, FiniteSets

CONSTANTS
    MaxDatagram,  \* maxDatagramSize, 1448 in the code
    WideImage     \* images of this width are sent in strips, 1024 in the code

\* A datagram has room for its headers and for one pixel, and bitmap lines,
\* which are rounded to four bytes, can fill it.
DatagramLimit == MaxDatagram \in Nat /\ MaxDatagram >= 40 /\ MaxDatagram % 4 = 0
ASSUME DatagramAssumption == DatagramLimit

PacketHeader    == 16
OperationHeader == 12

Point(x, y)       == [x |-> x, y |-> y]
Covers(rect, p)   == p[1] \in rect.x..rect.x + rect.w - 1 /\ p[2] \in rect.y..rect.y + rect.h - 1

CeilDiv(a, b) == (a + b - 1) \div b
Round4(n)     == 4 * ((n + 3) \div 4)

-----------------------------------------------------------------------------
(* Sizes *)

\* maxRGBPayload and maxBitmapBytes: what is left of a datagram for pixels.
RGBPayload  == MaxDatagram - PacketHeader - OperationHeader
BitmapBytes == MaxDatagram - PacketHeader - 20

RGBBytes(w, h)     == OperationHeader + Round4(3 * w) * h
BiColorBytes(w, h) == OperationHeader + 8 + Round4(CeilDiv(w, 8) * h)

\* SendBatch refuses what does not fit a datagram with its header.
Fits(bytes) == bytes + PacketHeader <= MaxDatagram

-----------------------------------------------------------------------------
(* Tiles *)

TileHeight(w, height) == Smaller(height, Larger(1, RGBPayload \div Round4(3 * w)))

Packets(w, width, height) == CeilDiv(width, w) * CeilDiv(height, TileHeight(w, height))

\* bestTileSize: the fewest packets and then the widest tile; strips for wide
\* images.
BestWidth(width, height) ==
    LET widths == 1..Smaller(width, RGBPayload \div 3)
    IN  IF width < WideImage
        THEN CHOOSE w \in widths : \A v \in widths :
                LET a == Packets(w, width, height)
                    b == Packets(v, width, height)
                IN  a < b \/ (a = b /\ w >= v)
        ELSE Smaller(width, RGBPayload \div 3)

BestTileSize(width, height) ==
    LET w == BestWidth(width, height)
    IN  Point(w, TileHeight(w, height))

\* appendBiColorTiles.
BiColorTileSize(width, height) ==
    LET w == Smaller(width, BitmapBytes * 8)
    IN  Point(w, Smaller(height, Larger(1, BitmapBytes \div CeilDiv(w, 8))))

\* The tiles of a rectangle, row by row.
Tiles(rect, tile) ==
    LET columns == CeilDiv(rect.w, tile.x)
    IN  [i \in 1..columns * CeilDiv(rect.h, tile.y) |->
            LET x == ((i - 1) % columns) * tile.x
                y == ((i - 1) \div columns) * tile.y
            IN  Rect(rect.x + x, rect.y + y,
                     Smaller(tile.x, rect.w - x), Smaller(tile.y, rect.h - y))]
=============================================================================
