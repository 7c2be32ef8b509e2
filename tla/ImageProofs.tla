----------------------------- MODULE ImageProofs -----------------------------
(***************************************************************************)
(* Images on the screen, for every size.  Tiles of an image fit a          *)
(* datagram, so that SendBatch refuses no bitmap, and those of a rectangle *)
(* cover it; the runs of lines cover a picture, and the operations of a    *)
(* run show its pixels.  The datagrams keep the operations and their       *)
(* order.  So the screen shows the newest image, whether its changes are   *)
(* announced by hull, by line or as a copy. When a framebuffer is scaled   *)
(* to a screen, mapRectangle and translateScaledPoint agree along each     *)
(* axis, and so a click hits what is shown. The products of the code are   *)
(* bounded by quotient times divisor; the provers need each product as a   *)
(* term of its own.                                                        *)
(***************************************************************************)
EXTENDS ScreenUpdates, ScaledFrames, FiniteSetTheorems, TLAPS, WellFoundedInduction

-----------------------------------------------------------------------------
(* Division *)

\* Quotient and remainder.
LEMMA Quotient ==
  ASSUME NEW a \in Nat, NEW b \in Nat \ {0}
  PROVE  /\ a \div b \in Nat /\ a % b \in 0..b - 1
         /\ b * (a \div b) <= a /\ a < b * (a \div b) + b
         /\ a = b * (a \div b) + (a % b)
  BY SMT

\* A product keeps the order of its factors.
LEMMA ProductOrder ==
  ASSUME NEW a \in Nat, NEW b \in Nat, NEW c \in Nat, a <= b
  PROVE  c * a <= c * b /\ c * a \in Nat /\ c * b \in Nat
  BY SMT

\* A quotient is below what its numerator is below.
LEMMA QuotientBelow ==
  ASSUME NEW a \in Nat, NEW b \in Nat \ {0}, NEW q \in Nat, a < b * q
  PROVE  a \div b < q
<1> DEFINE d == a \div b
<1>1. d \in Nat /\ b * d <= a
  BY Quotient
<1>2. CASE q <= d
  <2>1. b * q <= b * d
    BY <1>1, <1>2, ProductOrder
  <2> QED
    BY <1>1, <2>1, SMT
<1> QED
  BY <1>1, <1>2, SMT

\* Quotient and remainder of a sum of a multiple and a number below the divisor.
LEMMA QuotientOfSum ==
  ASSUME NEW n \in Nat \ {0}, NEW a \in 0..n - 1, NEW b \in Nat
  PROVE  /\ n * b + a \in Nat
         /\ (n * b + a) \div n = b
         /\ (n * b + a) % n = a
<1> DEFINE s == n * b + a
           q == s \div n
<1>1. n * b \in Nat /\ s \in Nat
  BY SMT
<1>2. q \in Nat /\ n * q <= s /\ s < n * q + n /\ s = n * q + (s % n) /\ s % n \in 0..n - 1
  BY <1>1, Quotient
<1>3. q < b + 1
  <2>1. n * (b + 1) = n * b + n
    BY SMT
  <2>2. s < n * (b + 1)
    BY <1>1, <2>1, SMT
  <2> QED
    BY <1>1, <2>2, QuotientBelow
<1>4. CASE q + 1 <= b
  <2>1. n * (q + 1) <= n * b /\ n * (q + 1) = n * q + n /\ n * q \in Nat
    BY <1>2, <1>4, ProductOrder, SMT
  <2> QED
    BY <1>1, <1>2, <2>1, SMT
<1>5. q = b
  BY <1>2, <1>3, <1>4, SMT
<1>6. s % n = a
  <2>1. s = n * b + (s % n)
    BY <1>2, <1>5
  <2> HIDE DEF q
  <2> QED
    BY <1>1, <1>2, <2>1, SMT
<1> QED
  BY <1>1, <1>5, <1>6

\* A quotient that is rounded up.
LEMMA RoundedUp ==
  ASSUME NEW a \in Nat \ {0}, NEW b \in Nat \ {0}
  PROVE  /\ CeilDiv(a, b) \in Nat \ {0}
         /\ a <= b * CeilDiv(a, b)
         /\ b * (CeilDiv(a, b) - 1) < a
<1> DEFINE q == (a + b - 1) \div b
<1>1. a + b - 1 \in Nat
  BY SMT
<1>2. q \in Nat /\ b * q <= a + b - 1 /\ a + b - 1 < b * q + b
  BY <1>1, Quotient
<1>3. b * q \in Nat /\ b * (q - 1) = b * q - b
  BY <1>2, SMT
<1>4. q # 0
  <2>1. CASE q = 0
    <3>1. b * q = 0
      BY <2>1, SMT
    <3> QED
      BY <1>2, <3>1, SMT
  <2> QED
    BY <2>1
<1> HIDE DEF q
<1>5. a <= b * q /\ b * (q - 1) < a
  BY <1>2, <1>3, SMT
<1> USE DEF q
<1> QED
  BY <1>2, <1>4, <1>5 DEF CeilDiv

-----------------------------------------------------------------------------
(* Sizes *)

\* Four divides the room for pixels.
LEMMA Room ==
  ASSUME DatagramLimit
  PROVE  /\ RGBPayload \in Nat /\ RGBPayload >= 12 /\ RGBPayload % 4 = 0
         /\ BitmapBytes \in Nat /\ BitmapBytes >= 4 /\ BitmapBytes % 4 = 0
  BY SMT DEF DatagramLimit, RGBPayload, BitmapBytes, PacketHeader, OperationHeader

\* Rounding to four bytes does not exceed a limit that four divides.
LEMMA RoundingFits ==
  ASSUME NEW n \in Nat, NEW limit \in Nat, limit % 4 = 0, n <= limit
  PROVE  Round4(n) \in Nat /\ n <= Round4(n) /\ Round4(n) <= limit
  BY SMT DEF Round4

LEMMA RoundingOrder ==
  ASSUME NEW n \in Nat, NEW m \in Nat, n <= m
  PROVE  Round4(n) \in Nat /\ Round4(m) \in Nat /\ Round4(n) <= Round4(m)
  BY SMT DEF Round4

\* Lines of a length that fits the room: as many as the room holds, one at least.
LEMMA LinesFit ==
  ASSUME NEW room \in Nat, NEW line \in Nat \ {0}, line <= room,
         NEW height \in Nat \ {0},
         NEW lines, lines = Smaller(height, Larger(1, room \div line))
  PROVE  lines \in 1..height /\ line * lines \in Nat /\ line * lines <= room
<1> DEFINE q == room \div line
<1>1. q \in Nat /\ line * q <= room
  BY Quotient
<1> HIDE DEF q
<1>2. lines = Smaller(height, Larger(1, q))
  BY DEF q
<1>3. lines \in 1..height /\ (lines <= q \/ lines = 1)
  BY <1>1, <1>2, SMT DEF Smaller, Larger
<1>4. CASE lines <= q
  <2>1. line * lines <= line * q /\ line * lines \in Nat /\ line * q \in Nat
    BY <1>1, <1>3, <1>4, ProductOrder
  <2> QED
    BY <1>1, <1>3, <2>1, SMT
<1>5. CASE lines = 1
  BY <1>3, <1>5, SMT
<1> QED
  BY <1>3, <1>4, <1>5

\* Shorter and fewer lines take no more.
LEMMA SmallerProduct ==
  ASSUME NEW a \in Nat, NEW b \in Nat, NEW c \in Nat, NEW d \in Nat, a <= c, b <= d
  PROVE  a * b \in Nat /\ c * d \in Nat /\ a * b <= c * d
<1>1. a * b <= a * d /\ a * b \in Nat /\ a * d \in Nat
  BY ProductOrder
<1>2. d * a <= d * c /\ d * c \in Nat
  BY ProductOrder
<1>3. a * d = d * a /\ c * d = d * c
  BY SMT
<1> QED
  BY <1>1, <1>2, <1>3, SMT

-----------------------------------------------------------------------------
(* Tile sizes *)

\* appendBiColorTiles: a tile of two colours, and every smaller one, fits.
LEMMA BiColorTileFits ==
  ASSUME DatagramLimit, NEW width \in Nat \ {0}, NEW height \in Nat \ {0}
  PROVE  LET tile == BiColorTileSize(width, height)
         IN  /\ tile.x \in 1..width /\ tile.y \in 1..height
             /\ \A w \in 1..tile.x, h \in 1..tile.y : Fits(BiColorBytes(w, h))
<1> DEFINE room == BitmapBytes
           tx == Smaller(width, room * 8)
           line == CeilDiv(tx, 8)
           ty == Smaller(height, Larger(1, room \div line))
<1>1. room \in Nat /\ room >= 4 /\ room % 4 = 0 /\ room = MaxDatagram - 36 /\ MaxDatagram \in Nat
  BY Room, SMT DEF BitmapBytes, PacketHeader, DatagramLimit
<1> HIDE DEF room
<1>2. tx \in 1..width /\ line \in Nat \ {0} /\ line <= room
  BY <1>1, SMT DEF Smaller, CeilDiv
<1> HIDE DEF tx
<1>3. ty \in 1..height /\ line * ty \in Nat /\ line * ty <= room
  <2> HIDE DEF line
  <2> QED
    BY <1>1, <1>2, LinesFit
<1> HIDE DEF ty
<1>4. ASSUME NEW w \in 1..tx, NEW h \in 1..ty
      PROVE  Fits(BiColorBytes(w, h))
  <2> DEFINE l == CeilDiv(w, 8)
  <2>1. l \in Nat /\ l <= line
    BY <1>2, <1>4, SMT DEF CeilDiv
  <2> HIDE DEF l, line
  <2>2. l * h \in Nat /\ l * h <= line * ty
    BY <1>2, <1>3, <1>4, <2>1, SmallerProduct
  <2>3. Round4(l * h) \in Nat /\ Round4(l * h) <= room
    <3>1. l * h <= room
      BY <1>1, <1>3, <2>2, SMT
    <3> QED
      BY <1>1, <2>2, <3>1, RoundingFits
  <2>4. BiColorBytes(w, h) = 20 + Round4(l * h)
    <3>1. BiColorBytes(w, h) = 12 + 8 + Round4(l * h)
      BY DEF BiColorBytes, OperationHeader, l
    <3> QED
      BY <2>3, <3>1
  <2> QED
    BY <1>1, <2>3, <2>4 DEF Fits, PacketHeader
<1>5. BiColorTileSize(width, height) = [x |-> tx, y |-> ty]
  BY DEF BiColorTileSize, Point, tx, ty, line, room
<1> QED
  BY <1>2, <1>3, <1>4, <1>5

\* The widths bestTileSize tries.
Widths(width) == 1..Smaller(width, RGBPayload \div 3)

\* bestTileSize, for any width it may settle for: the tile, and every smaller
\* one, fits.
LEMMA AnyWidthFits ==
  ASSUME DatagramLimit, NEW width \in Nat \ {0}, NEW height \in Nat \ {0},
         NEW tx \in Widths(width)
  PROVE  LET ty == TileHeight(tx, height)
         IN  /\ tx \in 1..width /\ ty \in 1..height
             /\ \A w \in 1..tx, h \in 1..ty : Fits(RGBBytes(w, h))
<1> DEFINE room == RGBPayload
           line == Round4(3 * tx)
           ty == Smaller(height, Larger(1, room \div line))
<1>1. room \in Nat /\ room >= 12 /\ room % 4 = 0 /\ room = MaxDatagram - 28 /\ MaxDatagram \in Nat
  BY Room, SMT DEF RGBPayload, PacketHeader, OperationHeader, DatagramLimit
<1>2. tx \in 1..width /\ 3 * tx <= room
  BY <1>1, SMT DEF Widths, Smaller
<1> HIDE DEF room
<1>3. line \in Nat \ {0} /\ line <= room
  <2>1. 3 * tx \in Nat \ {0}
    BY <1>2, SMT
  <2> QED
    BY <1>1, <1>2, <2>1, RoundingFits, SMT
<1>4. ty \in 1..height /\ line * ty \in Nat /\ line * ty <= room
  <2> HIDE DEF line
  <2> QED
    BY <1>1, <1>3, LinesFit
<1>5. ASSUME NEW w \in 1..tx, NEW h \in 1..ty
      PROVE  Fits(RGBBytes(w, h))
  <2> DEFINE l == Round4(3 * w)
  <2>1. l \in Nat /\ l <= line
    BY <1>2, <1>5, RoundingOrder, SMT
  <2> HIDE DEF l, line, ty
  <2>2. l * h \in Nat /\ l * h <= line * ty
    BY <1>3, <1>4, <1>5, <2>1, SmallerProduct
  <2>3. RGBBytes(w, h) = 12 + l * h
    BY DEF RGBBytes, OperationHeader, l
  <2> QED
    BY <1>1, <1>4, <2>2, <2>3, SMT DEF Fits, PacketHeader
<1>6. TileHeight(tx, height) = ty
  BY DEF TileHeight, room
<1> QED
  BY <1>2, <1>4, <1>5, <1>6

\* Any set of natural numbers has a least one.
LEMMA Least ==
  ASSUME NEW S, S \subseteq Nat, S # {}
  PROVE  \E n \in S : \A m \in S : n <= m
<1>1. \E x \in S : \A y \in S : ~(<<y, x>> \in OpToRel(<, Nat))
  BY NatLessThanWellFounded, WFMin
<1>2. PICK x \in S : \A y \in S : ~(<<y, x>> \in OpToRel(<, Nat))
  BY <1>1
<1>3. ASSUME NEW y \in S PROVE x <= y
  <2>1. x \in Nat /\ y \in Nat
    OBVIOUS
  <2>2. y < x => <<y, x>> \in OpToRel(<, Nat)
    BY <2>1 DEF OpToRel
  <2>3. ~(y < x)
    BY <1>2, <2>2, Zenon
  <2> QED
    BY <2>1, <2>3, SMT
<1> QED
  BY <1>3

LEMMA PacketsType ==
  ASSUME DatagramLimit, NEW width \in Nat \ {0}, NEW height \in Nat \ {0},
         NEW w \in Widths(width)
  PROVE  Packets(w, width, height) \in Nat
<1>1. w \in Nat \ {0} /\ TileHeight(w, height) \in Nat \ {0}
  BY AnyWidthFits, SMT
<1>2. CeilDiv(width, w) \in Nat /\ CeilDiv(height, TileHeight(w, height)) \in Nat
  BY <1>1, RoundedUp
<1> QED
  BY <1>2, SMT DEF Packets

\* bestTileSize settles for one of the widths.
LEMMA BestWidthExists ==
  ASSUME DatagramLimit, NEW width \in Nat \ {0}, NEW height \in Nat \ {0}
  PROVE  BestWidth(width, height) \in Widths(width)
<1> DEFINE P(w) == Packets(w, width, height)
           Best(w) == \A v \in Widths(width) : P(w) < P(v) \/ (P(w) = P(v) /\ w >= v)
           counts == {P(w) : w \in Widths(width)}
<1>1. /\ Smaller(width, RGBPayload \div 3) \in Widths(width)
      /\ Widths(width) \subseteq 1..width
  BY Room, SMT DEF Widths, Smaller
<1>2. \A w \in Widths(width) : P(w) \in Nat
  BY PacketsType
<1> HIDE DEF P
<1>3. PICK n \in counts : \A m \in counts : n <= m
  <2>1. counts \subseteq Nat /\ counts # {}
    BY <1>1, <1>2
  <2> HIDE DEF counts
  <2> QED
    BY <2>1, Least
<1> DEFINE gaps == {width - w : w \in {v \in Widths(width) : P(v) = n}}
<1>4. PICK g \in gaps : \A k \in gaps : g <= k
  <2>1. gaps \subseteq Nat
    BY <1>1, SMT
  <2>2. gaps # {}
    BY <1>3
  <2> HIDE DEF gaps
  <2> QED
    BY <2>1, <2>2, Least
<1>5. PICK w \in Widths(width) : P(w) = n /\ g = width - w
  BY <1>4
<1>6. Best(w)
  <2> SUFFICES ASSUME NEW v \in Widths(width)
               PROVE  P(w) < P(v) \/ (P(w) = P(v) /\ w >= v)
    OBVIOUS
  <2>1. P(v) \in counts /\ P(v) \in Nat /\ n \in Nat /\ n <= P(v)
    BY <1>2, <1>3, <1>5
  <2>2. CASE P(v) = n
    <3>1. width - v \in gaps
      BY <2>2
    <3>2. g <= width - v
      BY <1>4, <3>1
    <3>3. w \in 1..width /\ v \in 1..width
      BY <1>1
    <3> QED
      BY <1>5, <2>2, <3>2, <3>3, SMT
  <2> QED
    BY <1>5, <2>1, <2>2, SMT
<1>7. CASE width < WideImage
  <2>1. BestWidth(width, height) = CHOOSE b \in Widths(width) : Best(b)
    BY <1>7 DEF BestWidth, Widths, P
  <2> HIDE DEF Best
  <2> QED
    BY <1>6, <2>1
<1>8. CASE ~(width < WideImage)
  BY <1>1, <1>8 DEF BestWidth
<1> QED
  BY <1>7, <1>8

-----------------------------------------------------------------------------
(* Tiles *)

\* The number of a tile and its place in the grid.
LEMMA Grid ==
  ASSUME NEW columns \in Nat \ {0}, NEW rows \in Nat \ {0},
         NEW i \in 1..columns * rows
  PROVE  /\ (i - 1) % columns \in 0..columns - 1
         /\ (i - 1) \div columns \in 0..rows - 1
<1> DEFINE n == columns * rows
<1>1. n \in Nat
  BY SMT
<1>2. i - 1 \in Nat /\ i - 1 < columns * rows
  BY <1>1, SMT
<1>3. (i - 1) \div columns < rows
  BY <1>2, QuotientBelow
<1>4. (i - 1) % columns \in 0..columns - 1 /\ (i - 1) \div columns \in Nat
  BY <1>2, Quotient
<1> DEFINE q == (i - 1) \div columns
<1> HIDE DEF q
<1>5. q \in Nat /\ q < rows => q \in 0..rows - 1
  BY SMT
<1> QED
  BY <1>3, <1>4, <1>5 DEF q

\* One axis: a column begins inside the rectangle.
LEMMA ColumnInside ==
  ASSUME NEW length \in Nat \ {0}, NEW size \in Nat \ {0},
         NEW column \in 0..CeilDiv(length, size) - 1
  PROVE  /\ column * size \in Nat /\ column * size < length
         /\ Smaller(size, length - column * size) \in 1..size
         /\ column * size + Smaller(size, length - column * size) <= length
<1> DEFINE columns == CeilDiv(length, size)
           x == column * size
<1>1. columns \in Nat \ {0} /\ size * (columns - 1) < length
  BY RoundedUp
<1> HIDE DEF columns
<1>2. size * column <= size * (columns - 1) /\ size * column \in Nat /\ size * (columns - 1) \in Nat
  <2>1. column \in Nat /\ columns - 1 \in Nat /\ column <= columns - 1
    BY <1>1 DEF columns
  <2> QED
    BY <2>1, ProductOrder
<1>3. x = size * column
  BY <1>1, SMT DEF columns
<1>4. x \in Nat /\ x < length
  BY <1>1, <1>2, <1>3, SMT
<1> HIDE DEF x
<1>5. Smaller(size, length - x) \in 1..size /\ x + Smaller(size, length - x) <= length
  BY <1>4, SMT DEF Smaller
<1> QED
  BY <1>4, <1>5 DEF x

\* One axis: the column of a point.
LEMMA ColumnOfPoint ==
  ASSUME NEW length \in Nat \ {0}, NEW size \in Nat \ {0}, NEW u \in 0..length - 1
  PROVE  /\ u \div size \in 0..CeilDiv(length, size) - 1
         /\ LET x == (u \div size) * size
            IN  u \in x..x + Smaller(size, length - x) - 1
<1> DEFINE columns == CeilDiv(length, size)
           q == u \div size
           x == q * size
<1>1. columns \in Nat \ {0} /\ length <= size * columns /\ size * columns \in Nat
  <2>1. columns \in Nat \ {0} /\ length <= size * columns
    BY RoundedUp
  <2> QED
    BY <2>1, SMT
<1> HIDE DEF columns
<1>2. q \in Nat /\ size * q <= u /\ u < size * q + size
  BY Quotient
<1>3. q < columns
  <2>1. u \in Nat /\ u < size * columns
    BY <1>1, SMT
  <2> QED
    BY <1>1, <2>1, QuotientBelow
<1> HIDE DEF q
<1>4. x = size * q /\ x \in Nat
  BY <1>2, SMT
<1> HIDE DEF x
<1>5. u \in x..x + Smaller(size, length - x) - 1
  BY <1>2, <1>4, SMT DEF Smaller
<1> QED
  BY <1>1, <1>2, <1>3, <1>5 DEF q, x, columns

LEMMA TilesType ==
  ASSUME NEW rect, NEW tile
  PROVE  /\ DOMAIN Tiles(rect, tile) = 1..CeilDiv(rect.w, tile.x) * CeilDiv(rect.h, tile.y)
         /\ \A i \in DOMAIN Tiles(rect, tile) :
               LET columns == CeilDiv(rect.w, tile.x)
                   x == ((i - 1) % columns) * tile.x
                   y == ((i - 1) \div columns) * tile.y
               IN  Tiles(rect, tile)[i] =
                      [x |-> rect.x + x, y |-> rect.y + y,
                       w |-> Smaller(tile.x, rect.w - x), h |-> Smaller(tile.y, rect.h - y)]
  BY DEF Tiles, Rect

Rectangle == [x : Int, y : Int, w : Nat \ {0}, h : Nat \ {0}]
TileSize  == [x : Nat \ {0}, y : Nat \ {0}]

\* Every tile of a rectangle is inside it and at most as large as a tile.
LEMMA TileInside ==
  ASSUME NEW rect \in Rectangle, NEW tile \in TileSize,
         NEW i \in DOMAIN Tiles(rect, tile)
  PROVE  LET t == Tiles(rect, tile)[i]
         IN  /\ t.x \in Int /\ t.y \in Int /\ t.w \in 1..tile.x /\ t.h \in 1..tile.y
             /\ rect.x <= t.x /\ t.x + t.w <= rect.x + rect.w
             /\ rect.y <= t.y /\ t.y + t.h <= rect.y + rect.h
<1> DEFINE columns == CeilDiv(rect.w, tile.x)
           rows == CeilDiv(rect.h, tile.y)
           c == (i - 1) % columns
           r == (i - 1) \div columns
           x == c * tile.x
           y == r * tile.y
<1>1. columns \in Nat \ {0} /\ rows \in Nat \ {0}
  BY RoundedUp DEF Rectangle, TileSize
<1>2. i \in 1..columns * rows
  BY TilesType
<1>3. c \in 0..columns - 1 /\ r \in 0..rows - 1
  <2> HIDE DEF columns, rows
  <2> QED
    BY <1>1, <1>2, Grid
<1> HIDE DEF c, r
<1>4. /\ x \in Nat /\ x + Smaller(tile.x, rect.w - x) <= rect.w
      /\ Smaller(tile.x, rect.w - x) \in 1..tile.x
  BY <1>3, ColumnInside DEF Rectangle, TileSize
<1>5. /\ y \in Nat /\ y + Smaller(tile.y, rect.h - y) <= rect.h
      /\ Smaller(tile.y, rect.h - y) \in 1..tile.y
  BY <1>3, ColumnInside DEF Rectangle, TileSize
<1>6. Tiles(rect, tile)[i] =
         [x |-> rect.x + x, y |-> rect.y + y,
          w |-> Smaller(tile.x, rect.w - x), h |-> Smaller(tile.y, rect.h - y)]
  BY TilesType DEF c, r
<1>7. rect.x \in Int /\ rect.y \in Int /\ rect.w \in Nat /\ rect.h \in Nat
      /\ tile.x \in Nat /\ tile.y \in Nat
  BY DEF Rectangle, TileSize
<1> DEFINE w == Smaller(tile.x, rect.w - x)
           h == Smaller(tile.y, rect.h - y)
<1> HIDE DEF x, y, w, h
<1>8. /\ x \in Nat /\ w \in 1..tile.x /\ x + w <= rect.w
      /\ y \in Nat /\ h \in 1..tile.y /\ y + h <= rect.h
  BY <1>4, <1>5 DEF w, h
<1>9. Tiles(rect, tile)[i] = [x |-> rect.x + x, y |-> rect.y + y, w |-> w, h |-> h]
  BY <1>6 DEF w, h
<1> QED
  BY <1>7, <1>8, <1>9, SMT

\* The tiles of a rectangle cover it, whatever their size: no pixel of an image
\* is left out at the edge of a tile.
THEOREM TilesCover ==
  ASSUME NEW rect \in Rectangle, NEW tile \in TileSize,
         NEW p \in Int \X Int, Covers(rect, p)
  PROVE  \E i \in DOMAIN Tiles(rect, tile) : Covers(Tiles(rect, tile)[i], p)
<1> DEFINE u == p[1] - rect.x
           v == p[2] - rect.y
           columns == CeilDiv(rect.w, tile.x)
           rows == CeilDiv(rect.h, tile.y)
           c == u \div tile.x
           r == v \div tile.y
           i == columns * r + c + 1
           x == c * tile.x
           y == r * tile.y
<1>1. /\ rect.x \in Int /\ rect.y \in Int /\ rect.w \in Nat \ {0} /\ rect.h \in Nat \ {0}
      /\ tile.x \in Nat \ {0} /\ tile.y \in Nat \ {0} /\ p[1] \in Int /\ p[2] \in Int
  BY DEF Rectangle, TileSize
<1>2. u \in 0..rect.w - 1 /\ v \in 0..rect.h - 1
  BY <1>1, SMT DEF Covers
<1>3. columns \in Nat \ {0} /\ rows \in Nat \ {0}
  BY <1>1, RoundedUp
<1> HIDE DEF u, v
<1>4. c \in 0..columns - 1 /\ u \in x..x + Smaller(tile.x, rect.w - x) - 1
  BY <1>1, <1>2, ColumnOfPoint
<1>5. r \in 0..rows - 1 /\ v \in y..y + Smaller(tile.y, rect.h - y) - 1
  BY <1>1, <1>2, ColumnOfPoint
<1> HIDE DEF c, r
<1>6. /\ x \in Nat /\ Smaller(tile.x, rect.w - x) \in Nat
  <2>1. c \in 0..CeilDiv(rect.w, tile.x) - 1
    BY <1>4
  <2>2. x \in Nat /\ Smaller(tile.x, rect.w - x) \in 1..tile.x
    BY <1>1, <2>1, ColumnInside
  <2> HIDE DEF x
  <2> QED
    BY <1>1, <2>2, SMT
<1>7. /\ y \in Nat /\ Smaller(tile.y, rect.h - y) \in Nat
  <2>1. r \in 0..CeilDiv(rect.h, tile.y) - 1
    BY <1>5
  <2>2. y \in Nat /\ Smaller(tile.y, rect.h - y) \in 1..tile.y
    BY <1>1, <2>1, ColumnInside
  <2> HIDE DEF y
  <2> QED
    BY <1>1, <2>2, SMT
<1> HIDE DEF columns, rows
<1>8. i \in Nat /\ i - 1 = columns * r + c /\ i \in 1..columns * rows
  <2>1. columns * (r + 1) <= columns * rows /\ columns * rows \in Nat
    <3>1. columns \in Nat /\ r + 1 \in Nat /\ rows \in Nat /\ r + 1 <= rows
      BY <1>3, <1>5
    <3> QED
      BY <3>1, ProductOrder
  <2>2. columns * (r + 1) = columns * r + columns /\ columns * r \in Nat
    BY <1>3, <1>5, SMT
  <2> QED
    BY <1>3, <1>4, <2>1, <2>2, SMT
<1>9. (i - 1) % columns = c /\ (i - 1) \div columns = r
  <2>1. c \in 0..columns - 1 /\ r \in Nat
    BY <1>3, <1>4, <1>5
  <2>2. (columns * r + c) \div columns = r /\ (columns * r + c) % columns = c
    BY <1>3, <2>1, QuotientOfSum
  <2> HIDE DEF i
  <2> QED
    BY <1>8, <2>2, Zenon
<1> HIDE DEF i
<1>10. i \in DOMAIN Tiles(rect, tile)
  BY <1>8, TilesType DEF columns, rows
<1>11. Tiles(rect, tile)[i] =
          [x |-> rect.x + x, y |-> rect.y + y,
           w |-> Smaller(tile.x, rect.w - x), h |-> Smaller(tile.y, rect.h - y)]
  BY <1>9, <1>10, TilesType DEF columns
<1> DEFINE w == Smaller(tile.x, rect.w - x)
           h == Smaller(tile.y, rect.h - y)
<1> HIDE DEF x, y, w, h
<1>12. /\ p[1] \in rect.x + x..rect.x + x + w - 1
       /\ p[2] \in rect.y + y..rect.y + y + h - 1
  <2>1. u \in x..x + w - 1 /\ v \in y..y + h - 1 /\ x \in Nat /\ y \in Nat /\ w \in Nat /\ h \in Nat
    BY <1>4, <1>5, <1>6, <1>7 DEF w, h
  <2>2. p[1] = rect.x + u /\ p[2] = rect.y + v /\ u \in Int /\ v \in Int
    BY <1>1, SMT DEF u, v
  <2> QED
    BY <1>1, <2>1, <2>2, SMT
<1>13. Covers(Tiles(rect, tile)[i], p)
  BY <1>11, <1>12 DEF Covers, w, h
<1> QED
  BY <1>10, <1>13

\* Every tile fits a datagram: SendBatch never refuses a bitmap, whatever the
\* size of the image and of the lines of one kind in it.
THEOREM TilesFit ==
  ASSUME DatagramLimit, NEW rect \in Rectangle
  PROVE  /\ \A i \in DOMAIN Tiles(rect, BestTileSize(rect.w, rect.h)) :
               LET t == Tiles(rect, BestTileSize(rect.w, rect.h))[i]
               IN  Fits(RGBBytes(t.w, t.h))
         /\ \A i \in DOMAIN Tiles(rect, BiColorTileSize(rect.w, rect.h)) :
               LET t == Tiles(rect, BiColorTileSize(rect.w, rect.h))[i]
               IN  Fits(BiColorBytes(t.w, t.h))
<1> DEFINE rgb == BestTileSize(rect.w, rect.h)
           two == BiColorTileSize(rect.w, rect.h)
<1>1. rect.w \in Nat \ {0} /\ rect.h \in Nat \ {0}
  BY DEF Rectangle
<1>2. /\ rgb \in TileSize
      /\ \A w \in 1..rgb.x, h \in 1..rgb.y : Fits(RGBBytes(w, h))
  <2> DEFINE tx == BestWidth(rect.w, rect.h)
             ty == TileHeight(tx, rect.h)
  <2>1. tx \in Widths(rect.w)
    BY <1>1, BestWidthExists
  <2> HIDE DEF tx
  <2>2. /\ tx \in 1..rect.w /\ ty \in 1..rect.h
        /\ \A w \in 1..tx, h \in 1..ty : Fits(RGBBytes(w, h))
    BY <1>1, <2>1, AnyWidthFits
  <2> HIDE DEF ty
  <2>3. rgb = [x |-> tx, y |-> ty]
    BY DEF BestTileSize, Point, tx, ty
  <2> QED
    BY <1>1, <2>2, <2>3 DEF TileSize
<1>3. /\ two \in TileSize
      /\ \A w \in 1..two.x, h \in 1..two.y : Fits(BiColorBytes(w, h))
  <2>1. /\ two.x \in 1..rect.w /\ two.y \in 1..rect.h
        /\ \A w \in 1..two.x, h \in 1..two.y : Fits(BiColorBytes(w, h))
    BY <1>1, BiColorTileFits
  <2>2. two = [x |-> two.x, y |-> two.y]
    BY DEF BiColorTileSize, Point
  <2> HIDE DEF two
  <2> QED
    BY <1>1, <2>1, <2>2 DEF TileSize
<1> HIDE DEF rgb, two
<1>4. ASSUME NEW i \in DOMAIN Tiles(rect, rgb)
      PROVE  LET t == Tiles(rect, rgb)[i] IN Fits(RGBBytes(t.w, t.h))
  BY <1>2, TileInside
<1>5. ASSUME NEW i \in DOMAIN Tiles(rect, two)
      PROVE  LET t == Tiles(rect, two)[i] IN Fits(BiColorBytes(t.w, t.h))
  BY <1>3, TileInside
<1> QED
  BY <1>4, <1>5 DEF rgb, two

-----------------------------------------------------------------------------
(* Recursive functions over the indices of a sequence.                     *)

\* A set of indices that has 0 and each next one has them all.
LEMMA UpTo ==
  ASSUME NEW n \in Nat, NEW S, 0 \in S, \A i \in 1..n : i - 1 \in S => i \in S
  PROVE  0..n \subseteq S
<1> SUFFICES ASSUME (0..n) \ S # {} PROVE FALSE
  OBVIOUS
<1>1. (0..n) \ S \subseteq Nat
  OBVIOUS
<1>2. PICK k \in (0..n) \ S : \A m \in (0..n) \ S : k <= m
  BY <1>1, Least
<1>3. k \in 1..n /\ k - 1 \in 0..n /\ k - 1 \in S
  BY <1>2
<1> QED
  BY <1>2, <1>3

\* One step of each recursion: a line joins the runs, an operation the datagrams
\* and its bytes their sum, the terminal executes an operation, a changed line is
\* announced, and a sequence is appended to others.
StepOf(kind, data, before, i) ==
  CASE kind = "runs"     -> Joined(data.img, data.rect, before, data.rect.y + i - 1)
    [] kind = "packets"  -> Packed(before, data[i])
    [] kind = "bytes"    -> before + data[i].bytes
    [] kind = "display"  -> Executed(before, data[i])
    [] kind = "announce" -> LET line == {p \in Changed(data.old, data.new) : p[2] = i - 1}
                            IN  IF line = {} THEN before
                                ELSE Append(before, RawUpdate(Hull(line)))
    [] kind = "flatten"  -> before \o data[i]

Steps(kind, data, base, n, f) ==
  f = [i \in 0..n |-> IF i = 0 THEN base ELSE StepOf(kind, data, f[i - 1], i)]

LEMMA StepKinds ==
  ASSUME NEW data, NEW before, NEW i
  PROVE  /\ StepOf("runs", data, before, i) = Joined(data.img, data.rect, before, data.rect.y + i - 1)
         /\ StepOf("packets", data, before, i) = Packed(before, data[i])
         /\ StepOf("bytes", data, before, i) = before + data[i].bytes
         /\ StepOf("display", data, before, i) = Executed(before, data[i])
         /\ StepOf("announce", data, before, i) =
               LET line == {p \in Changed(data.old, data.new) : p[2] = i - 1}
               IN  IF line = {} THEN before ELSE Append(before, RawUpdate(Hull(line)))
         /\ StepOf("flatten", data, before, i) = before \o data[i]
  BY DEF StepOf

LEMMA StepsExist ==
  ASSUME NEW kind, NEW data, NEW base, NEW n \in Nat
  PROVE  \E f : Steps(kind, data, base, n, f)
<1> DEFINE S == {m \in Nat : \E f : Steps(kind, data, base, m, f)}
<1>1. 0 \in S
  <2> DEFINE f == [i \in 0..0 |-> base]
  <2>1. f = [i \in 0..0 |-> IF i = 0 THEN base ELSE StepOf(kind, data, f[i - 1], i)]
    OBVIOUS
  <2> QED
    BY <2>1 DEF Steps
<1>2. ASSUME NEW m \in Nat, m \in S PROVE m + 1 \in S
  <2>1. PICK f : Steps(kind, data, base, m, f)
    BY <1>2
  <2> DEFINE g == [i \in 0..(m + 1) |->
                     IF i = m + 1 THEN StepOf(kind, data, f[m], m + 1) ELSE f[i]]
             h == [i \in 0..(m + 1) |->
                     IF i = 0 THEN base ELSE StepOf(kind, data, g[i - 1], i)]
  <2>2. ASSUME NEW i \in 0..(m + 1) PROVE g[i] = h[i]
    <3>1. CASE i = m + 1
      BY <3>1
    <3>2. CASE i = 0
      BY <2>1, <3>2 DEF Steps
    <3>3. CASE i \in 1..m
      <4>1. i \in 0..m /\ i - 1 \in 0..m /\ i - 1 \in 0..(m + 1) /\ i # m + 1 /\ i - 1 # m + 1
        BY <3>3
      <4>2. f[i] = StepOf(kind, data, f[i - 1], i)
        BY <2>1, <3>3, <4>1 DEF Steps
      <4> QED
        BY <3>3, <4>1, <4>2
    <3> QED
      BY <3>1, <3>2, <3>3
  <2>3. g = h
    BY <2>2
  <2>4. Steps(kind, data, base, m + 1, g)
    BY <2>3 DEF Steps
  <2> HIDE DEF g
  <2> QED
    BY <2>4
<1>3. \A i \in 1..n : i - 1 \in S => i \in S
  <2> SUFFICES ASSUME NEW i \in 1..n, i - 1 \in S PROVE i \in S
    OBVIOUS
  <2>1. i - 1 \in Nat /\ (i - 1) + 1 = i
    OBVIOUS
  <2> HIDE DEF S
  <2> QED
    BY <1>2, <2>1
<1>4. 0..n \subseteq S
  <2> HIDE DEF S
  <2> QED
    BY <1>1, <1>3, UpTo
<1> QED
  BY <1>4

LEMMA StepsUnrolled ==
  ASSUME NEW kind, NEW data, NEW base, NEW n \in Nat, NEW f, Steps(kind, data, base, n, f)
  PROVE  f[0] = base /\ \A i \in 1..n : f[i] = StepOf(kind, data, f[i - 1], i)
  BY DEF Steps

-----------------------------------------------------------------------------
(* Sequences of sequences.                                                 *)

\* What is strung together of s, sequence by sequence.
Strung(s, f) == f[0] = <<>> /\ \A i \in 1..Len(s) : f[i] = f[i - 1] \o s[i]

LEMMA StrungTyped ==
  ASSUME NEW S, NEW s \in Seq(Seq(S)), NEW f, Strung(s, f)
  PROVE  \A i \in 0..Len(s) : f[i] \in Seq(S)
<1> DEFINE n == Len(s)
           C == {i \in 0..n : f[i] \in Seq(S)}
<1>1. n \in Nat /\ \A i \in 1..n : s[i] \in Seq(S)
  OBVIOUS
<1>2. f[0] = <<>> /\ \A i \in 1..n : f[i] = f[i - 1] \o s[i]
  BY DEF Strung
<1>3. <<>> \in Seq(S)
  OBVIOUS
<1>4. \A a, b \in Seq(S) : a \o b \in Seq(S)
  OBVIOUS
<1> HIDE DEF n
<1>5. 0 \in C
  <2>1. 0 \in 0..n
    BY <1>1
  <2>2. f[0] \in Seq(S)
    BY <1>2, <1>3, Zenon
  <2> QED
    BY <2>1, <2>2
<1>6. ASSUME NEW i \in 1..n, i - 1 \in C PROVE i \in C
  <2>1. f[i - 1] \in Seq(S) /\ s[i] \in Seq(S) /\ i \in 0..n
    BY <1>1, <1>6
  <2>2. f[i - 1] \o s[i] \in Seq(S)
    BY <1>4, <2>1
  <2>3. f[i] = f[i - 1] \o s[i]
    BY <1>2
  <2>4. f[i] \in Seq(S)
    BY <2>2, <2>3
  <2> QED
    BY <2>1, <2>4
<1> HIDE DEF C
<1>7. 0..n \subseteq C
  BY <1>1, <1>5, <1>6, UpTo
<1> QED
  BY <1>7 DEF C, n

\* FlattenSeq begins with the first sequence.
LEMMA StrungFirst ==
  ASSUME NEW S, NEW s \in Seq(Seq(S)), NEW f, Strung(s, f), NEW i \in 1..Len(s)
  PROVE  f[i] = IF i = 1 THEN s[i] ELSE f[i - 1] \o s[i]
<1>1. f[i] = f[i - 1] \o s[i] /\ f[0] = <<>>
  BY DEF Strung
<1>2. CASE i = 1
  <2>1. i - 1 = 0
    BY <1>2
  <2>2. s[i] \in Seq(S)
    OBVIOUS
  <2>3. \A a \in Seq(S) : <<>> \o a = a
    OBVIOUS
  <2> QED
    BY <1>1, <1>2, <2>1, <2>2, <2>3, Zenon
<1>3. CASE i # 1
  BY <1>1, <1>3, Zenon
<1> QED
  BY <1>2, <1>3

LEMMA FlattenIs ==
  ASSUME NEW S, NEW s \in Seq(Seq(S)), NEW f, Strung(s, f)
  PROVE  FlattenSeq(s) = f[Len(s)]
<1> DEFINE n == Len(s)
<1>1. n \in Nat
  OBVIOUS
<1>2. n = 0 => s = <<>>
  OBVIOUS
<1>3. f[0] = <<>>
  BY DEF Strung
<1>4. \A i \in 1..n : f[i] = IF i = 1 THEN s[i] ELSE f[i - 1] \o s[i]
  BY StrungFirst
<1>5. CASE n = 0
  <2>1. FlattenSeq(s) = s
    BY <1>5 DEF FlattenSeq
  <2> QED
    BY <1>2, <1>3, <1>5, <2>1, Zenon
<1>6. CASE n # 0
  <2> DEFINE flatten[i \in 1..n] == IF i = 1 THEN s[i] ELSE flatten[i - 1] \o s[i]
             g == [i \in 1..n |-> f[i]]
             C == {i \in 0..n : i = 0 \/ flatten[i] = f[i]}
  <2>1. FlattenSeq(s) = flatten[n]
    BY <1>6 DEF FlattenSeq
  <2> HIDE DEF n
  <2>2. ASSUME NEW i \in 1..n
        PROVE  f[i] = IF i = 1 THEN s[i] ELSE g[i - 1] \o s[i]
    <3>1. i # 1 => i - 1 \in 1..n
      BY <1>1
    <3>2. i # 1 => g[i - 1] = f[i - 1]
      BY <3>1
    <3> HIDE DEF g
    <3> QED
      BY <1>4, <3>2, Zenon
  <2>3. g = [i \in 1..n |-> IF i = 1 THEN s[i] ELSE g[i - 1] \o s[i]]
    <3> DEFINE h == [i \in 1..n |-> IF i = 1 THEN s[i] ELSE g[i - 1] \o s[i]]
    <3>1. \A i \in 1..n : g[i] = h[i]
      BY <2>2, Zenon
    <3> QED
      BY <3>1, Zenon
  <2>4. flatten = [i \in 1..n |-> IF i = 1 THEN s[i] ELSE flatten[i - 1] \o s[i]]
    <3> HIDE DEF g
    <3> QED
      BY <2>3, Zenon
  <2>5. \A i \in 1..n : flatten[i] = IF i = 1 THEN s[i] ELSE flatten[i - 1] \o s[i]
    <3> HIDE DEF flatten
    <3> QED
      BY <2>4, Zenon
  <2> HIDE DEF flatten, g
  <2>6. 0 \in C
    BY <1>1
  <2>7. ASSUME NEW i \in 1..n, i - 1 \in C PROVE i \in C
    <3>1. i \in 0..n
      BY <1>1
    <3>2. i # 1 => flatten[i - 1] = f[i - 1]
      BY <1>1, <2>7
    <3>3. flatten[i] = f[i]
      BY <1>4, <2>5, <3>2, Zenon
    <3> QED
      BY <3>1, <3>3
  <2> HIDE DEF C
  <2>8. 0..n \subseteq C
    BY <1>1, <2>6, <2>7, UpTo
  <2>9. n \in C
    BY <1>1, <2>8
  <2> QED
    BY <1>6, <2>1, <2>9 DEF C, n
<1> QED
  BY <1>5, <1>6

LEMMA StrungExists ==
  ASSUME NEW S, NEW s \in Seq(Seq(S))
  PROVE  \E f : Strung(s, f)
<1>1. Len(s) \in Nat
  OBVIOUS
<1>2. PICK f : Steps("flatten", s, <<>>, Len(s), f)
  BY <1>1, StepsExist
<1>3. f[0] = <<>> /\ \A i \in 1..Len(s) : f[i] = StepOf("flatten", s, f[i - 1], i)
  BY <1>1, <1>2, StepsUnrolled
<1>4. \A i \in 1..Len(s) : StepOf("flatten", s, f[i - 1], i) = f[i - 1] \o s[i]
  BY DEF StepOf
<1>5. Strung(s, f)
  BY <1>3, <1>4, Zenon DEF Strung
<1> QED
  BY <1>5

\* An element of a sequence.
Occurs(x, t) == \E j \in DOMAIN t : t[j] = x

\* What is strung together has the elements of the sequences and no other.
LEMMA FlattenHas ==
  ASSUME NEW S, NEW s \in Seq(Seq(S))
  PROVE  /\ FlattenSeq(s) \in Seq(S)
         /\ \A x : Occurs(x, FlattenSeq(s)) <=> \E i \in DOMAIN s : Occurs(x, s[i])
<1> DEFINE n == Len(s)
<1>1. n \in Nat /\ DOMAIN s = 1..n
  OBVIOUS
<1>2. PICK f : Strung(s, f)
  BY StrungExists
<1>3. FlattenSeq(s) = f[n] /\ \A i \in 0..n : f[i] \in Seq(S)
  BY <1>2, FlattenIs, StrungTyped
<1>4. /\ f[0] = <<>> /\ \A i \in 1..n : f[i] = f[i - 1] \o s[i]
      /\ \A i \in 1..n : s[i] \in Seq(S)
  <2>1. \A i \in 1..n : s[i] \in Seq(S)
    OBVIOUS
  <2> QED
    BY <1>2, <2>1 DEF Strung
<1>5. \A a, b \in Seq(S) : \A x : Occurs(x, a \o b) <=> Occurs(x, a) \/ Occurs(x, b)
  <2> SUFFICES ASSUME NEW a \in Seq(S), NEW b \in Seq(S), NEW x
               PROVE  Occurs(x, a \o b) <=> Occurs(x, a) \/ Occurs(x, b)
    OBVIOUS
  <2>1. ASSUME NEW j \in DOMAIN (a \o b), (a \o b)[j] = x PROVE Occurs(x, a) \/ Occurs(x, b)
    <3>1. CASE j <= Len(a)
      <4>1. j \in DOMAIN a /\ (a \o b)[j] = a[j]
        BY <3>1
      <4> QED
        BY <2>1, <4>1 DEF Occurs
    <3>2. CASE j > Len(a)
      <4>1. j - Len(a) \in DOMAIN b /\ (a \o b)[j] = b[j - Len(a)]
        BY <3>2
      <4> QED
        BY <2>1, <4>1 DEF Occurs
    <3> QED
      BY <3>1, <3>2
  <2>2. ASSUME NEW j \in DOMAIN a, a[j] = x PROVE Occurs(x, a \o b)
    <3>1. j \in DOMAIN (a \o b) /\ (a \o b)[j] = a[j]
      OBVIOUS
    <3> QED
      BY <2>2, <3>1 DEF Occurs
  <2>3. ASSUME NEW j \in DOMAIN b, b[j] = x PROVE Occurs(x, a \o b)
    <3>1. Len(a) + j \in DOMAIN (a \o b) /\ (a \o b)[Len(a) + j] = b[j]
      OBVIOUS
    <3> QED
      BY <2>3, <3>1 DEF Occurs
  <2> QED
    BY <2>1, <2>2, <2>3, Zenon DEF Occurs
<1>6. \A x : ~Occurs(x, <<>>)
  BY DEF Occurs
<1> DEFINE C == {m \in 0..n : \A x : Occurs(x, f[m]) <=> \E i \in 1..m : Occurs(x, s[i])}
<1> HIDE DEF n
<1>7. 0 \in C
  <2>1. 0 \in 0..n /\ ~(\E i \in 1..0 : TRUE)
    BY <1>1
  <2>2. \A x : Occurs(x, f[0]) <=> \E i \in 1..0 : Occurs(x, s[i])
    BY <1>4, <1>6, <2>1, Zenon
  <2> QED
    BY <2>1, <2>2, Zenon
<1>8. ASSUME NEW m \in 1..n, m - 1 \in C PROVE m \in C
  <2>1. m \in 0..n /\ \A i : i \in 1..m <=> i \in 1..m - 1 \/ i = m
    BY <1>1
  <2>2. f[m - 1] \in Seq(S)
    BY <1>3, <1>8, Zenon
  <2>3. \A x : Occurs(x, f[m]) <=> Occurs(x, f[m - 1]) \/ Occurs(x, s[m])
    <3>1. f[m] = f[m - 1] \o s[m] /\ s[m] \in Seq(S)
      BY <1>4, Zenon
    <3>2. \A x : Occurs(x, f[m - 1] \o s[m]) <=> Occurs(x, f[m - 1]) \/ Occurs(x, s[m])
      BY <1>5, <2>2, <3>1, Zenon
    <3> QED
      BY <3>1, <3>2, Zenon
  <2>4. \A x : Occurs(x, f[m - 1]) <=> \E i \in 1..m - 1 : Occurs(x, s[i])
    BY <1>8, Zenon
  <2>5. \A x : Occurs(x, f[m]) <=> \E i \in 1..m : Occurs(x, s[i])
    BY <2>1, <2>3, <2>4, Zenon
  <2> QED
    BY <2>1, <2>5, Zenon
<1> HIDE DEF C
<1>9. 0..n \subseteq C
  BY <1>1, <1>7, <1>8, UpTo
<1>10. n \in C /\ n \in 0..n
  BY <1>1, <1>9
<1>11. \A x : Occurs(x, f[n]) <=> \E i \in 1..n : Occurs(x, s[i])
  BY <1>10, Zenon DEF C
<1>12. f[n] \in Seq(S)
  BY <1>3, <1>10, Zenon
<1> QED
  BY <1>1, <1>3, <1>11, <1>12, Zenon

LEMMA FlattenAppend ==
  ASSUME NEW S, NEW s \in Seq(Seq(S)), NEW x \in Seq(S)
  PROVE  FlattenSeq(Append(s, x)) = FlattenSeq(s) \o x
<1> DEFINE n == Len(s)
           t == Append(s, x)
<1>1. n \in Nat /\ t \in Seq(Seq(S)) /\ Len(t) = n + 1
  OBVIOUS
<1>2. t[n + 1] = x /\ \A i \in 1..n : t[i] = s[i]
  OBVIOUS
<1>3. PICK f : Strung(s, f)
  BY StrungExists
<1>4. FlattenSeq(s) = f[n]
  BY <1>3, FlattenIs
<1>5. f[0] = <<>> /\ \A i \in 1..n : f[i] = f[i - 1] \o s[i]
  BY <1>3 DEF Strung
<1> HIDE DEF n, t
<1> DEFINE g == [i \in 0..n + 1 |-> IF i = n + 1 THEN f[n] \o x ELSE f[i]]
<1>6. g[0] = <<>> /\ g[n + 1] = f[n] \o x /\ g[n] = f[n]
  <2>1. f[0] = <<>>
    BY <1>5
  <2>2. g[0] = f[0] /\ g[n] = f[n]
    BY <1>1
  <2>3. g[n + 1] = f[n] \o x
    BY <1>1
  <2> QED
    BY <2>1, <2>2, <2>3, Zenon
<1>7. \A i \in 1..n : g[i] = f[i] /\ g[i - 1] = f[i - 1]
  BY <1>1
<1> HIDE DEF g
<1>8. ASSUME NEW i \in 1..n + 1 PROVE g[i] = g[i - 1] \o t[i]
  <2>1. CASE i = n + 1
    <3>1. i - 1 = n
      BY <1>1, <2>1
    <3> QED
      BY <1>2, <1>6, <2>1, <3>1, Zenon
  <2>2. CASE i # n + 1
    <3>1. i \in 1..n
      BY <1>1, <2>2
    <3> QED
      BY <1>2, <1>5, <1>7, <3>1, Zenon
  <2> QED
    BY <2>1, <2>2
<1>9. Strung(t, g)
  BY <1>1, <1>6, <1>8, Zenon DEF Strung
<1>10. FlattenSeq(t) = g[n + 1]
  BY <1>1, <1>9, FlattenIs
<1> QED
  BY <1>4, <1>6, <1>10, Zenon DEF t

LEMMA FlattenGrow ==
  ASSUME NEW S, NEW s \in Seq(Seq(S)), s # <<>>, NEW op \in S
  PROVE  FlattenSeq([s EXCEPT ![Len(s)] = Append(@, op)]) = Append(FlattenSeq(s), op)
<1> DEFINE n == Len(s)
           t == [s EXCEPT ![n] = Append(@, op)]
<1>1. n \in Nat \ {0}
  OBVIOUS
<1>2. s[n] \in Seq(S) /\ Append(s[n], op) \in Seq(S) /\ DOMAIN s = 1..n
  BY <1>1
<1>3. \A a, b \in Seq(S) : Append(a \o b, op) = a \o Append(b, op)
  <2> SUFFICES ASSUME NEW a \in Seq(S), NEW b \in Seq(S)
               PROVE  Append(a \o b, op) = a \o Append(b, op)
    BY Zenon
  <2> DEFINE c == Append(a \o b, op)
             d == a \o Append(b, op)
             la == Len(a)
             lb == Len(b)
  <2>1. la \in Nat /\ lb \in Nat
    OBVIOUS
  <2>2. c \in Seq(S) /\ Len(c) = la + lb + 1
    OBVIOUS
  <2>3. d \in Seq(S) /\ Len(d) = la + lb + 1
    OBVIOUS
  <2>4. \A i \in 1..la : c[i] = a[i] /\ d[i] = a[i]
    OBVIOUS
  <2>5. \A i \in 1..lb : c[la + i] = b[i] /\ d[la + i] = b[i]
    OBVIOUS
  <2>6. c[la + lb + 1] = op
    OBVIOUS
  <2>7. d[la + lb + 1] = op
    OBVIOUS
  <2> HIDE DEF c, d, la, lb
  <2>8. ASSUME NEW i \in 1..la + lb + 1 PROVE c[i] = d[i]
    <3>1. CASE i \in 1..la
      BY <2>4, <3>1
    <3>2. CASE i = la + lb + 1
      BY <2>6, <2>7, <3>2
    <3>3. CASE i \notin 1..la /\ i # la + lb + 1
      <4> DEFINE j == i - la
      <4>1. j \in 1..lb /\ i = la + j
        BY <2>1, <3>3
      <4> HIDE DEF j
      <4> QED
        BY <2>5, <4>1
    <3> QED
      BY <3>1, <3>2, <3>3
  <2>9. c = d
    BY <2>2, <2>3, <2>8
  <2> QED
    BY <2>9 DEF c, d
<1>4. t \in Seq(Seq(S)) /\ Len(t) = n
  <2> DEFINE l == Append(s[n], op)
  <2>1. l \in Seq(S)
    BY <1>2
  <2> HIDE DEF l
  <2>2. [s EXCEPT ![n] = l] \in Seq(Seq(S)) /\ Len([s EXCEPT ![n] = l]) = n
    BY <1>1, <2>1
  <2> QED
    BY <2>2 DEF l
<1>5. t[n] = Append(s[n], op) /\ \A i \in 1..n - 1 : t[i] = s[i]
  <2> DEFINE l == Append(s[n], op)
  <2> HIDE DEF l, n
  <2>1. n \in DOMAIN s /\ \A i \in 1..n - 1 : i \in DOMAIN s /\ i # n
    <3>1. n \in 1..n /\ \A i \in 1..n - 1 : i \in 1..n /\ i # n
      BY <1>1
    <3> QED
      BY <1>2, <3>1, Zenon
  <2>2. [s EXCEPT ![n] = l][n] = l /\ \A i \in 1..n - 1 : [s EXCEPT ![n] = l][i] = s[i]
    BY <2>1, Zenon
  <2> QED
    BY <2>2 DEF l
<1>6. PICK f : Strung(s, f)
  BY StrungExists
<1>7. FlattenSeq(s) = f[n] /\ \A i \in 0..n : f[i] \in Seq(S)
  BY <1>6, FlattenIs, StrungTyped
<1>8. f[0] = <<>> /\ \A i \in 1..n : f[i] = f[i - 1] \o s[i]
  BY <1>6 DEF Strung
<1> HIDE DEF n, t
<1> DEFINE g == [i \in 0..n |-> IF i = n THEN Append(f[n], op) ELSE f[i]]
<1>9. g[0] = <<>> /\ g[n] = Append(f[n], op) /\ n - 1 \in 0..n /\ g[n - 1] = f[n - 1]
  BY <1>1, <1>8
<1>10. \A i \in 1..n - 1 : g[i] = f[i] /\ g[i - 1] = f[i - 1] /\ i \in 1..n
  BY <1>1
<1> HIDE DEF g
<1>11. ASSUME NEW i \in 1..n PROVE g[i] = g[i - 1] \o t[i]
  <2>1. CASE i = n
    <3>1. f[n - 1] \in Seq(S) /\ f[n] = f[n - 1] \o s[n]
      BY <1>7, <1>8, <1>9, <2>1
    <3>2. Append(f[n - 1] \o s[n], op) = f[n - 1] \o Append(s[n], op)
      BY <1>2, <1>3, <3>1, Zenon
    <3> QED
      BY <1>5, <1>9, <2>1, <3>1, <3>2, Zenon
  <2>2. CASE i # n
    <3>1. i \in 1..n - 1
      BY <1>1, <2>2
    <3> QED
      BY <1>5, <1>8, <1>10, <3>1, Zenon
  <2> QED
    BY <2>1, <2>2
<1>12. Strung(t, g)
  BY <1>4, <1>9, <1>11, Zenon DEF Strung
<1>13. FlattenSeq(t) = g[n]
  BY <1>4, <1>12, FlattenIs
<1> QED
  BY <1>7, <1>9, <1>13, Zenon DEF t, n

-----------------------------------------------------------------------------
(* Datagrams.                                                              *)

\* A sum of bytes, operation by operation.
LEMMA BytesSum ==
  ASSUME NEW ops, Len(ops) \in Nat
  PROVE  \E f : /\ f[0] = 0 /\ \A i \in 1..Len(ops) : f[i] = f[i - 1] + ops[i].bytes
                /\ Bytes(ops) = f[Len(ops)]
                /\ f = [i \in 0..Len(ops) |-> IF i = 0 THEN 0 ELSE f[i - 1] + ops[i].bytes]
<1> DEFINE n == Len(ops)
           sum[i \in 0..n] == IF i = 0 THEN 0 ELSE sum[i - 1] + ops[i].bytes
<1>1. PICK f : Steps("bytes", ops, 0, n, f)
  BY StepsExist
<1>2. f = [i \in 0..n |-> IF i = 0 THEN 0 ELSE f[i - 1] + ops[i].bytes]
  <2>1. f = [i \in 0..n |-> IF i = 0 THEN 0 ELSE StepOf("bytes", ops, f[i - 1], i)]
    BY <1>1 DEF Steps
  <2>2. \A i : StepOf("bytes", ops, f[i - 1], i) = f[i - 1] + ops[i].bytes
    BY StepKinds, Zenon
  <2> QED
    BY <2>1, <2>2, Zenon
<1>3. sum = [i \in 0..n |-> IF i = 0 THEN 0 ELSE sum[i - 1] + ops[i].bytes]
  BY <1>2, Zenon
<1>4. Bytes(ops) = sum[n]
  BY DEF Bytes
<1> HIDE DEF sum
<1>5. sum[0] = 0 /\ \A i \in 1..n : sum[i] = sum[i - 1] + ops[i].bytes
  BY <1>3
<1> QED
  BY <1>3, <1>4, <1>5

LEMMA BytesOne ==
  ASSUME NEW op, op.bytes \in Nat
  PROVE  Bytes(<<op>>) = op.bytes
<1>1. Len(<<op>>) = 1 /\ <<op>>[1] = op
  OBVIOUS
<1>2. 1 \in Nat /\ 1 \in 1..1 /\ 1 - 1 = 0
  OBVIOUS
<1>3. PICK f : /\ f[0] = 0 /\ \A i \in 1..Len(<<op>>) : f[i] = f[i - 1] + <<op>>[i].bytes
               /\ Bytes(<<op>>) = f[Len(<<op>>)]
  <2> DEFINE d == <<op>>
  <2>1. Len(d) \in Nat
    BY <1>1
  <2> HIDE DEF d
  <2>2. \E f : /\ f[0] = 0 /\ \A i \in 1..Len(d) : f[i] = f[i - 1] + d[i].bytes
               /\ Bytes(d) = f[Len(d)]
    BY <2>1, BytesSum, Zenon
  <2> QED
    BY <2>2 DEF d
<1>4. f[1] = f[0] + op.bytes
  BY <1>1, <1>2, <1>3, Zenon
<1> QED
  BY <1>1, <1>3, <1>4

LEMMA BytesAppend ==
  ASSUME NEW S, NEW d \in Seq(S), NEW op
  PROVE  Bytes(Append(d, op)) = Bytes(d) + op.bytes
<1> DEFINE n == Len(d)
           e == Append(d, op)
<1>1. n \in Nat /\ Len(e) = n + 1 /\ Len(e) \in Nat
  OBVIOUS
<1>2. e[n + 1] = op /\ \A i \in 1..n : e[i] = d[i]
  OBVIOUS
<1>3. PICK f : /\ f[0] = 0 /\ \A i \in 1..n : f[i] = f[i - 1] + d[i].bytes
               /\ Bytes(d) = f[n]
  BY <1>1, BytesSum, Zenon
<1> HIDE DEF n, e
<1>4. PICK g : /\ g[0] = 0 /\ \A i \in 1..Len(e) : g[i] = g[i - 1] + e[i].bytes
               /\ Bytes(e) = g[Len(e)]
  BY <1>1, BytesSum, Zenon
<1> DEFINE C == {i \in 0..n : g[i] = f[i]}
<1>5. 0 \in C
  BY <1>1, <1>3, <1>4
<1>6. ASSUME NEW i \in 1..n, i - 1 \in C PROVE i \in C
  <2>1. i \in 0..n /\ i \in 1..Len(e)
    BY <1>1
  <2>2. g[i] = g[i - 1] + e[i].bytes /\ f[i] = f[i - 1] + d[i].bytes
    BY <1>3, <1>4, <2>1, Zenon
  <2> QED
    BY <1>2, <1>6, <2>1, <2>2, Zenon
<1> HIDE DEF C
<1>7. 0..n \subseteq C
  BY <1>1, <1>5, <1>6, UpTo
<1>8. n \in C /\ n + 1 \in 1..Len(e) /\ (n + 1) - 1 = n
  BY <1>1, <1>7
<1>9. g[n + 1] = g[n] + op.bytes
  BY <1>2, <1>4, <1>8, Zenon
<1> QED
  BY <1>1, <1>3, <1>4, <1>8, <1>9, Zenon DEF C, e

\* One more operation, in a datagram of its own or in the last one.
LEMMA PackedKeeps ==
  ASSUME NEW S, NEW packets \in Seq(Seq(S)), NEW op \in S
  PROVE  /\ Packed(packets, op) \in Seq(Seq(S))
         /\ FlattenSeq(Packed(packets, op)) = Append(FlattenSeq(packets), op)
<1> DEFINE joins == packets # <<>> /\ Fits(Bytes(Last(packets)) + op.bytes)
           grown == [packets EXCEPT ![Len(packets)] = Append(@, op)]
<1>1. Packed(packets, op) = IF joins THEN grown ELSE Append(packets, <<op>>)
  BY DEF Packed
<1>2. <<op>> \in Seq(S) /\ FlattenSeq(packets) \in Seq(S)
  BY FlattenHas
<1>3. CASE joins
  <2>1. packets # <<>>
    BY <1>3
  <2>2. FlattenSeq(grown) = Append(FlattenSeq(packets), op)
    BY <2>1, FlattenGrow
  <2>3. grown \in Seq(Seq(S))
    <3> DEFINE l == Append(packets[Len(packets)], op)
    <3>1. Len(packets) \in DOMAIN packets /\ packets[Len(packets)] \in Seq(S)
      BY <2>1
    <3>2. l \in Seq(S)
      BY <3>1
    <3> HIDE DEF l
    <3>3. [packets EXCEPT ![Len(packets)] = l] \in Seq(Seq(S))
      BY <3>1, <3>2
    <3> QED
      BY <3>3 DEF l
  <2> QED
    BY <1>1, <1>3, <2>2, <2>3, Zenon
<1>4. CASE ~joins
  <2>1. FlattenSeq(Append(packets, <<op>>)) = FlattenSeq(packets) \o <<op>>
    BY <1>2, FlattenAppend
  <2>2. Append(packets, <<op>>) \in Seq(Seq(S))
    BY <1>2
  <2>3. \A a \in Seq(S) : a \o <<op>> = Append(a, op)
    OBVIOUS
  <2> QED
    BY <1>1, <1>2, <1>4, <2>1, <2>2, <2>3, Zenon
<1> QED
  BY <1>3, <1>4, Zenon

LEMMA DatagramsSteps ==
  ASSUME NEW S, NEW ops \in Seq(S)
  PROVE  \E f : /\ f[0] = <<>> /\ \A i \in 1..Len(ops) : f[i] = Packed(f[i - 1], ops[i])
                /\ Datagrams(ops) = f[Len(ops)]
<1> DEFINE n == Len(ops)
           after[i \in 0..n] == IF i = 0 THEN <<>> ELSE Packed(after[i - 1], ops[i])
<1>1. n \in Nat
  OBVIOUS
<1>2. PICK f : Steps("packets", ops, <<>>, n, f)
  BY <1>1, StepsExist
<1>3. f = [i \in 0..n |-> IF i = 0 THEN <<>> ELSE Packed(f[i - 1], ops[i])]
  <2>1. f = [i \in 0..n |-> IF i = 0 THEN <<>> ELSE StepOf("packets", ops, f[i - 1], i)]
    BY <1>2, Zenon DEF Steps
  <2>2. ASSUME NEW i PROVE StepOf("packets", ops, f[i - 1], i) = Packed(f[i - 1], ops[i])
    <3> DEFINE b == f[i - 1]
    <3> HIDE DEF b
    <3>1. StepOf("packets", ops, b, i) = Packed(b, ops[i])
      BY DEF StepOf
    <3> QED
      BY <3>1 DEF b
  <2> QED
    BY <2>1, <2>2, Zenon
<1>4. after = [i \in 0..n |-> IF i = 0 THEN <<>> ELSE Packed(after[i - 1], ops[i])]
  BY <1>3, Zenon
<1>5. Datagrams(ops) = after[n]
  BY DEF Datagrams
<1> HIDE DEF after, n
<1>6. after[0] = <<>> /\ \A i \in 1..n : after[i] = Packed(after[i - 1], ops[i])
  <2>1. 0 \in 0..n /\ \A i \in 1..n : i \in 0..n /\ i # 0
    BY <1>1
  <2> QED
    BY <1>4, <2>1, Zenon
<1> QED
  BY <1>5, <1>6, Zenon DEF n

\* The datagrams carry the operations of a batch, all of them and in their order.
THEOREM DatagramsKeepOrder ==
  ASSUME NEW S, NEW ops \in Seq(S)
  PROVE  FlattenSeq(Datagrams(ops)) = ops
<1> DEFINE n == Len(ops)
           Sent(i) == [j \in 1..i |-> ops[j]]
<1>1. PICK f : /\ f[0] = <<>> /\ \A i \in 1..n : f[i] = Packed(f[i - 1], ops[i])
               /\ Datagrams(ops) = f[n]
  BY DatagramsSteps, Zenon
<1>2. n \in Nat /\ \A i \in 1..n : ops[i] \in S
  OBVIOUS
<1>3. Sent(0) = <<>> /\ Sent(n) = ops
  OBVIOUS
<1>4. \A i \in 1..n : Append(Sent(i - 1), ops[i]) = Sent(i)
  OBVIOUS
<1> DEFINE C == {i \in 0..n : f[i] \in Seq(Seq(S)) /\ FlattenSeq(f[i]) = Sent(i)}
<1> HIDE DEF n, Sent
<1>5. 0 \in C
  <2>1. <<>> \in Seq(Seq(S)) /\ FlattenSeq(<<>>) = <<>>
    BY DEF FlattenSeq
  <2>2. 0 \in 0..n
    BY <1>2
  <2> QED
    BY <1>1, <1>3, <2>1, <2>2, Zenon
<1>6. ASSUME NEW i \in 1..n, i - 1 \in C PROVE i \in C
  <2>1. i \in 0..n
    BY <1>2
  <2>2. f[i - 1] \in Seq(Seq(S)) /\ FlattenSeq(f[i - 1]) = Sent(i - 1) /\ ops[i] \in S
    BY <1>2, <1>6, Zenon
  <2>3. /\ Packed(f[i - 1], ops[i]) \in Seq(Seq(S))
        /\ FlattenSeq(Packed(f[i - 1], ops[i])) = Append(FlattenSeq(f[i - 1]), ops[i])
    BY <2>2, PackedKeeps, Zenon
  <2>4. f[i] = Packed(f[i - 1], ops[i]) /\ Append(Sent(i - 1), ops[i]) = Sent(i)
    BY <1>1, <1>4, Zenon
  <2> QED
    BY <2>1, <2>2, <2>3, <2>4, Zenon
<1> HIDE DEF C
<1>7. 0..n \subseteq C
  BY <1>2, <1>5, <1>6, UpTo
<1>8. n \in C
  BY <1>2, <1>7
<1> QED
  BY <1>1, <1>3, <1>8, Zenon DEF C

Filled(packets) ==
  \A i \in DOMAIN packets : packets[i] # <<>> /\ Bytes(packets[i]) \in Nat /\ Fits(Bytes(packets[i]))

LEMMA PackedFits ==
  ASSUME NEW S, NEW packets \in Seq(Seq(S)), Filled(packets),
         NEW op \in S, op.bytes \in Nat, Fits(op.bytes)
  PROVE  Filled(Packed(packets, op))
<1> DEFINE n == Len(packets)
           joins == packets # <<>> /\ Fits(Bytes(Last(packets)) + op.bytes)
           grown == [packets EXCEPT ![n] = Append(@, op)]
<1>1. Packed(packets, op) = IF joins THEN grown ELSE Append(packets, <<op>>)
  BY DEF Packed
<1>2. CASE joins
  <2> DEFINE l == packets[n]
             m == Append(l, op)
  <2>1. n \in DOMAIN packets /\ l \in Seq(S)
    BY <1>2
  <2>2. Last(packets) = l
    BY DEF Last
  <2>3. Fits(Bytes(l) + op.bytes) /\ Bytes(l) \in Nat
    BY <1>2, <2>1, <2>2 DEF Filled
  <2> HIDE DEF l, n
  <2>4. Bytes(m) = Bytes(l) + op.bytes
    BY <2>1, BytesAppend
  <2>5. m # <<>>
    <3>1. Len(m) = Len(l) + 1 /\ Len(l) \in Nat
      BY <2>1
    <3>2. Len(<<>>) = 0
      OBVIOUS
    <3> HIDE DEF m
    <3> QED
      BY <3>1, <3>2
  <2> HIDE DEF m
  <2>6. Bytes(m) \in Nat /\ Fits(Bytes(m))
    BY <2>3, <2>4
  <2>7. Filled([packets EXCEPT ![n] = m])
    BY <2>1, <2>5, <2>6, Zenon DEF Filled
  <2>8. grown = [packets EXCEPT ![n] = m]
    BY DEF m, l
  <2> QED
    BY <1>1, <1>2, <2>7, <2>8, Zenon
<1>3. CASE ~joins
  <2> DEFINE e == <<op>>
             t == Append(packets, e)
  <2>1. e # <<>> /\ Bytes(e) = op.bytes /\ e \in Seq(S)
    BY BytesOne
  <2> HIDE DEF e
  <2>2. DOMAIN packets = 1..n /\ n \in Nat
    OBVIOUS
  <2>9. DOMAIN t = 1..n + 1
    <3>1. t \in Seq(Seq(S)) /\ Len(t) = n + 1
      BY <2>1
    <3> HIDE DEF t, n
    <3> QED
      BY <3>1
  <2>3. t[n + 1] = e /\ \A i \in 1..n : t[i] = packets[i]
    BY <2>1
  <2> HIDE DEF t, n
  <2>4. ASSUME NEW i \in DOMAIN t PROVE t[i] # <<>> /\ Bytes(t[i]) \in Nat /\ Fits(Bytes(t[i]))
    <3>1. i = n + 1 \/ i \in 1..n
      BY <2>2, <2>9
    <3> QED
      BY <2>1, <2>2, <2>3, <3>1, Zenon DEF Filled
  <2>5. Filled(t)
    BY <2>4, Zenon DEF Filled
  <2> QED
    BY <1>1, <1>3, <2>5, Zenon DEF t, e
<1> QED
  BY <1>2, <1>3, Zenon

\* No datagram is empty or too large when no operation is.
THEOREM DatagramsFit ==
  ASSUME NEW S, NEW ops \in Seq(S),
         \A i \in DOMAIN ops : ops[i].bytes \in Nat /\ Fits(ops[i].bytes)
  PROVE  \A i \in DOMAIN Datagrams(ops) :
            Datagrams(ops)[i] # <<>> /\ Fits(Bytes(Datagrams(ops)[i]))
<1> DEFINE n == Len(ops)
<1>1. PICK f : /\ f[0] = <<>> /\ \A i \in 1..n : f[i] = Packed(f[i - 1], ops[i])
               /\ Datagrams(ops) = f[n]
  BY DatagramsSteps, Zenon
<1>2. n \in Nat /\ DOMAIN ops = 1..n /\ \A i \in 1..n : ops[i] \in S
  OBVIOUS
<1> DEFINE C == {i \in 0..n : f[i] \in Seq(Seq(S)) /\ Filled(f[i])}
<1> HIDE DEF n
<1>3. 0 \in C
  <2>1. <<>> \in Seq(Seq(S)) /\ Filled(<<>>)
    BY DEF Filled
  <2>2. 0 \in 0..n
    BY <1>2
  <2> QED
    BY <1>1, <2>1, <2>2, Zenon
<1>4. ASSUME NEW i \in 1..n, i - 1 \in C PROVE i \in C
  <2>1. i \in 0..n
    BY <1>2
  <2>2. f[i - 1] \in Seq(Seq(S)) /\ Filled(f[i - 1]) /\ ops[i] \in S
    BY <1>2, <1>4, Zenon
  <2>3. ops[i].bytes \in Nat /\ Fits(ops[i].bytes)
    BY <1>2, Zenon
  <2>4. Packed(f[i - 1], ops[i]) \in Seq(Seq(S)) /\ Filled(Packed(f[i - 1], ops[i]))
    BY <2>2, <2>3, PackedKeeps, PackedFits, Zenon
  <2>5. f[i] = Packed(f[i - 1], ops[i])
    BY <1>1, Zenon
  <2> QED
    BY <2>1, <2>4, <2>5, Zenon
<1> HIDE DEF C
<1>5. 0..n \subseteq C
  BY <1>2, <1>3, <1>4, UpTo
<1>6. n \in C
  BY <1>2, <1>5
<1> QED
  BY <1>1, <1>6, Zenon DEF C, Filled

-----------------------------------------------------------------------------
(* What the terminal shows of operations.                                  *)

\* An operation shows V where it draws, whatever the screen shows.
Paints(op, V) ==
  \A before : \A p \in Cells :
    Executed(before, op)[p] = IF Covers(op.rect, p) THEN V[p] ELSE before[p]

\* The operations are small enough, show V, and draw the area.
Draws(ops, V, area) ==
  /\ ops \in Seq(ToSet(ops))
  /\ \A i \in DOMAIN ops : Paints(ops[i], V) /\ Fits(ops[i].bytes)
  /\ \A p \in Cells : p \in area <=> \E i \in DOMAIN ops : Covers(ops[i].rect, p)

LEMMA DisplayedSteps ==
  ASSUME NEW S, NEW ops \in Seq(S), NEW before
  PROVE  \E f : /\ f[0] = before /\ \A i \in 1..Len(ops) : f[i] = Executed(f[i - 1], ops[i])
                /\ Displayed(before, ops) = f[Len(ops)]
<1> DEFINE n == Len(ops)
           after[i \in 0..n] == IF i = 0 THEN before ELSE Executed(after[i - 1], ops[i])
<1>1. n \in Nat
  OBVIOUS
<1>2. PICK f : Steps("display", ops, before, n, f)
  BY <1>1, StepsExist
<1>3. f = [i \in 0..n |-> IF i = 0 THEN before ELSE Executed(f[i - 1], ops[i])]
  <2>1. f = [i \in 0..n |-> IF i = 0 THEN before ELSE StepOf("display", ops, f[i - 1], i)]
    BY <1>2, Zenon DEF Steps
  <2>2. \A i : StepOf("display", ops, f[i - 1], i) = Executed(f[i - 1], ops[i])
    BY StepKinds, Zenon
  <2> QED
    BY <2>1, <2>2, Zenon
<1>4. after = [i \in 0..n |-> IF i = 0 THEN before ELSE Executed(after[i - 1], ops[i])]
  BY <1>3, Zenon
<1>5. Displayed(before, ops) = after[n]
  BY DEF Displayed
<1> HIDE DEF after, n
<1>6. after[0] = before /\ \A i \in 1..n : after[i] = Executed(after[i - 1], ops[i])
  <2>1. 0 \in 0..n /\ \A i \in 1..n : i \in 0..n /\ i # 0
    BY <1>1
  <2> QED
    BY <1>4, <2>1, Zenon
<1> QED
  BY <1>5, <1>6, Zenon DEF n

\* Operations that show the same image can come in any order.
LEMMA DrawnShows ==
  ASSUME NEW ops, NEW V, NEW area, Draws(ops, V, area), NEW before
  PROVE  \A p \in Cells :
            SendBatch(before, ops)[p] = IF p \in area THEN V[p] ELSE before[p]
<1> DEFINE n == Len(ops)
           S == ToSet(ops)
<1>1. ops \in Seq(S)
  BY DEF Draws
<1>2. SendBatch(before, ops) = Displayed(before, ops)
  BY <1>1, DatagramsKeepOrder DEF SendBatch, Draws
<1>3. PICK f : /\ f[0] = before /\ \A i \in 1..n : f[i] = Executed(f[i - 1], ops[i])
               /\ Displayed(before, ops) = f[n]
  BY <1>1, DisplayedSteps, Zenon
<1>4. n \in Nat /\ DOMAIN ops = 1..n
  BY <1>1
<1> DEFINE Over(i, p) == \E j \in 1..i : Covers(ops[j].rect, p)
           C == {i \in 0..n : \A p \in Cells : f[i][p] = IF Over(i, p) THEN V[p] ELSE before[p]}
<1> HIDE DEF n
<1>5. 0 \in C
  <2>1. 0 \in 0..n /\ \A p : ~Over(0, p)
    BY <1>4
  <2> HIDE DEF Over
  <2> QED
    BY <1>3, <2>1, Zenon
<1>6. ASSUME NEW i \in 1..n, i - 1 \in C PROVE i \in C
  <2>1. i \in 0..n /\ \A j : j \in 1..i <=> j \in 1..i - 1 \/ j = i
    BY <1>4
  <2>2. \A p : Over(i, p) <=> Over(i - 1, p) \/ Covers(ops[i].rect, p)
    BY <2>1, Zenon
  <2>3. Paints(ops[i], V)
    BY <1>4, Zenon DEF Draws
  <2>4. f[i] = Executed(f[i - 1], ops[i])
    BY <1>3, Zenon
  <2> HIDE DEF Over
  <2>5. \A p \in Cells : f[i][p] = IF Covers(ops[i].rect, p) THEN V[p] ELSE f[i - 1][p]
    BY <2>3, <2>4, Zenon DEF Paints
  <2>6. \A p \in Cells : f[i - 1][p] = IF Over(i - 1, p) THEN V[p] ELSE before[p]
    BY <1>6, Zenon
  <2>7. \A p \in Cells : f[i][p] = IF Over(i, p) THEN V[p] ELSE before[p]
    BY <2>2, <2>5, <2>6, Zenon
  <2> QED
    BY <2>1, <2>7, Zenon
<1> HIDE DEF C
<1>7. 0..n \subseteq C
  BY <1>4, <1>5, <1>6, UpTo
<1>8. n \in C
  BY <1>4, <1>7
<1>9. \A p \in Cells : f[n][p] = IF Over(n, p) THEN V[p] ELSE before[p]
  BY <1>8, Zenon DEF C
<1> QED
  BY <1>2, <1>3, <1>4, <1>9, Zenon DEF Draws

\* What parts draw, they draw together.
LEMMA DrawsTogether ==
  ASSUME NEW parts, NEW n \in Nat, DOMAIN parts = 1..n, parts = [i \in 1..n |-> parts[i]],
         NEW V, NEW areas, \A i \in 1..n : Draws(parts[i], V, areas[i])
  PROVE  Draws(FlattenSeq(parts), V, UNION {areas[i] : i \in 1..n})
<1> DEFINE S == UNION {ToSet(parts[i]) : i \in 1..n}
           flat == FlattenSeq(parts)
<1>1. ASSUME NEW i \in 1..n PROVE parts[i] \in Seq(S)
  <2>1. parts[i] \in Seq(ToSet(parts[i]))
    BY DEF Draws
  <2>2. ToSet(parts[i]) \subseteq S
    OBVIOUS
  <2> HIDE DEF S
  <2> DEFINE t == parts[i]
             T == ToSet(parts[i])
  <2>3. t \in Seq(T) /\ T \subseteq S
    BY <2>1, <2>2
  <2> HIDE DEF t, T
  <2>4. t \in Seq(S)
    BY <2>3
  <2> QED
    BY <2>4 DEF t
<1>2. parts \in Seq(Seq(S)) /\ DOMAIN parts = 1..n
  <2> HIDE DEF S
  <2> QED
    BY <1>1
<1> HIDE DEF S
<1>3. /\ flat \in Seq(S)
      /\ \A x : Occurs(x, flat) <=> \E i \in 1..n : Occurs(x, parts[i])
  <2>1. parts \in Seq(Seq(S))
    BY <1>2
  <2>2. /\ flat \in Seq(S)
        /\ \A x : Occurs(x, flat) <=> \E i \in DOMAIN parts : Occurs(x, parts[i])
    BY <2>1, FlattenHas
  <2> QED
    BY <2>2, <1>2, Zenon
<1> HIDE DEF flat
<1>4. flat \in Seq(ToSet(flat))
  BY <1>3 DEF ToSet
<1>5. ASSUME NEW j \in DOMAIN flat PROVE Paints(flat[j], V) /\ Fits(flat[j].bytes)
  <2>1. PICK i \in 1..n : \E k \in DOMAIN parts[i] : parts[i][k] = flat[j]
    BY <1>3, Zenon DEF Occurs
  <2> QED
    BY <2>1, Zenon DEF Draws
<1>6. ASSUME NEW p \in Cells
      PROVE  p \in UNION {areas[i] : i \in 1..n} <=> \E j \in DOMAIN flat : Covers(flat[j].rect, p)
  <2>1. p \in UNION {areas[i] : i \in 1..n} <=> \E i \in 1..n : p \in areas[i]
    BY Zenon
  <2>2. \A i \in 1..n : p \in areas[i] <=> \E k \in DOMAIN parts[i] : Covers(parts[i][k].rect, p)
    BY Zenon DEF Draws
  <2>3. (\E i \in 1..n : \E k \in DOMAIN parts[i] : Covers(parts[i][k].rect, p))
          <=> \E j \in DOMAIN flat : Covers(flat[j].rect, p)
    BY <1>3, Zenon DEF Occurs
  <2> QED
    BY <2>1, <2>2, <2>3, Zenon
<1>7. Draws(flat, V, UNION {areas[i] : i \in 1..n})
  BY <1>4, <1>5, <1>6, Zenon DEF Draws
<1> QED
  BY <1>7 DEF flat

-----------------------------------------------------------------------------
(* Runs of lines.                                                          *)

\* A rectangle of an image.
Inside(rect, img) ==
  /\ rect \in Rectangle
  /\ 0 <= rect.x /\ rect.x + rect.w <= img.w
  /\ 0 <= rect.y /\ rect.y + rect.h <= img.h

Lines(rect) == rect.y..rect.y + rect.h - 1

\* The runs of the first m lines of a rectangle.
RunsOf(img, rect, m, runs) ==
  /\ runs \in Seq(Rectangle)
  /\ \A i \in DOMAIN runs :
        /\ runs[i].x = rect.x /\ runs[i].w = rect.w
        /\ rect.y <= runs[i].y /\ runs[i].y + runs[i].h <= rect.y + m
        /\ \A y \in Lines(runs[i]) : Encoding(img, rect, y) = Encoding(img, rect, runs[i].y)
  /\ runs # <<>> => Last(runs).y + Last(runs).h = rect.y + m
  /\ \A y \in rect.y..rect.y + m - 1 : \E i \in DOMAIN runs : y \in Lines(runs[i])

LEMMA JoinedKeeps ==
  ASSUME NEW img, NEW rect \in Rectangle, NEW m \in Nat, NEW runs, RunsOf(img, rect, m, runs)
  PROVE  RunsOf(img, rect, m + 1, Joined(img, rect, runs, rect.y + m))
<1> DEFINE y0 == rect.y + m
           n == Len(runs)
           E(y) == Encoding(img, rect, y)
           joins == runs # <<>> /\ E(Last(runs).y) = E(y0)
           last == runs[n]
           grown == [runs EXCEPT ![n].h = @ + 1]
           new == [x |-> rect.x, y |-> y0, w |-> rect.w, h |-> 1]
           added == Append(runs, new)
<1>1. Joined(img, rect, runs, y0) = IF joins THEN grown ELSE added
  BY DEF Joined, Compatible, Rect, Last
<1>2. /\ rect.x \in Int /\ rect.y \in Int /\ rect.w \in Nat \ {0} /\ y0 \in Int
      /\ rect.y + (m + 1) = y0 + 1
  BY DEF Rectangle
<1>3. /\ runs \in Seq(Rectangle) /\ n \in Nat /\ DOMAIN runs = 1..n
      /\ \A i \in 1..n : runs[i] \in Rectangle
  BY DEF RunsOf
<1>4. \A i \in 1..n :
        /\ runs[i].x = rect.x /\ runs[i].w = rect.w
        /\ rect.y <= runs[i].y /\ runs[i].y + runs[i].h <= y0
        /\ \A y \in Lines(runs[i]) : E(y) = E(runs[i].y)
  BY <1>3 DEF RunsOf
<1>5. \A y \in rect.y..y0 - 1 : \E i \in 1..n : y \in Lines(runs[i])
  <2>1. y0 - 1 = rect.y + m - 1
    BY <1>2
  <2> QED
    BY <1>3, <2>1, Zenon DEF RunsOf
<1>6. CASE joins
  <2>1. n \in 1..n /\ last \in Rectangle /\ last.y + last.h = y0 /\ E(last.y) = E(y0)
    BY <1>3, <1>6 DEF RunsOf, Last
  <2>2. last.y \in Int /\ last.h \in Nat \ {0}
    BY <2>1 DEF Rectangle
  <2> DEFINE taller == [last EXCEPT !.h = last.h + 1]
  <2> HIDE DEF last
  <2>3. /\ taller \in Rectangle /\ taller.x = last.x /\ taller.y = last.y
        /\ taller.w = last.w /\ taller.h = last.h + 1
    BY <2>1 DEF Rectangle
  <2>4. grown = [runs EXCEPT ![n] = taller]
    BY DEF last
  <2> HIDE DEF taller, grown
  <2>5. grown \in Seq(Rectangle) /\ Len(grown) = n
    BY <1>3, <2>1, <2>3, <2>4
  <2>6. DOMAIN grown = 1..n /\ grown[n] = taller /\ \A i \in 1..n : i # n => grown[i] = runs[i]
    BY <1>3, <2>1, <2>4
  <2>7. \A y : y \in Lines(taller) <=> y \in Lines(last) \/ y = y0
    BY <2>1, <2>2, <2>3 DEF Lines
  <2> HIDE DEF last, n, E, y0
  <2>8. ASSUME NEW i \in 1..n
        PROVE  /\ grown[i].x = rect.x /\ grown[i].w = rect.w
               /\ rect.y <= grown[i].y /\ grown[i].y + grown[i].h <= y0 + 1
               /\ \A y \in Lines(grown[i]) : E(y) = E(grown[i].y)
    <3>1. CASE i # n
      <4>1. grown[i] = runs[i]
        BY <2>6, <3>1
      <4>2. runs[i].y + runs[i].h <= y0 + 1
        <5> DEFINE y == runs[i].y
                   h == runs[i].h
        <5>1. y + h <= y0
          BY <1>4, Zenon
        <5>2. y \in Int /\ h \in Nat
          <6>1. runs[i] \in Rectangle
            BY <1>3
          <6> QED
            BY <6>1 DEF Rectangle
        <5> HIDE DEF y, h
        <5>3. y + h <= y0 + 1
          BY <1>2, <5>1, <5>2
        <5> QED
          BY <5>3 DEF y, h
      <4> QED
        BY <1>4, <4>1, <4>2, Zenon
    <3>2. CASE i = n
      <4>1. grown[i] = taller /\ runs[i] = last
        BY <2>6, <3>2, Zenon DEF last
      <4>2. taller.y + taller.h <= y0 + 1
        BY <1>2, <2>1, <2>2, <2>3
      <4>3. \A y \in Lines(taller) : E(y) = E(taller.y)
        BY <1>4, <2>1, <2>3, <2>7, <4>1, Zenon
      <4> QED
        BY <1>4, <2>3, <4>1, <4>2, <4>3, Zenon
    <3> QED
      BY <3>1, <3>2
  <2>9. Last(grown).y + Last(grown).h = y0 + 1
    <3>1. Last(grown) = taller
      BY <2>5, <2>6, Zenon DEF Last
    <3> QED
      BY <1>2, <2>1, <2>2, <2>3, <3>1
  <2>10. ASSUME NEW y \in rect.y..y0 PROVE \E i \in 1..n : y \in Lines(grown[i])
    <3>1. CASE y = y0
      BY <2>1, <2>6, <2>7, <3>1, Zenon
    <3>2. CASE y # y0
      <4>1. y \in rect.y..y0 - 1
        BY <1>2, <3>2
      <4>2. PICK i \in 1..n : y \in Lines(runs[i])
        BY <1>5, <4>1
      <4>3. y \in Lines(grown[i])
        BY <2>6, <2>7, <4>2, Zenon DEF last
      <4> QED
        BY <4>3
    <3> QED
      BY <3>1, <3>2
  <2>11. RunsOf(img, rect, m + 1, grown)
    <3>1. grown \in Seq(Rectangle) /\ DOMAIN grown = 1..n
      BY <2>5, <2>6, Zenon
    <3>2. \A i \in DOMAIN grown :
            /\ grown[i].x = rect.x /\ grown[i].w = rect.w
            /\ rect.y <= grown[i].y /\ grown[i].y + grown[i].h <= rect.y + (m + 1)
            /\ \A y \in Lines(grown[i]) : Encoding(img, rect, y) = Encoding(img, rect, grown[i].y)
      BY <1>2, <2>8, <3>1, Zenon DEF E
    <3>3. Last(grown).y + Last(grown).h = rect.y + (m + 1)
      BY <1>2, <2>9, Zenon
    <3>4. rect.y + (m + 1) - 1 = y0
      BY <1>2 DEF y0
    <3>5. \A y \in rect.y..rect.y + (m + 1) - 1 : \E i \in DOMAIN grown : y \in Lines(grown[i])
      BY <2>10, <3>1, <3>4, Zenon
    <3> QED
      BY <3>1, <3>2, <3>3, <3>5, Zenon DEF RunsOf
  <2> QED
    BY <1>1, <1>6, <2>11, Zenon DEF y0
<1>7. CASE ~joins
  <2>1. new \in Rectangle /\ new.y = y0 /\ new.h = 1 /\ new.x = rect.x /\ new.w = rect.w
    BY <1>2 DEF Rectangle
  <2>2. \A y : y \in Lines(new) <=> y = y0
    BY <1>2, <2>1 DEF Lines
  <2> HIDE DEF new
  <2>3. added \in Seq(Rectangle) /\ Len(added) = n + 1
    BY <1>3, <2>1
  <2>4. added[n + 1] = new /\ \A i \in 1..n : added[i] = runs[i]
    BY <1>3
  <2> HIDE DEF added, n, y0, E
  <2>5. DOMAIN added = 1..n + 1 /\ added # <<>>
    <3>1. n \in Nat
      BY <1>3
    <3>2. Len(<<>>) = 0
      OBVIOUS
    <3> QED
      BY <2>3, <3>1, <3>2
  <2>6. ASSUME NEW i \in 1..n + 1
        PROVE  /\ added[i].x = rect.x /\ added[i].w = rect.w
               /\ rect.y <= added[i].y /\ added[i].y + added[i].h <= y0 + 1
               /\ \A y \in Lines(added[i]) : E(y) = E(added[i].y)
    <3>1. CASE i \in 1..n
      <4>1. added[i] = runs[i]
        BY <2>4, <3>1
      <4>2. runs[i].y + runs[i].h <= y0 + 1
        <5> DEFINE y == runs[i].y
                   h == runs[i].h
        <5>1. y + h <= y0
          BY <1>4, <3>1, Zenon
        <5>2. y \in Int /\ h \in Nat
          <6>1. runs[i] \in Rectangle
            BY <1>3, <3>1
          <6> QED
            BY <6>1 DEF Rectangle
        <5> HIDE DEF y, h
        <5>3. y + h <= y0 + 1
          BY <1>2, <5>1, <5>2
        <5> QED
          BY <5>3 DEF y, h
      <4> QED
        BY <1>4, <3>1, <4>1, <4>2, Zenon
    <3>2. CASE i \notin 1..n
      <4>1. i = n + 1
        BY <1>3, <3>2
      <4>2. added[i] = new
        BY <2>4, <4>1, Zenon
      <4>3. rect.y <= y0
        BY <1>2 DEF y0
      <4>4. new.y + new.h <= y0 + 1
        BY <1>2, <2>1
      <4> QED
        BY <2>1, <2>2, <4>2, <4>3, <4>4, Zenon
    <3> QED
      BY <3>1, <3>2
  <2>7. Last(added).y + Last(added).h = y0 + 1
    <3>1. Last(added) = new
      BY <2>3, <2>4, Zenon DEF Last
    <3> QED
      BY <1>2, <2>1, <3>1
  <2>8. ASSUME NEW y \in rect.y..y0 PROVE \E i \in 1..n + 1 : y \in Lines(added[i])
    <3>1. CASE y = y0
      <4>1. n + 1 \in 1..n + 1
        BY <1>3
      <4> QED
        BY <2>2, <2>4, <3>1, <4>1, Zenon
    <3>2. CASE y # y0
      <4>1. y \in rect.y..y0 - 1
        BY <1>2, <3>2
      <4>2. PICK i \in 1..n : y \in Lines(runs[i])
        BY <1>5, <4>1
      <4>3. i \in 1..n + 1
        BY <1>3
      <4> QED
        BY <2>4, <4>2, <4>3, Zenon
    <3> QED
      BY <3>1, <3>2
  <2>9. RunsOf(img, rect, m + 1, added)
    <3>1. added \in Seq(Rectangle) /\ DOMAIN added = 1..n + 1
      BY <2>3, <2>5, Zenon
    <3>2. \A i \in DOMAIN added :
            /\ added[i].x = rect.x /\ added[i].w = rect.w
            /\ rect.y <= added[i].y /\ added[i].y + added[i].h <= rect.y + (m + 1)
            /\ \A y \in Lines(added[i]) : Encoding(img, rect, y) = Encoding(img, rect, added[i].y)
      BY <1>2, <2>6, <3>1, Zenon DEF E
    <3>3. Last(added).y + Last(added).h = rect.y + (m + 1)
      BY <1>2, <2>7, Zenon
    <3>4. rect.y + (m + 1) - 1 = y0
      BY <1>2 DEF y0
    <3>5. \A y \in rect.y..rect.y + (m + 1) - 1 : \E i \in DOMAIN added : y \in Lines(added[i])
      BY <2>8, <3>1, <3>4, Zenon
    <3> QED
      BY <3>1, <3>2, <3>3, <3>5, Zenon DEF RunsOf
  <2> QED
    BY <1>1, <1>7, <2>9, Zenon DEF y0
<1> QED
  BY <1>6, <1>7

\* The runs have each line of the rectangle, and only lines of one encoding
\* are joined.
LEMMA RunsCover ==
  ASSUME NEW img, NEW rect \in Rectangle
  PROVE  RunsOf(img, rect, rect.h, LineRuns(img, rect))
<1> DEFINE n == rect.h
           data == [img |-> img, rect |-> rect]
           after[i \in 0..n] ==
             IF i = 0 THEN <<>> ELSE Joined(img, rect, after[i - 1], rect.y + i - 1)
<1>1. n \in Nat /\ rect.y \in Int
  BY DEF Rectangle
<1>2. PICK f : Steps("runs", data, <<>>, n, f)
  BY <1>1, StepsExist
<1>3. f = [i \in 0..n |-> IF i = 0 THEN <<>> ELSE Joined(img, rect, f[i - 1], rect.y + i - 1)]
  <2>1. f = [i \in 0..n |-> IF i = 0 THEN <<>> ELSE StepOf("runs", data, f[i - 1], i)]
    BY <1>2, Zenon DEF Steps
  <2>2. data.img = img /\ data.rect = rect
    OBVIOUS
  <2> HIDE DEF data
  <2>3. ASSUME NEW i
        PROVE  StepOf("runs", data, f[i - 1], i)
                 = Joined(data.img, data.rect, f[i - 1], data.rect.y + i - 1)
    <3> DEFINE b == f[i - 1]
    <3> HIDE DEF b
    <3>1. StepOf("runs", data, b, i) = Joined(data.img, data.rect, b, data.rect.y + i - 1)
      BY DEF StepOf
    <3> QED
      BY <3>1 DEF b
  <2>4. \A i : StepOf("runs", data, f[i - 1], i) = Joined(img, rect, f[i - 1], rect.y + i - 1)
    BY <2>2, <2>3, Zenon
  <2> QED
    BY <2>1, <2>4, Zenon
<1>4. after = [i \in 0..n |-> IF i = 0 THEN <<>> ELSE Joined(img, rect, after[i - 1], rect.y + i - 1)]
  BY <1>3, Zenon
<1>5. LineRuns(img, rect) = after[n]
  BY DEF LineRuns
<1> HIDE DEF after, n
<1>6. after[0] = <<>> /\ \A i \in 1..n : after[i] = Joined(img, rect, after[i - 1], rect.y + i - 1)
  <2>1. 0 \in 0..n /\ \A i \in 1..n : i \in 0..n /\ i # 0
    BY <1>1
  <2> QED
    BY <1>4, <2>1, Zenon
<1> DEFINE C == {i \in 0..n : RunsOf(img, rect, i, after[i])}
<1>7. 0 \in C
  <2>1. RunsOf(img, rect, 0, <<>>)
    BY <1>1 DEF RunsOf
  <2>2. 0 \in 0..n
    BY <1>1
  <2> QED
    BY <1>6, <2>1, <2>2, Zenon
<1>8. ASSUME NEW i \in 1..n, i - 1 \in C PROVE i \in C
  <2>1. i \in 0..n /\ i - 1 \in Nat /\ (i - 1) + 1 = i /\ rect.y + i - 1 = rect.y + (i - 1)
    BY <1>1
  <2>2. RunsOf(img, rect, i - 1, after[i - 1])
    BY <1>8
  <2>3. RunsOf(img, rect, (i - 1) + 1, Joined(img, rect, after[i - 1], rect.y + (i - 1)))
    BY <2>1, <2>2, JoinedKeeps
  <2>4. RunsOf(img, rect, i, after[i])
    BY <1>6, <2>1, <2>3, Zenon
  <2> QED
    BY <2>1, <2>4, Zenon
<1> HIDE DEF C
<1>9. 0..n \subseteq C
  BY <1>1, <1>7, <1>8, UpTo
<1>10. n \in C
  BY <1>1, <1>9
<1> QED
  BY <1>5, <1>10, Zenon DEF C, n

-----------------------------------------------------------------------------
(* What a run draws.                                                       *)

LowOf(L)  == CHOOSE c \in L : \A d \in L : c <= d
HighOf(L) == CHOOSE c \in L : \A d \in L : c >= d

\* One or two colours are the lowest and the highest.
LEMMA LowHigh ==
  ASSUME NEW L, L \subseteq Nat, IsFiniteSet(L), Cardinality(L) \in {1, 2}
  PROVE  /\ \A c \in L : c = LowOf(L) \/ c = HighOf(L)
         /\ Cardinality(L) = 1 => \A c \in L : c = LowOf(L)
<1>1. L # {}
  BY FS_EmptySet
<1>2. PICK a \in L : \A d \in L : a <= d
  BY <1>1, Least
<1>3. CASE Cardinality(L) = 1
  <2>1. PICK b : L = {b}
    BY <1>3, FS_Singleton
  <2>2. \A d \in L : b <= d /\ b \in L
    BY <2>1
  <2>3. LowOf(L) \in L
    BY <2>2 DEF LowOf
  <2> QED
    BY <2>1, <2>3
<1>4. CASE Cardinality(L) = 2
  <2> DEFINE R == L \ {a}
  <2>1. IsFiniteSet(R) /\ Cardinality(R) = 1
    BY <1>4, FS_RemoveElement
  <2>2. PICK b : R = {b}
    BY <2>1, FS_Singleton
  <2>3. b \in L /\ b # a /\ \A c \in L : c = a \/ c = b
    BY <2>2
  <2>4. a <= b /\ a \in Nat /\ b \in Nat
    BY <1>2, <2>3
  <2>5. \A d \in L : b >= d
    BY <2>3, <2>4
  <2>6. LowOf(L) \in L /\ \A d \in L : LowOf(L) <= d
    BY <1>2 DEF LowOf
  <2>7. HighOf(L) \in L /\ \A d \in L : HighOf(L) >= d
    BY <2>3, <2>5 DEF HighOf
  <2> DEFINE l == LowOf(L)
             h == HighOf(L)
  <2> HIDE DEF l, h
  <2>8. l = a
    <3>1. l \in L /\ l <= a
      BY <2>6 DEF l
    <3>2. l = a \/ l = b
      BY <2>3, <3>1
    <3> QED
      BY <2>3, <2>4, <3>1, <3>2
  <2>9. h = b
    <3>1. h \in L /\ h >= b
      BY <2>3, <2>7 DEF h
    <3>2. h = a \/ h = b
      BY <2>3, <3>1
    <3> QED
      BY <2>3, <2>4, <3>1, <3>2
  <2>10. \A c \in L : c = l \/ c = h
    BY <2>3, <2>8, <2>9, Zenon
  <2>11. Cardinality(L) # 1
    BY <1>4
  <2> QED
    BY <2>10, <2>11, Zenon DEF l, h
<1> QED
  BY <1>3, <1>4

Colours(img, rect, y) == {img.at[<<x, y>>] : x \in rect.x..rect.x + rect.w - 1}

LEMMA EncodingIs ==
  ASSUME NEW img, IsImage(img), NEW rect, Inside(rect, img), NEW y \in Lines(rect)
  PROVE  LET L == Encoding(img, rect, y)
         IN  Cardinality(L) \in {1, 2} =>
                /\ L = Colours(img, rect, y)
                /\ L \subseteq Nat /\ IsFiniteSet(L)
<1> DEFINE X == rect.x..rect.x + rect.w - 1
           L == Colours(img, rect, y)
           f == [x \in X |-> img.at[<<x, y>>]]
<1>1. /\ rect.x \in Int /\ rect.y \in Int /\ rect.w \in Nat \ {0} /\ rect.h \in Nat \ {0}
      /\ 0 <= rect.x /\ rect.x + rect.w <= img.w /\ 0 <= rect.y /\ rect.y + rect.h <= img.h
      /\ img.w \in Nat /\ img.h \in Nat
  BY DEF Inside, Rectangle, IsImage
<1>2. IsFiniteSet(X)
  <2> DEFINE a == rect.x
             b == rect.x + rect.w - 1
  <2>1. a \in Int /\ b \in Int
    BY <1>1
  <2> HIDE DEF a, b
  <2>2. IsFiniteSet(a..b)
    BY <2>1, FS_Interval
  <2> QED
    BY <2>2 DEF a, b
<1>3. \A x \in X : x \in 0..img.w - 1 /\ y \in 0..img.h - 1
  BY <1>1 DEF Lines
<1>4. img.at \in [(0..img.w - 1) \X (0..img.h - 1) -> Nat]
  BY DEF IsImage
<1> HIDE DEF X
<1>5. \A x \in X : img.at[<<x, y>>] \in Nat
  BY <1>3, <1>4
<1>6. L = {img.at[<<x, y>>] : x \in X}
  BY DEF Colours, X
<1>7. L \subseteq Nat
  BY <1>5, <1>6
<1>8. f \in Surjection(X, L)
  BY <1>6, Zenon DEF Surjection
<1>9. IsFiniteSet(L)
  <2> HIDE DEF f, L
  <2> QED
    BY <1>2, <1>8, FS_Surjection
<1>10. Encoding(img, rect, y) = IF Cardinality(L) <= 2 THEN L ELSE {}
  BY DEF Encoding, Colours
<1>11. Cardinality({}) = 0
  BY FS_EmptySet
<1> HIDE DEF L
<1>12. ASSUME Cardinality(Encoding(img, rect, y)) \in {1, 2} PROVE Encoding(img, rect, y) = L
  <2>1. CASE Cardinality(L) <= 2
    BY <1>10, <2>1, Zenon
  <2>2. CASE ~(Cardinality(L) <= 2)
    <3>1. Cardinality(Encoding(img, rect, y)) = 0
      BY <1>10, <1>11, <2>2, Zenon
    <3> QED
      BY <1>12, <3>1
  <2> QED
    BY <2>1, <2>2
<1> QED
  BY <1>7, <1>9, <1>12, Zenon DEF L

\* The point of an image that a cell shows.
From(p, offset) == <<p[1] - offset.x, p[2] - offset.y>>

IsOffset(offset) == offset = [x |-> offset.x, y |-> offset.y] /\ offset.x \in Int /\ offset.y \in Int

LEMMA MovedIs ==
  ASSUME NEW r, r = [x |-> r.x, y |-> r.y, w |-> r.w, h |-> r.h], NEW dst
  PROVE  MovedTo(r, dst) = [x |-> dst.x, y |-> dst.y, w |-> r.w, h |-> r.h]
<1> DEFINE a == r.x
           b == r.y
           c == r.w
           d == r.h
           u == dst.x
           v == dst.y
           s == [r EXCEPT !.x = u]
<1>1. r = [x |-> a, y |-> b, w |-> c, h |-> d]
  OBVIOUS
<1>2. MovedTo(r, dst) = [s EXCEPT !.y = v]
  <2>1. [r EXCEPT !.x = u, !.y = v] = [s EXCEPT !.y = v]
    OBVIOUS
  <2> QED
    BY <2>1 DEF MovedTo
<1> SUFFICES [s EXCEPT !.y = v] = [x |-> u, y |-> v, w |-> c, h |-> d]
  BY <1>2
<1> HIDE DEF a, b, c, d, u, v
<1>3. s = [x |-> u, y |-> b, w |-> c, h |-> d]
  BY <1>1, SMTT(30)
<1> HIDE DEF s
<1> QED
  BY <1>3, SMTT(30)

\* Where a rectangle is drawn.
LEMMA Moved ==
  ASSUME NEW r, r.x \in Int, r.y \in Int, r.w \in Nat, r.h \in Nat,
         r = [x |-> r.x, y |-> r.y, w |-> r.w, h |-> r.h],
         NEW offset, IsOffset(offset), NEW dst, dst = [x |-> r.x + offset.x, y |-> r.y + offset.y]
  PROVE  \A p \in Cells :
            /\ Covers(MovedTo(r, dst), p) <=> Covers(r, From(p, offset))
            /\ Covers(MovedTo(r, dst), p) <=> p \in Points(MovedTo(r, dst))
            /\ <<p[1] - dst.x + r.x, p[2] - dst.y + r.y>> = From(p, offset)
<1>1. ScreenSize.x \in Nat \ {0} /\ ScreenSize.y \in Nat \ {0}
  BY DrawAssumption
<1>2. offset.x \in Int /\ offset.y \in Int
  BY DEF IsOffset
<1>3. MovedTo(r, dst) = [x |-> r.x + offset.x, y |-> r.y + offset.y, w |-> r.w, h |-> r.h]
  <2>1. MovedTo(r, dst) = [x |-> dst.x, y |-> dst.y, w |-> r.w, h |-> r.h]
    BY MovedIs
  <2>3. dst.x = r.x + offset.x /\ dst.y = r.y + offset.y
    <3> DEFINE a == r.x + offset.x
               b == r.y + offset.y
    <3>1. dst = [x |-> a, y |-> b]
      OBVIOUS
    <3> HIDE DEF a, b
    <3>2. dst.x = a /\ dst.y = b
      BY <3>1
    <3> QED
      BY <3>2 DEF a, b
  <2> QED
    BY <2>1, <2>3, Zenon
<1> SUFFICES ASSUME NEW p \in Cells
             PROVE  /\ Covers(MovedTo(r, dst), p) <=> Covers(r, From(p, offset))
                    /\ Covers(MovedTo(r, dst), p) <=> p \in Points(MovedTo(r, dst))
                    /\ <<p[1] - dst.x + r.x, p[2] - dst.y + r.y>> = From(p, offset)
  OBVIOUS
<1>4. p = <<p[1], p[2]>> /\ p[1] \in Int /\ p[2] \in Int
  BY <1>1 DEF Cells
<1>5. Covers(MovedTo(r, dst), p) <=> /\ p[1] \in r.x + offset.x..r.x + offset.x + r.w - 1
                                     /\ p[2] \in r.y + offset.y..r.y + offset.y + r.h - 1
  BY <1>3 DEF Covers
<1>6. Covers(r, From(p, offset)) <=> /\ p[1] - offset.x \in r.x..r.x + r.w - 1
                                     /\ p[2] - offset.y \in r.y..r.y + r.h - 1
  BY DEF Covers, From
<1>7. Covers(MovedTo(r, dst), p) <=> Covers(r, From(p, offset))
  BY <1>2, <1>4, <1>5, <1>6
<1>8. Covers(MovedTo(r, dst), p) <=> p \in Points(MovedTo(r, dst))
  BY <1>3, <1>4 DEF Covers, Points
<1>9. <<p[1] - dst.x + r.x, p[2] - dst.y + r.y>> = From(p, offset)
  BY <1>2, <1>4 DEF From
<1> QED
  BY <1>7, <1>8, <1>9

On(r, offset) == Point(r.x + offset.x, r.y + offset.y)

\* The cells of the screen that show a rectangle.
AreaOf(r, offset) == {p \in Cells : Covers(r, From(p, offset))}

\* An operation shows V in the cells of a rectangle.
DrawsRect(op, r, offset, V) ==
  /\ Paints(op, V)
  /\ \A p \in Cells : Covers(op.rect, p) <=> p \in AreaOf(r, offset)

LEMMA MovedOn ==
  ASSUME NEW r \in Rectangle, NEW offset, IsOffset(offset)
  PROVE  LET dst == On(r, offset)
         IN  \A p \in Cells :
                /\ Covers(MovedTo(r, dst), p) <=> p \in AreaOf(r, offset)
                /\ Covers(MovedTo(r, dst), p) <=> p \in Points(MovedTo(r, dst))
                /\ <<p[1] - dst.x + r.x, p[2] - dst.y + r.y>> = From(p, offset)
<1> DEFINE dst == On(r, offset)
<1>1. /\ r.x \in Int /\ r.y \in Int /\ r.w \in Nat /\ r.h \in Nat
      /\ r = [x |-> r.x, y |-> r.y, w |-> r.w, h |-> r.h]
  BY DEF Rectangle
<1>2. dst = [x |-> r.x + offset.x, y |-> r.y + offset.y]
  BY DEF On, Point
<1> HIDE DEF dst
<1>3. \A p \in Cells :
        /\ Covers(MovedTo(r, dst), p) <=> Covers(r, From(p, offset))
        /\ Covers(MovedTo(r, dst), p) <=> p \in Points(MovedTo(r, dst))
        /\ <<p[1] - dst.x + r.x, p[2] - dst.y + r.y>> = From(p, offset)
  BY <1>1, <1>2, Moved
<1> QED
  BY <1>3 DEF AreaOf, dst

LEMMA FillDraws ==
  ASSUME NEW r \in Rectangle, NEW offset, IsOffset(offset), NEW V, NEW c,
         \A p \in AreaOf(r, offset) : V[p] = c
  PROVE  /\ DrawsRect(FillRect(r, On(r, offset), c), r, offset, V)
         /\ Fits(FillRect(r, On(r, offset), c).bytes)
<1> DEFINE dst == On(r, offset)
           op == FillRect(r, dst, c)
<1>1. op.code = "fill" /\ op.rect = MovedTo(r, dst) /\ op.bytes = 16 /\ op.colour = c
  BY DEF FillRect
<1>2. \A p \in Cells : Covers(MovedTo(r, dst), p) <=> p \in AreaOf(r, offset)
  BY MovedOn
<1> HIDE DEF dst, op
<1>3. ASSUME NEW before, NEW p \in Cells
      PROVE  Executed(before, op)[p] = IF Covers(op.rect, p) THEN V[p] ELSE before[p]
  <2>1. Covers(op.rect, p) => V[p] = c
    BY <1>1, <1>2, Zenon
  <2> QED
    BY <1>1, <2>1 DEF Executed
<1>4. Fits(op.bytes)
  BY <1>1, DatagramAssumption DEF DatagramLimit, Fits, PacketHeader
<1>5. Paints(op, V)
  BY <1>3, Zenon DEF Paints
<1> QED
  BY <1>1, <1>2, <1>4, <1>5, Zenon DEF DrawsRect, op, dst

LEMMA RGBDraws ==
  ASSUME NEW r \in Rectangle, NEW offset, IsOffset(offset), NEW img, NEW V,
         \A p \in AreaOf(r, offset) : V[p] = img.at[From(p, offset)]
  PROVE  /\ DrawsRect(BitmapRGB(img, r, On(r, offset)), r, offset, V)
         /\ BitmapRGB(img, r, On(r, offset)).bytes = RGBBytes(r.w, r.h)
<1> DEFINE dst == On(r, offset)
           op == BitmapRGB(img, r, dst)
           P == Points(MovedTo(r, dst))
           pixels == [p \in P |-> img.at[<<p[1] - dst.x + r.x, p[2] - dst.y + r.y>>]]
<1>1. /\ op.code = "bitmap" /\ op.rect = MovedTo(r, dst) /\ op.bytes = RGBBytes(r.w, r.h)
      /\ op.pixels = pixels
  BY DEF BitmapRGB
<1>2. \A p \in Cells :
        /\ Covers(MovedTo(r, dst), p) <=> p \in AreaOf(r, offset)
        /\ Covers(MovedTo(r, dst), p) <=> p \in P
        /\ <<p[1] - dst.x + r.x, p[2] - dst.y + r.y>> = From(p, offset)
  BY MovedOn
<1> HIDE DEF dst, op, P
<1>3. ASSUME NEW before, NEW p \in Cells
      PROVE  Executed(before, op)[p] = IF Covers(op.rect, p) THEN V[p] ELSE before[p]
  <2>1. ASSUME Covers(op.rect, p) PROVE V[p] = op.pixels[p]
    <3>1. p \in P /\ p \in AreaOf(r, offset)
      BY <1>1, <1>2, <2>1, Zenon
    <3>2. pixels[p] = img.at[From(p, offset)]
      BY <1>2, <3>1, Zenon
    <3>3. V[p] = img.at[From(p, offset)]
      BY <3>1
    <3> QED
      BY <1>1, <3>2, <3>3, Zenon
  <2> QED
    BY <1>1, <2>1 DEF Executed
<1>4. Paints(op, V)
  BY <1>3, Zenon DEF Paints
<1> QED
  BY <1>1, <1>2, <1>4, Zenon DEF DrawsRect, op, dst

LEMMA BiColorDraws ==
  ASSUME NEW r \in Rectangle, NEW offset, IsOffset(offset), NEW img, NEW V, NEW c0, NEW c1,
         \A p \in AreaOf(r, offset) : V[p] = img.at[From(p, offset)] /\ (V[p] = c0 \/ V[p] = c1)
  PROVE  /\ DrawsRect(BitmapBiColor(img, r, On(r, offset), c0, c1), r, offset, V)
         /\ BitmapBiColor(img, r, On(r, offset), c0, c1).bytes = BiColorBytes(r.w, r.h)
<1> DEFINE dst == On(r, offset)
           rgb == BitmapRGB(img, r, dst)
           op == BitmapBiColor(img, r, dst, c0, c1)
           P == Points(MovedTo(r, dst))
           pixels == [p \in P |-> img.at[<<p[1] - dst.x + r.x, p[2] - dst.y + r.y>>]]
           two == [p \in DOMAIN rgb.pixels |-> IF rgb.pixels[p] = c1 THEN c1 ELSE c0]
<1>1. /\ rgb.code = "bitmap" /\ rgb.rect = MovedTo(r, dst) /\ rgb.pixels = pixels
      /\ DOMAIN rgb = {"code", "rect", "bytes", "pixels"}
  BY DEF BitmapRGB
<1>2. \A p \in Cells :
        /\ Covers(MovedTo(r, dst), p) <=> p \in AreaOf(r, offset)
        /\ Covers(MovedTo(r, dst), p) <=> p \in P
        /\ <<p[1] - dst.x + r.x, p[2] - dst.y + r.y>> = From(p, offset)
  BY MovedOn
<1> HIDE DEF dst, rgb, P
<1>3. op = [rgb EXCEPT !.bytes = BiColorBytes(r.w, r.h), !.pixels = two]
  BY DEF BitmapBiColor, rgb
<1>4. /\ op.code = "bitmap" /\ op.rect = MovedTo(r, dst) /\ op.bytes = BiColorBytes(r.w, r.h)
      /\ op.pixels = two
  <2> DEFINE b == BiColorBytes(r.w, r.h)
             s == [rgb EXCEPT !.bytes = b]
  <2> HIDE DEF op, two, b
  <2>1. op = [s EXCEPT !.pixels = two]
    BY <1>3 DEF b
  <2>2. s.code = rgb.code /\ s.rect = rgb.rect /\ s.bytes = b /\ DOMAIN s = DOMAIN rgb
    BY <1>1
  <2> HIDE DEF s
  <2>3. op.code = s.code /\ op.rect = s.rect /\ op.bytes = s.bytes /\ op.pixels = two
    BY <1>1, <2>1, <2>2
  <2> QED
    BY <1>1, <2>2, <2>3, Zenon DEF b
<1>5. DOMAIN rgb.pixels = P /\ \A p \in P : rgb.pixels[p] = pixels[p]
  BY <1>1
<1> HIDE DEF op
<1>6. \A p \in P : op.pixels[p] = IF pixels[p] = c1 THEN c1 ELSE c0
  <2>1. \A p \in P : two[p] = IF pixels[p] = c1 THEN c1 ELSE c0
    <3> HIDE DEF pixels
    <3> QED
      BY <1>5, Zenon
  <2> HIDE DEF two, pixels
  <2> QED
    BY <1>4, <2>1, Zenon
<1> HIDE DEF two
<1>7. ASSUME NEW before, NEW p \in Cells
      PROVE  Executed(before, op)[p] = IF Covers(op.rect, p) THEN V[p] ELSE before[p]
  <2>1. ASSUME Covers(op.rect, p) PROVE V[p] = op.pixels[p]
    <3>1. p \in P /\ p \in AreaOf(r, offset)
      BY <1>2, <1>4, <2>1, Zenon
    <3>2. pixels[p] = img.at[From(p, offset)]
      BY <1>2, <3>1, Zenon
    <3>3. V[p] = img.at[From(p, offset)] /\ (V[p] = c0 \/ V[p] = c1)
      BY <3>1
    <3> QED
      BY <1>6, <3>1, <3>2, <3>3, Zenon
  <2> QED
    BY <1>4, <2>1 DEF Executed
<1>8. Paints(op, V)
  BY <1>7, Zenon DEF Paints
<1> QED
  BY <1>2, <1>4, <1>8, Zenon DEF DrawsRect, op, dst

LEMMA TileIsRectangle ==
  ASSUME NEW rect \in Rectangle, NEW tile \in TileSize, NEW i \in DOMAIN Tiles(rect, tile)
  PROVE  /\ Tiles(rect, tile)[i] \in Rectangle
         /\ \A q : Covers(Tiles(rect, tile)[i], q) => Covers(rect, q)
<1> DEFINE t == Tiles(rect, tile)[i]
<1>1. t = [x |-> t.x, y |-> t.y, w |-> t.w, h |-> t.h]
  <2> DEFINE columns == CeilDiv(rect.w, tile.x)
             x == ((i - 1) % columns) * tile.x
             y == ((i - 1) \div columns) * tile.y
             a == rect.x + x
             b == rect.y + y
             c == Smaller(tile.x, rect.w - x)
             d == Smaller(tile.y, rect.h - y)
  <2>1. t = [x |-> a, y |-> b, w |-> c, h |-> d]
    BY TilesType
  <2> HIDE DEF t, a, b, c, d
  <2> QED
    BY <2>1
<1>2. /\ t.x \in Int /\ t.y \in Int /\ t.w \in 1..tile.x /\ t.h \in 1..tile.y
      /\ rect.x <= t.x /\ t.x + t.w <= rect.x + rect.w
      /\ rect.y <= t.y /\ t.y + t.h <= rect.y + rect.h
  BY TileInside
<1>3. /\ rect.x \in Int /\ rect.y \in Int /\ rect.w \in Nat /\ rect.h \in Nat
      /\ tile.x \in Nat /\ tile.y \in Nat
  BY DEF Rectangle, TileSize
<1> HIDE DEF t
<1>4. t.w \in Nat \ {0} /\ t.h \in Nat \ {0}
  BY <1>2, <1>3
<1>5. t \in Rectangle
  <2> DEFINE a == t.x
             b == t.y
             c == t.w
             d == t.h
  <2>1. a \in Int /\ b \in Int /\ c \in Nat \ {0} /\ d \in Nat \ {0}
    BY <1>2, <1>4
  <2>2. t = [x |-> a, y |-> b, w |-> c, h |-> d]
    BY <1>1
  <2> HIDE DEF a, b, c, d
  <2> QED
    BY <2>1, <2>2 DEF Rectangle
<1>6. \A q : Covers(t, q) => Covers(rect, q)
  <2>1. \A u : u \in t.x..t.x + t.w - 1 => u \in rect.x..rect.x + rect.w - 1
    BY <1>2, <1>3, <1>4
  <2>2. \A u : u \in t.y..t.y + t.h - 1 => u \in rect.y..rect.y + rect.h - 1
    BY <1>2, <1>3, <1>4
  <2> QED
    BY <2>1, <2>2, Zenon DEF Covers
<1> QED
  BY <1>5, <1>6 DEF t

\* An operation for each tile draws the rectangle.
LEMMA TilesDraw ==
  ASSUME NEW rect \in Rectangle, NEW tile \in TileSize, NEW offset, IsOffset(offset), NEW V,
         NEW ops, DOMAIN ops = DOMAIN Tiles(rect, tile), ops = [i \in DOMAIN ops |-> ops[i]],
         \A i \in DOMAIN ops :
            DrawsRect(ops[i], Tiles(rect, tile)[i], offset, V) /\ Fits(ops[i].bytes)
  PROVE  Draws(ops, V, AreaOf(rect, offset))
<1> DEFINE tiles == Tiles(rect, tile)
           n == CeilDiv(rect.w, tile.x) * CeilDiv(rect.h, tile.y)
<1>1. n \in Nat
  <2> DEFINE a == CeilDiv(rect.w, tile.x)
             b == CeilDiv(rect.h, tile.y)
  <2>1. a \in Nat /\ b \in Nat
    BY RoundedUp DEF Rectangle, TileSize
  <2>2. n = a * b
    OBVIOUS
  <2> HIDE DEF a, b, n
  <2> QED
    BY <2>1, <2>2
<1>2. DOMAIN ops = 1..n /\ DOMAIN tiles = 1..n
  BY TilesType
<1> HIDE DEF n
<1>3. ops \in Seq(ToSet(ops))
  <2> DEFINE S == ToSet(ops)
  <2>1. \A i \in 1..n : ops[i] \in S
    BY <1>2 DEF ToSet
  <2> HIDE DEF S
  <2>2. ops = [i \in 1..n |-> ops[i]]
    BY <1>2
  <2> QED
    BY <1>1, <2>1, <2>2 DEF S
<1>4. ASSUME NEW p \in Cells
      PROVE  p \in AreaOf(rect, offset) <=> \E i \in DOMAIN ops : Covers(ops[i].rect, p)
  <2> DEFINE q == From(p, offset)
  <2>1. q \in Int \X Int
    <3>1. p[1] \in Int /\ p[2] \in Int
      BY DrawAssumption DEF Cells
    <3>2. offset.x \in Int /\ offset.y \in Int
      BY DEF IsOffset
    <3> QED
      BY <3>1, <3>2 DEF From
  <2> HIDE DEF q, tiles
  <2>2. Covers(rect, q) => \E i \in DOMAIN tiles : Covers(tiles[i], q)
    BY <2>1, TilesCover DEF tiles
  <2>3. \A i \in DOMAIN tiles : Covers(tiles[i], q) => Covers(rect, q)
    BY TileIsRectangle DEF tiles
  <2>4. \A i \in 1..n : Covers(ops[i].rect, p) <=> Covers(tiles[i], q)
    <3>1. \A i \in 1..n : Covers(ops[i].rect, p) <=> p \in AreaOf(tiles[i], offset)
      BY <1>2, Zenon DEF DrawsRect, tiles
    <3> QED
      BY <3>1 DEF AreaOf, q
  <2>5. p \in AreaOf(rect, offset) <=> Covers(rect, q)
    BY DEF AreaOf, q
  <2> QED
    BY <1>2, <2>2, <2>3, <2>4, <2>5, Zenon
<1> QED
  BY <1>3, <1>4, Zenon DEF Draws, DrawsRect

\* Runs draw their rectangle.
LEMMA RunColours ==
  ASSUME NEW img, IsImage(img), NEW run, Inside(run, img),
         \A y \in Lines(run) : Encoding(img, run, y) = Encoding(img, run, run.y),
         NEW L, L = Encoding(img, run, run.y), Cardinality(L) \in {1, 2},
         NEW offset, IsOffset(offset)
  PROVE  /\ L \subseteq Nat /\ IsFiniteSet(L)
         /\ \A p \in AreaOf(run, offset) : img.at[From(p, offset)] \in L
<1>1. run.y \in Int /\ run.h \in Nat \ {0} /\ run.y \in Lines(run)
  BY DEF Inside, Rectangle, Lines
<1>2. L \subseteq Nat /\ IsFiniteSet(L)
  BY <1>1, EncodingIs
<1>3. ASSUME NEW p \in AreaOf(run, offset) PROVE img.at[From(p, offset)] \in L
  <2> DEFINE x == p[1] - offset.x
             y == p[2] - offset.y
  <2>1. x \in run.x..run.x + run.w - 1 /\ y \in Lines(run)
    BY DEF AreaOf, Covers, From, Lines
  <2>2. From(p, offset) = <<x, y>>
    BY DEF From
  <2> HIDE DEF x, y
  <2>3. Encoding(img, run, y) = L
    BY <2>1
  <2>4. Encoding(img, run, y) = Colours(img, run, y)
    BY <2>1, <2>3, EncodingIs
  <2>5. img.at[<<x, y>>] \in Colours(img, run, y)
    BY <2>1 DEF Colours
  <2> QED
    BY <2>2, <2>3, <2>4, <2>5, Zenon
<1> QED
  BY <1>2, <1>3

LEMMA TileSizes ==
  ASSUME NEW rect \in Rectangle
  PROVE  /\ BestTileSize(rect.w, rect.h) \in TileSize
         /\ BiColorTileSize(rect.w, rect.h) \in TileSize
<1>1. rect.w \in Nat \ {0} /\ rect.h \in Nat \ {0} /\ DatagramLimit
  BY DatagramAssumption DEF Rectangle
<1> DEFINE w == rect.w
           h == rect.h
           b == BestWidth(w, h)
           th == TileHeight(b, h)
           two == BiColorTileSize(w, h)
<1> HIDE DEF w, h
<1>2. w \in Nat \ {0} /\ h \in Nat \ {0}
  BY <1>1 DEF w, h
<1>3. BestTileSize(w, h) = [x |-> b, y |-> th]
  BY DEF BestTileSize, Point
<1>4. b \in Widths(w)
  BY <1>1, <1>2, BestWidthExists
<1> HIDE DEF b
<1>5. b \in 1..w /\ th \in 1..h
  BY <1>1, <1>2, <1>4, AnyWidthFits
<1>6. two.x \in 1..w /\ two.y \in 1..h
  BY <1>1, <1>2, BiColorTileFits
<1>7. two = [x |-> two.x, y |-> two.y]
  <2> DEFINE u == Smaller(w, BitmapBytes * 8)
             v == Smaller(h, Larger(1, BitmapBytes \div CeilDiv(u, 8)))
  <2>1. two = [x |-> u, y |-> v]
    BY DEF BiColorTileSize, Point
  <2> HIDE DEF u, v, two
  <2> QED
    BY <2>1
<1> HIDE DEF th, two
<1>8. [x |-> b, y |-> th] \in TileSize
  BY <1>2, <1>5 DEF TileSize
<1>9. two \in TileSize
  <2> DEFINE u == two.x
             v == two.y
  <2>1. u \in Nat \ {0} /\ v \in Nat \ {0} /\ two = [x |-> u, y |-> v]
    BY <1>2, <1>6, <1>7
  <2> HIDE DEF u, v
  <2> QED
    BY <2>1 DEF TileSize
<1> QED
  BY <1>3, <1>8, <1>9, Zenon DEF two, w, h

LEMMA RunOperationsAre ==
  ASSUME NEW img, NEW run, NEW offset
  PROVE  LET L   == Encoding(img, run, run.y)
             two == Tiles(run, BiColorTileSize(run.w, run.h))
             rgb == Tiles(run, BestTileSize(run.w, run.h))
         IN  RunOperations(img, run, offset) =
               CASE Cardinality(L) = 1 -> <<FillRect(run, On(run, offset), LowOf(L))>>
                 [] Cardinality(L) = 2 ->
                       [i \in DOMAIN two |->
                           BitmapBiColor(img, two[i], On(two[i], offset), LowOf(L), HighOf(L))]
                 [] OTHER -> [i \in DOMAIN rgb |-> BitmapRGB(img, rgb[i], On(rgb[i], offset))]
  BY Zenon DEF RunOperations, LowOf, HighOf, On

\* The operations of a run show the image in the cells of the run.
LEMMA RunDraws ==
  ASSUME NEW img, IsImage(img), NEW run, Inside(run, img),
         \A y \in Lines(run) : Encoding(img, run, y) = Encoding(img, run, run.y),
         NEW offset, IsOffset(offset),
         NEW V, \A p \in AreaOf(run, offset) : V[p] = img.at[From(p, offset)]
  PROVE  Draws(RunOperations(img, run, offset), V, AreaOf(run, offset))
<1> DEFINE L   == Encoding(img, run, run.y)
           low == LowOf(L)
           high == HighOf(L)
           two == Tiles(run, BiColorTileSize(run.w, run.h))
           rgb == Tiles(run, BestTileSize(run.w, run.h))
           area == AreaOf(run, offset)
           ops == RunOperations(img, run, offset)
           fill == FillRect(run, On(run, offset), low)
           bicolor == [i \in DOMAIN two |-> BitmapBiColor(img, two[i], On(two[i], offset), low, high)]
           plain == [i \in DOMAIN rgb |-> BitmapRGB(img, rgb[i], On(rgb[i], offset))]
<1>1. /\ Cardinality(L) = 1 => ops = <<fill>>
      /\ Cardinality(L) = 2 => ops = bicolor
      /\ Cardinality(L) \notin {1, 2} => ops = plain
  <2> DEFINE a == <<fill>>
             k == Cardinality(L)
  <2>1. ops = CASE k = 1 -> a [] k = 2 -> bicolor [] OTHER -> plain
    BY RunOperationsAre
  <2> HIDE DEF a, bicolor, plain, ops, k
  <2>2. k \notin {1, 2} <=> k # 1 /\ k # 2
    OBVIOUS
  <2>3. 1 # 2
    OBVIOUS
  <2>4. /\ k = 1 => ops = a
        /\ k = 2 => ops = bicolor
        /\ k \notin {1, 2} => ops = plain
    BY <2>1, <2>2, <2>3
  <2> QED
    BY <2>4, Zenon DEF a, k
<1>2. run \in Rectangle
  BY DEF Inside
<1>3. BestTileSize(run.w, run.h) \in TileSize /\ BiColorTileSize(run.w, run.h) \in TileSize
  BY <1>2, TileSizes
<1>4. Cardinality(L) \in {1, 2} =>
         /\ L \subseteq Nat /\ IsFiniteSet(L)
         /\ \A p \in area : img.at[From(p, offset)] \in L
  BY RunColours
<1>5. /\ Cardinality(L) = 1 => \A p \in area : V[p] = low
      /\ Cardinality(L) = 2 => \A p \in area : V[p] = low \/ V[p] = high
  <2> HIDE DEF L, area, low, high
  <2>1. Cardinality(L) = 1 \/ Cardinality(L) = 2 => Cardinality(L) \in {1, 2}
    BY Zenon
  <2>2. Cardinality(L) \in {1, 2} => \A p \in area : V[p] \in L
    BY <1>4, Zenon DEF area
  <2>3. Cardinality(L) \in {1, 2} =>
          /\ \A c \in L : c = low \/ c = high
          /\ Cardinality(L) = 1 => \A c \in L : c = low
    BY <1>4, LowHigh, Zenon DEF low, high
  <2> QED
    BY <2>1, <2>2, <2>3, Zenon
<1>6. \A i \in DOMAIN two : Fits(BiColorBytes(two[i].w, two[i].h))
  BY <1>2, TilesFit, DatagramAssumption
<1>7. \A i \in DOMAIN rgb : Fits(RGBBytes(rgb[i].w, rgb[i].h))
  BY <1>2, TilesFit, DatagramAssumption
<1>8. ASSUME NEW i \in DOMAIN two
      PROVE  two[i] \in Rectangle /\ \A p \in AreaOf(two[i], offset) : p \in area
  <2>1. two[i] \in Rectangle /\ \A q : Covers(two[i], q) => Covers(run, q)
    BY <1>2, <1>3, TileIsRectangle
  <2> QED
    BY <2>1, Zenon DEF AreaOf
<1>9. ASSUME NEW i \in DOMAIN rgb
      PROVE  rgb[i] \in Rectangle /\ \A p \in AreaOf(rgb[i], offset) : p \in area
  <2>1. rgb[i] \in Rectangle /\ \A q : Covers(rgb[i], q) => Covers(run, q)
    BY <1>2, <1>3, TileIsRectangle
  <2> QED
    BY <2>1, Zenon DEF AreaOf
<1>10. CASE Cardinality(L) = 1
  <2> HIDE DEF low, area, ops
  <2>1. DrawsRect(fill, run, offset, V) /\ Fits(fill.bytes)
    BY <1>2, <1>5, <1>10, FillDraws DEF area
  <2> HIDE DEF fill
  <2>2. <<fill>> \in Seq(ToSet(<<fill>>)) /\ DOMAIN <<fill>> = {1} /\ <<fill>>[1] = fill
    <3>1. DOMAIN <<fill>> = {1} /\ <<fill>>[1] = fill
      OBVIOUS
    <3>2. fill \in ToSet(<<fill>>)
      BY <3>1 DEF ToSet
    <3> QED
      BY <3>1, <3>2
  <2>3. Draws(<<fill>>, V, area)
    <3> DEFINE s == <<fill>>
    <3>1. /\ s \in Seq(ToSet(s)) /\ \A i \in DOMAIN s : s[i] = fill
          /\ 1 \in DOMAIN s
      BY <2>2
    <3> HIDE DEF s
    <3>2. \A p \in Cells : Covers(fill.rect, p) <=> p \in area
      BY <2>1, Zenon DEF DrawsRect, area
    <3>3. Paints(fill, V)
      BY <2>1, Zenon DEF DrawsRect
    <3>4. \A i \in DOMAIN s : Paints(s[i], V) /\ Fits(s[i].bytes)
      BY <2>1, <3>1, <3>3, Zenon
    <3>5. \A p \in Cells : p \in area <=> \E i \in DOMAIN s : Covers(s[i].rect, p)
      BY <3>1, <3>2, Zenon
    <3>6. Draws(s, V, area)
      BY <3>1, <3>4, <3>5, Zenon DEF Draws
    <3> QED
      BY <3>6 DEF s
  <2> QED
    BY <1>1, <1>10, <2>3, Zenon DEF ops, area
<1>11. CASE Cardinality(L) = 2
  <2> HIDE DEF low, high, two, area, ops
  <2>1. ASSUME NEW i \in DOMAIN two
        PROVE  DrawsRect(bicolor[i], two[i], offset, V) /\ Fits(bicolor[i].bytes)
    <3> DEFINE r == two[i]
               op == BitmapBiColor(img, r, On(r, offset), low, high)
    <3>1. bicolor[i] = op
      OBVIOUS
    <3>2. r \in Rectangle /\ \A p \in AreaOf(r, offset) : p \in area
      BY <1>8
    <3>3. Fits(BiColorBytes(r.w, r.h))
      BY <1>6
    <3> HIDE DEF r
    <3>4. \A p \in AreaOf(r, offset) : V[p] = img.at[From(p, offset)] /\ (V[p] = low \/ V[p] = high)
      BY <1>5, <1>11, <3>2, Zenon DEF area
    <3>5. DrawsRect(op, r, offset, V) /\ op.bytes = BiColorBytes(r.w, r.h)
      BY <3>2, <3>4, BiColorDraws
    <3> HIDE DEF op, bicolor
    <3> QED
      BY <3>1, <3>3, <3>5, Zenon DEF r
  <2>2. DOMAIN bicolor = DOMAIN two /\ bicolor = [i \in DOMAIN bicolor |-> bicolor[i]]
    OBVIOUS
  <2> HIDE DEF bicolor
  <2>3. Draws(bicolor, V, area)
    BY <1>2, <1>3, <2>1, <2>2, TilesDraw DEF two, area
  <2> QED
    BY <1>1, <1>11, <2>3, Zenon DEF ops, area
<1>12. CASE Cardinality(L) \notin {1, 2}
  <2> HIDE DEF rgb, area, ops
  <2>1. ASSUME NEW i \in DOMAIN rgb
        PROVE  DrawsRect(plain[i], rgb[i], offset, V) /\ Fits(plain[i].bytes)
    <3> DEFINE r == rgb[i]
               op == BitmapRGB(img, r, On(r, offset))
    <3>1. plain[i] = op
      OBVIOUS
    <3>2. r \in Rectangle /\ \A p \in AreaOf(r, offset) : p \in area
      BY <1>9
    <3>3. Fits(RGBBytes(r.w, r.h))
      BY <1>7
    <3> HIDE DEF r
    <3>4. \A p \in AreaOf(r, offset) : V[p] = img.at[From(p, offset)]
      BY <3>2, Zenon DEF area
    <3>5. DrawsRect(op, r, offset, V) /\ op.bytes = RGBBytes(r.w, r.h)
      BY <3>2, <3>4, RGBDraws
    <3> HIDE DEF op, plain
    <3> QED
      BY <3>1, <3>3, <3>5, Zenon DEF r
  <2>2. DOMAIN plain = DOMAIN rgb /\ plain = [i \in DOMAIN plain |-> plain[i]]
    OBVIOUS
  <2> HIDE DEF plain
  <2>3. Draws(plain, V, area)
    BY <1>2, <1>3, <2>1, <2>2, TilesDraw DEF rgb, area
  <2> QED
    BY <1>1, <1>12, <2>3, Zenon DEF ops, area
<1> HIDE DEF L, ops, area
<1>13. Cardinality(L) = 1 \/ Cardinality(L) = 2 \/ Cardinality(L) \notin {1, 2}
  BY Zenon
<1> QED
  BY <1>10, <1>11, <1>12, <1>13, Zenon DEF L, ops, area

LEMMA IntervalInside ==
  ASSUME NEW a \in Int, NEW c \in Int, NEW b \in Int, NEW d \in Int, b <= a, a + c <= b + d
  PROVE  \A u : u \in a..a + c - 1 => u \in b..b + d - 1
  OBVIOUS

\* The operations of a rectangle show the image in the cells of the rectangle.
LEMMA EncodeDraws ==
  ASSUME NEW img, IsImage(img), NEW rect, Inside(rect, img), NEW offset, IsOffset(offset),
         NEW V, \A p \in AreaOf(rect, offset) : V[p] = img.at[From(p, offset)]
  PROVE  Draws(Encode(img, rect, offset), V, AreaOf(rect, offset))
<1> DEFINE runs == LineRuns(img, rect)
           n == Len(runs)
           parts == [i \in 1..n |-> RunOperations(img, runs[i], offset)]
           areas == [i \in 1..n |-> AreaOf(runs[i], offset)]
<1>1. rect \in Rectangle
  BY DEF Inside
<1>2. RunsOf(img, rect, rect.h, runs)
  BY <1>1, RunsCover
<1> HIDE DEF runs
<1>3. n \in Nat /\ DOMAIN runs = 1..n /\ \A i \in 1..n : runs[i] \in Rectangle
  BY <1>2 DEF RunsOf
<1>4. Encode(img, rect, offset) = FlattenSeq(parts)
  BY <1>3, Zenon DEF Encode, runs
<1>5. /\ rect.x \in Int /\ rect.y \in Int /\ rect.w \in Nat /\ rect.h \in Nat \ {0}
      /\ 0 <= rect.x /\ rect.x + rect.w <= img.w /\ 0 <= rect.y /\ rect.y + rect.h <= img.h
      /\ img.w \in Nat /\ img.h \in Nat
  BY <1>1 DEF Inside, Rectangle, IsImage
<1>6. ASSUME NEW i \in 1..n
      PROVE  /\ Inside(runs[i], img)
             /\ \A y \in Lines(runs[i]) : Encoding(img, runs[i], y) = Encoding(img, runs[i], runs[i].y)
             /\ \A p \in AreaOf(runs[i], offset) : p \in AreaOf(rect, offset)
  <2> DEFINE r == runs[i]
  <2>1. /\ r.x = rect.x /\ r.w = rect.w
        /\ rect.y <= r.y /\ r.y + r.h <= rect.y + rect.h
        /\ \A y \in Lines(r) : Encoding(img, rect, y) = Encoding(img, rect, r.y)
    BY <1>2, <1>3, Zenon DEF RunsOf
  <2>2. r \in Rectangle
    BY <1>3
  <2> HIDE DEF r
  <2>3. r.y \in Int /\ r.h \in Nat
    BY <2>2 DEF Rectangle
  <2>4. Inside(r, img)
    <3>1. r.x = rect.x /\ r.w = rect.w /\ rect.y <= r.y /\ r.y + r.h <= rect.y + rect.h
      BY <2>1, Zenon
    <3>2. 0 <= r.x /\ r.x + r.w <= img.w
      BY <1>5, <3>1, Zenon
    <3> DEFINE a == r.y
               c == r.h
               b == rect.y
               d == rect.h
               h == img.h
    <3>3. /\ a \in Int /\ c \in Int /\ b \in Int /\ d \in Int /\ h \in Int
          /\ b <= a /\ a + c <= b + d /\ 0 <= b /\ b + d <= h
      BY <1>5, <2>3, <3>1
    <3> HIDE DEF a, b, c, d, h
    <3>4. 0 <= a /\ a + c <= h
      BY <3>3
    <3> QED
      BY <2>2, <3>2, <3>4, Zenon DEF Inside, a, c, h
  <2>5. \A y : Encoding(img, r, y) = Encoding(img, rect, y)
    BY <2>1, Zenon DEF Encoding
  <2>6. \A u : u \in r.y..r.y + r.h - 1 => u \in rect.y..rect.y + rect.h - 1
    <3>1. rect.y <= r.y /\ r.y + r.h <= rect.y + rect.h
      BY <2>1, Zenon
    <3> DEFINE a == r.y
               c == r.h
               b == rect.y
               d == rect.h
    <3>2. a \in Int /\ c \in Int /\ b \in Int /\ d \in Int /\ b <= a /\ a + c <= b + d
      BY <1>5, <2>3, <3>1
    <3> HIDE DEF a, b, c, d
    <3>3. \A u : u \in a..a + c - 1 => u \in b..b + d - 1
      BY <3>2, IntervalInside
    <3> QED
      BY <3>3 DEF a, b, c, d
  <2>7. \A q : Covers(r, q) => Covers(rect, q)
    BY <2>1, <2>6, Zenon DEF Covers
  <2>8. \A p \in AreaOf(r, offset) : p \in AreaOf(rect, offset)
    BY <2>7, Zenon DEF AreaOf
  <2> QED
    BY <2>1, <2>4, <2>5, <2>8, Zenon DEF r
<1>7. \A i \in 1..n : Draws(parts[i], V, areas[i])
  <2> SUFFICES ASSUME NEW i \in 1..n PROVE Draws(parts[i], V, areas[i])
    OBVIOUS
  <2> DEFINE r == runs[i]
  <2>1. /\ Inside(r, img)
        /\ \A y \in Lines(r) : Encoding(img, r, y) = Encoding(img, r, r.y)
        /\ \A p \in AreaOf(r, offset) : V[p] = img.at[From(p, offset)]
    BY <1>6, Zenon
  <2> HIDE DEF r
  <2>2. Draws(RunOperations(img, r, offset), V, AreaOf(r, offset))
    BY <2>1, RunDraws
  <2> QED
    BY <2>2, Zenon DEF r
<1>8. \A p \in Cells : p \in UNION {areas[i] : i \in 1..n} <=> p \in AreaOf(rect, offset)
  <2> SUFFICES ASSUME NEW p \in Cells
               PROVE  p \in UNION {areas[i] : i \in 1..n} <=> p \in AreaOf(rect, offset)
    BY Zenon
  <2>1. p \in UNION {areas[i] : i \in 1..n} <=> \E i \in 1..n : p \in AreaOf(runs[i], offset)
    BY Zenon
  <2>2. ASSUME p \in AreaOf(rect, offset) PROVE \E i \in 1..n : p \in AreaOf(runs[i], offset)
    <3> DEFINE q == From(p, offset)
    <3>1. Covers(rect, q)
      BY <2>2 DEF AreaOf
    <3> HIDE DEF q
    <3>2. q[2] \in rect.y..rect.y + rect.h - 1
      BY <3>1 DEF Covers
    <3>3. PICK i \in 1..n : q[2] \in Lines(runs[i])
      BY <1>2, <1>3, <3>2, Zenon DEF RunsOf
    <3>4. runs[i].x = rect.x /\ runs[i].w = rect.w
      BY <1>2, <1>3, Zenon DEF RunsOf
    <3>5. Covers(runs[i], q)
      BY <3>1, <3>3, <3>4, Zenon DEF Covers, Lines
    <3>6. p \in AreaOf(runs[i], offset)
      BY <3>5 DEF AreaOf, q
    <3> QED
      BY <3>6
  <2> QED
    BY <1>6, <2>1, <2>2, Zenon
<1>9. Draws(FlattenSeq(parts), V, UNION {areas[i] : i \in 1..n})
  <2>1. DOMAIN parts = 1..n /\ parts = [i \in 1..n |-> parts[i]]
    OBVIOUS
  <2> HIDE DEF parts, areas, n
  <2> QED
    BY <1>3, <1>7, <2>1, DrawsTogether
<1> HIDE DEF parts, areas, n
<1>10. Draws(FlattenSeq(parts), V, AreaOf(rect, offset))
  BY <1>8, <1>9, Zenon DEF Draws
<1> QED
  BY <1>4, <1>10, Zenon

-----------------------------------------------------------------------------
(* The view of an image: what the screen shall show.                       *)

View(img) ==
  [p \in Cells |-> IF From(p, Offset(img)) \in DOMAIN img.at
                   THEN img.at[From(p, Offset(img))] ELSE Black]

LEMMA VisibleAxis ==
  ASSUME NEW size \in Nat \ {0}, NEW screen \in Nat \ {0},
         NEW shown, shown = Smaller(size, screen), NEW offset, offset = (screen - shown) \div 2
  PROVE  /\ shown \in Nat \ {0} /\ shown <= size /\ offset \in Nat /\ offset + shown <= screen
         /\ \A c \in 0..screen - 1 : c - offset \in 0..size - 1 <=> c - offset \in 0..shown - 1
  BY SMT DEF Smaller

LEMMA VisibleIs ==
  ASSUME NEW img, IsImage(img)
  PROVE  /\ Inside(Visible(img), img) /\ IsOffset(Offset(img))
         /\ Visible(img).x = 0 /\ Visible(img).y = 0
         /\ Offset(img).x \in Nat /\ Offset(img).x + Visible(img).w <= ScreenSize.x
         /\ Offset(img).y \in Nat /\ Offset(img).y + Visible(img).h <= ScreenSize.y
         /\ DOMAIN img.at = (0..img.w - 1) \X (0..img.h - 1)
         /\ \A p \in Cells : From(p, Offset(img)) \in DOMAIN img.at
                                <=> p \in AreaOf(Visible(img), Offset(img))
<1> DEFINE vw == Smaller(img.w, ScreenSize.x)
           vh == Smaller(img.h, ScreenSize.y)
           ox == (ScreenSize.x - vw) \div 2
           oy == (ScreenSize.y - vh) \div 2
           v == Visible(img)
           o == Offset(img)
<1>1. /\ ScreenSize.x \in Nat \ {0} /\ ScreenSize.y \in Nat \ {0}
      /\ img.w \in Nat \ {0} /\ img.h \in Nat \ {0}
      /\ DOMAIN img.at = (0..img.w - 1) \X (0..img.h - 1)
  BY DrawAssumption DEF IsImage
<1>2. v = [x |-> 0, y |-> 0, w |-> vw, h |-> vh]
  BY DEF Visible, Rect
<1>3. o = [x |-> ox, y |-> oy]
  BY <1>2 DEF Offset, Point
<1> HIDE DEF v, o, vw, vh, ox, oy
<1>4. /\ vw \in Nat \ {0} /\ vw <= img.w /\ ox \in Nat /\ ox + vw <= ScreenSize.x
      /\ \A c \in 0..ScreenSize.x - 1 : c - ox \in 0..img.w - 1 <=> c - ox \in 0..vw - 1
  <2> DEFINE size == img.w
             screen == ScreenSize.x
  <2> HIDE DEF size, screen
  <2>1. size \in Nat \ {0} /\ screen \in Nat \ {0}
    BY <1>1 DEF size, screen
  <2>2. vw = Smaller(size, screen) /\ ox = (screen - vw) \div 2
    BY DEF vw, ox, size, screen
  <2>3. /\ vw \in Nat \ {0} /\ vw <= size /\ ox \in Nat /\ ox + vw <= screen
        /\ \A c \in 0..screen - 1 : c - ox \in 0..size - 1 <=> c - ox \in 0..vw - 1
    BY <2>1, <2>2, VisibleAxis
  <2> QED
    BY <2>3 DEF size, screen
<1>5. /\ vh \in Nat \ {0} /\ vh <= img.h /\ oy \in Nat /\ oy + vh <= ScreenSize.y
      /\ \A c \in 0..ScreenSize.y - 1 : c - oy \in 0..img.h - 1 <=> c - oy \in 0..vh - 1
  <2> DEFINE size == img.h
             screen == ScreenSize.y
  <2> HIDE DEF size, screen
  <2>1. size \in Nat \ {0} /\ screen \in Nat \ {0}
    BY <1>1 DEF size, screen
  <2>2. vh = Smaller(size, screen) /\ oy = (screen - vh) \div 2
    BY DEF vh, oy, size, screen
  <2>3. /\ vh \in Nat \ {0} /\ vh <= size /\ oy \in Nat /\ oy + vh <= screen
        /\ \A c \in 0..screen - 1 : c - oy \in 0..size - 1 <=> c - oy \in 0..vh - 1
    BY <2>1, <2>2, VisibleAxis
  <2> QED
    BY <2>3 DEF size, screen
<1>6. v.x = 0 /\ v.y = 0 /\ v.w = vw /\ v.h = vh /\ o.x = ox /\ o.y = oy
  BY <1>2, <1>3
<1>7. v \in Rectangle
  BY <1>2, <1>4, <1>5 DEF Rectangle
<1>8. Inside(v, img)
  BY <1>1, <1>4, <1>5, <1>6, <1>7 DEF Inside
<1>9. IsOffset(o)
  <2>1. o = [x |-> o.x, y |-> o.y]
    BY <1>3
  <2> QED
    BY <1>4, <1>5, <1>6, <2>1 DEF IsOffset
<1>10. ASSUME NEW p \in Cells
       PROVE  From(p, o) \in DOMAIN img.at <=> p \in AreaOf(v, o)
  <2>1. p[1] \in 0..ScreenSize.x - 1 /\ p[2] \in 0..ScreenSize.y - 1
    BY DEF Cells
  <2>2. From(p, o) = <<p[1] - ox, p[2] - oy>>
    BY <1>6 DEF From
  <2>3. From(p, o) \in DOMAIN img.at <=> p[1] - ox \in 0..img.w - 1 /\ p[2] - oy \in 0..img.h - 1
    BY <1>1, <2>2
  <2>4. p \in AreaOf(v, o) <=> p[1] - ox \in 0..0 + vw - 1 /\ p[2] - oy \in 0..0 + vh - 1
    BY <1>6, <2>2 DEF AreaOf, Covers
  <2>5. 0 + vw - 1 = vw - 1 /\ 0 + vh - 1 = vh - 1
    BY <1>4, <1>5
  <2> QED
    BY <1>4, <1>5, <2>1, <2>3, <2>4, <2>5, Zenon
<1> QED
  BY <1>1, <1>4, <1>5, <1>6, <1>8, <1>9, <1>10, Zenon DEF v, o

LEMMA ViewIs ==
  ASSUME NEW img, IsImage(img), NEW p \in Cells
  PROVE  View(img)[p] = IF p \in AreaOf(Visible(img), Offset(img))
                        THEN img.at[From(p, Offset(img))] ELSE Black
<1>1. From(p, Offset(img)) \in DOMAIN img.at <=> p \in AreaOf(Visible(img), Offset(img))
  BY VisibleIs
<1> QED
  BY <1>1, Zenon DEF View

\* The operations of a new screen blacken it.
LEMMA NewScreenDraws ==
  Draws(NewScreen, [p \in Cells |-> Black], Cells)
<1> DEFINE none == [x |-> 0, y |-> 0, w |-> 0, h |-> 0]
           all == [x |-> 0, y |-> 0, w |-> ScreenSize.x, h |-> ScreenSize.y]
           V == [p \in Cells |-> Black]
           bounds == [code |-> "bounds", rect |-> none, bytes |-> 20]
           fill == FillRect(all, Point(0, 0), Black)
           cursor == [code |-> "cursor", rect |-> none, bytes |-> CursorBytes]
           ops == <<bounds, fill, cursor>>
<1>1. NewScreen = ops
  BY DEF NewScreen, Rect
<1>2. \A p : ~Covers(none, p)
  BY DEF Covers
<1>3. /\ bounds.code = "bounds" /\ bounds.rect = none /\ bounds.bytes = 20
      /\ cursor.code = "cursor" /\ cursor.rect = none /\ cursor.bytes = CursorBytes
  OBVIOUS
<1>4. fill.code = "fill" /\ fill.rect = all /\ fill.bytes = 16 /\ fill.colour = Black
  <2> DEFINE w == ScreenSize.x
             h == ScreenSize.y
             dst == Point(0, 0)
  <2>1. dst.x = 0 /\ dst.y = 0
    BY DEF Point
  <2>2. all = [x |-> all.x, y |-> all.y, w |-> all.w, h |-> all.h] /\ all.w = w /\ all.h = h
    OBVIOUS
  <2> HIDE DEF w, h, dst
  <2>3. MovedTo(all, dst) = [x |-> dst.x, y |-> dst.y, w |-> all.w, h |-> all.h]
    BY <2>2, MovedIs
  <2>4. MovedTo(all, dst) = [x |-> 0, y |-> 0, w |-> w, h |-> h]
    BY <2>1, <2>2, <2>3
  <2> HIDE DEF all
  <2> QED
    BY <2>4 DEF FillRect, dst, w, h, all
<1>5. \A p \in Cells : Covers(all, p)
  BY DrawAssumption DEF Covers, Cells
<1> HIDE DEF none, all, bounds, fill, cursor
<1>6. \A op : op.rect = none => Paints(op, V)
  <2> SUFFICES ASSUME NEW op, op.rect = none, NEW before, NEW p \in Cells
               PROVE  Executed(before, op)[p] = IF Covers(op.rect, p) THEN V[p] ELSE before[p]
    BY Zenon DEF Paints
  <2> QED
    BY <1>2 DEF Executed
<1>7. Paints(fill, V)
  <2> SUFFICES ASSUME NEW before, NEW p \in Cells
               PROVE  Executed(before, fill)[p] = IF Covers(fill.rect, p) THEN V[p] ELSE before[p]
    BY Zenon DEF Paints
  <2> QED
    BY <1>4, <1>5 DEF Executed
<1>8. Fits(bounds.bytes) /\ Fits(fill.bytes) /\ Fits(cursor.bytes)
  BY <1>3, <1>4, DatagramAssumption, DrawAssumption DEF DatagramLimit, Fits, PacketHeader
<1>9. /\ DOMAIN ops = 1..3 /\ ops[1] = bounds /\ ops[2] = fill /\ ops[3] = cursor
      /\ \A i \in 1..3 : i = 1 \/ i = 2 \/ i = 3
      /\ ops \in Seq({bounds, fill, cursor})
  OBVIOUS
<1> HIDE DEF ops
<1>10. ops \in Seq(ToSet(ops))
  <2>1. ToSet(ops) = {bounds, fill, cursor}
    BY <1>9 DEF ToSet
  <2> QED
    BY <1>9, <2>1
<1>11. \A i \in DOMAIN ops : Paints(ops[i], V) /\ Fits(ops[i].bytes)
  <2> HIDE DEF V
  <2> QED
    BY <1>3, <1>6, <1>7, <1>8, <1>9, Zenon
<1>12. \A p \in Cells : p \in Cells <=> \E i \in DOMAIN ops : Covers(ops[i].rect, p)
  <2>1. 2 \in DOMAIN ops
    BY <1>9
  <2> QED
    BY <1>4, <1>5, <1>9, <2>1, Zenon
<1>13. Draws(ops, V, Cells)
  <2> HIDE DEF V
  <2> QED
    BY <1>10, <1>11, <1>12, Zenon DEF Draws
<1> QED
  BY <1>1, <1>13, Zenon

\* ShowImage shows the image, whatever was shown before.
LEMMA WholeImageShows ==
  ASSUME NEW img, IsImage(img), NEW before
  PROVE  \A p \in Cells :
            SendBatch(SendBatch(before, NewScreen), Encode(img, Visible(img), Offset(img)))[p]
              = View(img)[p]
<1> DEFINE V == View(img)
           visible == Visible(img)
           offset == Offset(img)
           black == SendBatch(before, NewScreen)
           B == [p \in Cells |-> Black]
<1>1. Inside(visible, img) /\ IsOffset(offset)
  BY VisibleIs
<1>2. \A p \in Cells : V[p] = IF p \in AreaOf(visible, offset)
                              THEN img.at[From(p, offset)] ELSE Black
  BY ViewIs
<1>3. \A p \in AreaOf(visible, offset) : p \in Cells
  BY DEF AreaOf
<1> HIDE DEF V, visible, offset
<1>4. \A p \in AreaOf(visible, offset) : V[p] = img.at[From(p, offset)]
  BY <1>2, <1>3, Zenon
<1>5. Draws(Encode(img, visible, offset), V, AreaOf(visible, offset))
  BY <1>1, <1>4, EncodeDraws
<1>6. \A p \in Cells : black[p] = Black
  <2>1. Draws(NewScreen, B, Cells)
    BY NewScreenDraws
  <2>2. \A p \in Cells : B[p] = Black
    OBVIOUS
  <2> HIDE DEF B
  <2>3. \A p \in Cells : SendBatch(before, NewScreen)[p] = IF p \in Cells THEN B[p] ELSE before[p]
    BY <2>1, DrawnShows
  <2> QED
    BY <2>2, <2>3, Zenon
<1> HIDE DEF black
<1>7. \A p \in Cells : SendBatch(black, Encode(img, visible, offset))[p]
                          = IF p \in AreaOf(visible, offset) THEN V[p] ELSE black[p]
  BY <1>5, DrawnShows
<1>8. \A p \in Cells : SendBatch(black, Encode(img, visible, offset))[p] = V[p]
  BY <1>2, <1>6, <1>7, Zenon
<1> QED
  BY <1>8 DEF V, black, visible, offset

-----------------------------------------------------------------------------
(* What an update draws.                                                   *)

\* The n places from x on are those that two ranges share.
Overlap(x, n, a, w, b, v) ==
  /\ x \in Nat /\ n \in Nat /\ a <= x /\ (n # 0 => x + n <= a + w)
  /\ \A u : u \in x..x + n - 1 <=> u \in a..a + w - 1 /\ u \in b..b + v - 1

LEMMA IntersectAxis ==
  ASSUME NEW a \in Nat, NEW w \in Nat, NEW b \in Nat, NEW v \in Nat,
         NEW x, x = Larger(a, b), NEW n, n = Larger(0, Smaller(a + w, b + v) - x)
  PROVE  Overlap(x, n, a, w, b, v)
<1>1. x \in Nat /\ n \in Nat /\ a <= x /\ (n # 0 => x + n <= a + w)
  BY DEF Larger, Smaller
<1>2. \A u \in Int : u \in x..x + n - 1 <=> u \in a..a + w - 1 /\ u \in b..b + v - 1
  BY DEF Larger, Smaller
<1>3. \A u : (u \in x..x + n - 1 => u \in Int) /\ (u \in a..a + w - 1 => u \in Int)
  BY <1>1
<1> QED
  BY <1>1, <1>2, <1>3, Zenon DEF Overlap

LEMMA IntersectIs ==
  ASSUME NEW img, IsImage(img), NEW a, Inside(a, img), NEW b, Inside(b, img)
  PROVE  LET c == Intersect(a, b)
         IN  /\ \A q : Covers(c, q) <=> Covers(a, q) /\ Covers(b, q)
             /\ ~Empty(c) => Inside(c, img)
             /\ Empty(c) => \A q : ~Covers(c, q)
<1> DEFINE x == Larger(a.x, b.x)
           y == Larger(a.y, b.y)
           w == Larger(0, Smaller(a.x + a.w, b.x + b.w) - x)
           h == Larger(0, Smaller(a.y + a.h, b.y + b.h) - y)
           c == Intersect(a, b)
<1>1. /\ a.x \in Nat /\ a.y \in Nat /\ a.w \in Nat /\ a.h \in Nat
      /\ b.x \in Nat /\ b.y \in Nat /\ b.w \in Nat /\ b.h \in Nat
  BY DEF Inside, Rectangle
<1>2. a.x + a.w <= img.w /\ a.y + a.h <= img.h
  BY DEF Inside
<1>3. c = [x |-> x, y |-> y, w |-> w, h |-> h]
  BY DEF Intersect, Rect
<1> HIDE DEF c
<1>4. Overlap(x, w, a.x, a.w, b.x, b.w)
  <2> DEFINE ax == a.x
             aw == a.w
             bx == b.x
             bw == b.w
  <2>1. ax \in Nat /\ aw \in Nat /\ bx \in Nat /\ bw \in Nat
    BY <1>1
  <2>2. x = Larger(ax, bx) /\ w = Larger(0, Smaller(ax + aw, bx + bw) - x)
    OBVIOUS
  <2> HIDE DEF ax, aw, bx, bw, x, w
  <2>3. Overlap(x, w, ax, aw, bx, bw)
    BY <2>1, <2>2, IntersectAxis
  <2> QED
    BY <2>3 DEF ax, aw, bx, bw
<1>5. Overlap(y, h, a.y, a.h, b.y, b.h)
  <2> DEFINE ay == a.y
             ah == a.h
             by == b.y
             bh == b.h
  <2>1. ay \in Nat /\ ah \in Nat /\ by \in Nat /\ bh \in Nat
    BY <1>1
  <2>2. y = Larger(ay, by) /\ h = Larger(0, Smaller(ay + ah, by + bh) - y)
    OBVIOUS
  <2> HIDE DEF ay, ah, by, bh, y, h
  <2>3. Overlap(y, h, ay, ah, by, bh)
    BY <2>1, <2>2, IntersectAxis
  <2> QED
    BY <2>3 DEF ay, ah, by, bh
<1> HIDE DEF x, y, w, h
<1>6. c.x = x /\ c.y = y /\ c.w = w /\ c.h = h
  BY <1>3
<1>7. \A q : Covers(c, q) <=> Covers(a, q) /\ Covers(b, q)
  BY <1>4, <1>5, <1>6, Zenon DEF Covers, Overlap
<1>8. ASSUME ~Empty(c) PROVE Inside(c, img)
  <2>1. w # 0 /\ h # 0
    BY <1>6, <1>8 DEF Empty
  <2>2. c \in Rectangle
    BY <1>3, <1>4, <1>5, <2>1 DEF Rectangle, Overlap
  <2>3. img.w \in Nat /\ img.h \in Nat
    BY DEF IsImage
  <2>4. 0 <= x /\ x + w <= a.x + a.w /\ 0 <= y /\ y + h <= a.y + a.h
    BY <1>1, <1>4, <1>5, <2>1 DEF Overlap
  <2> QED
    BY <1>1, <1>2, <1>4, <1>5, <1>6, <2>2, <2>3, <2>4 DEF Inside, Overlap
<1>9. ASSUME Empty(c) PROVE \A q : ~Covers(c, q)
  <2>1. w = 0 \/ h = 0
    BY <1>6, <1>9 DEF Empty
  <2>2. (w = 0 => \A u : ~(u \in x..x + w - 1)) /\ (h = 0 => \A u : ~(u \in y..y + h - 1))
    BY <1>4, <1>5 DEF Overlap
  <2> QED
    BY <1>6, <2>1, <2>2, Zenon DEF Covers
<1> QED
  BY <1>7, <1>8, <1>9 DEF c

LEMMA InsideDomain ==
  ASSUME NEW img, IsImage(img), NEW rect, Inside(rect, img),
         NEW p \in AreaOf(rect, Offset(img))
  PROVE  /\ p \in Cells /\ From(p, Offset(img)) \in DOMAIN img.at
         /\ p \in AreaOf(Visible(img), Offset(img))
<1> DEFINE o == Offset(img)
           u == p[1] - o.x
           v == p[2] - o.y
<1>1. p \in Cells /\ Covers(rect, From(p, o)) /\ From(p, o) = <<u, v>>
  BY DEF AreaOf, From
<1>2. u \in rect.x..rect.x + rect.w - 1 /\ v \in rect.y..rect.y + rect.h - 1
  BY <1>1 DEF Covers
<1>3. DOMAIN img.at = (0..img.w - 1) \X (0..img.h - 1) /\ img.w \in Nat /\ img.h \in Nat
  BY DEF IsImage
<1>4. /\ rect.x \in Int /\ rect.y \in Int /\ rect.w \in Nat /\ rect.h \in Nat
      /\ 0 <= rect.x /\ rect.x + rect.w <= img.w /\ 0 <= rect.y /\ rect.y + rect.h <= img.h
  BY DEF Inside, Rectangle
<1> HIDE DEF o, u, v
<1>5. u \in 0..img.w - 1 /\ v \in 0..img.h - 1
  BY <1>2, <1>3, <1>4
<1>6. From(p, o) \in DOMAIN img.at
  BY <1>1, <1>3, <1>5
<1>7. p \in AreaOf(Visible(img), o)
  BY <1>1, <1>6, VisibleIs DEF o
<1> QED
  BY <1>1, <1>6, <1>7 DEF o

LEMMA NothingDraws ==
  ASSUME NEW V
  PROVE  Draws(<<>>, V, {})
  BY DEF Draws, ToSet

\* An update that is not copied shows the image in the cells of its rectangle.
LEMMA UpdateDraws ==
  ASSUME NEW img, IsImage(img), NEW update, Inside(update.rect, img),
         ~CopiesNatively(update, Visible(img)), NEW V,
         \A p \in AreaOf(update.rect, Offset(img)) : V[p] = img.at[From(p, Offset(img))]
  PROVE  Draws(UpdateOperations(img, update), V, AreaOf(update.rect, Offset(img)))
<1> DEFINE visible == Visible(img)
           offset == Offset(img)
           rect == update.rect
           changed == Intersect(rect, visible)
           ops == UpdateOperations(img, update)
<1>1. ops = IF Empty(changed) THEN <<>> ELSE Encode(img, changed, offset)
  BY Zenon DEF UpdateOperations
<1>2. Inside(visible, img) /\ IsOffset(offset)
  BY VisibleIs
<1>3. \A p \in AreaOf(rect, offset) : p \in Cells /\ p \in AreaOf(visible, offset)
  BY InsideDomain
<1> HIDE DEF visible, offset, rect, ops
<1>4. Inside(rect, img)
  BY DEF rect
<1>5. /\ \A q : Covers(changed, q) <=> Covers(rect, q) /\ Covers(visible, q)
      /\ ~Empty(changed) => Inside(changed, img)
      /\ Empty(changed) => \A q : ~Covers(changed, q)
  BY <1>2, <1>4, IntersectIs
<1> HIDE DEF changed
<1>6. \A p \in Cells : p \in AreaOf(changed, offset) <=> p \in AreaOf(rect, offset)
  BY <1>3, <1>5, Zenon DEF AreaOf
<1>7. CASE Empty(changed)
  <2>1. \A p \in Cells : p \in {} <=> p \in AreaOf(rect, offset)
    BY <1>5, <1>6, <1>7, Zenon DEF AreaOf
  <2>2. Draws(<<>>, V, {})
    BY NothingDraws
  <2>3. Draws(<<>>, V, AreaOf(rect, offset))
    BY <2>1, <2>2, Zenon DEF Draws
  <2> QED
    BY <1>1, <1>7, <2>3, Zenon DEF ops, rect, offset
<1>8. CASE ~Empty(changed)
  <2>1. \A p \in AreaOf(changed, offset) : V[p] = img.at[From(p, offset)]
    <3>1. \A p \in AreaOf(rect, offset) : V[p] = img.at[From(p, offset)]
      BY DEF rect, offset
    <3>2. \A p \in AreaOf(changed, offset) : p \in Cells
      BY DEF AreaOf
    <3> QED
      BY <1>6, <3>1, <3>2, Zenon
  <2>2. Draws(Encode(img, changed, offset), V, AreaOf(changed, offset))
    BY <1>2, <1>5, <1>8, <2>1, EncodeDraws
  <2>3. Draws(Encode(img, changed, offset), V, AreaOf(rect, offset))
    BY <1>6, <2>2, Zenon DEF Draws
  <2> QED
    BY <1>1, <1>8, <2>3, Zenon DEF ops, rect, offset
<1> QED
  BY <1>7, <1>8

SameSize(a, b) == a.w = b.w /\ a.h = b.h

LEMMA SameSizes ==
  ASSUME NEW a, NEW b, SameSize(a, b)
  PROVE  /\ Visible(a) = Visible(b) /\ Offset(a) = Offset(b)
         /\ \A rect : Inside(rect, a) <=> Inside(rect, b)
<1>1. Visible(a) = Visible(b)
  BY Zenon DEF SameSize, Visible
<1>2. Offset(a) = Offset(b)
  BY <1>1, Zenon DEF Offset
<1>3. \A rect : Inside(rect, a) <=> Inside(rect, b)
  BY Zenon DEF SameSize, Inside
<1> QED
  BY <1>1, <1>2, <1>3

\* A snapshot has the image where an update covers it.
LEMMA SnapshotIs ==
  ASSUME NEW img, IsImage(img), NEW updates
  PROVE  LET s == Snapshot(img, updates)
         IN  /\ IsImage(s) /\ SameSize(s, img)
             /\ \A i \in DOMAIN updates : \A q \in DOMAIN img.at :
                   Covers(updates[i].rect, q) => s.at[q] = img.at[q]
<1> DEFINE s == Snapshot(img, updates)
           Q == (0..img.w - 1) \X (0..img.h - 1)
           Within(q) == \E i \in DOMAIN updates : Covers(updates[i].rect, q)
           at == [q \in DOMAIN img.at |-> IF Within(q) THEN img.at[q] ELSE Black]
           w == img.w
           h == img.h
           a == img.at
<1>1. img = [w |-> w, h |-> h, at |-> a] /\ w \in Nat \ {0} /\ h \in Nat \ {0} /\ a \in [Q -> Nat]
  BY DEF IsImage
<1>2. s = [img EXCEPT !.at = at]
  BY Zenon DEF Snapshot
<1> HIDE DEF Within
<1>3. at \in [Q -> Nat] /\ \A q \in Q : at[q] = IF Within(q) THEN a[q] ELSE Black
  <2>1. DOMAIN img.at = Q /\ \A q \in Q : a[q] \in Nat
    BY <1>1
  <2>2. Black \in Nat
    BY DEF Black
  <2> HIDE DEF Q
  <2>3. \A q \in Q : at[q] = IF Within(q) THEN a[q] ELSE Black
    BY <2>1
  <2>4. at = [q \in Q |-> at[q]]
    BY <2>1
  <2>5. \A q \in Q : at[q] \in Nat
    BY <2>1, <2>2, <2>3
  <2> HIDE DEF at
  <2>6. at \in [Q -> Nat]
    BY <2>4, <2>5
  <2> QED
    BY <2>3, <2>6
<1> HIDE DEF s, at, w, h, a
<1>4. s = [w |-> w, h |-> h, at |-> at]
  BY <1>1, <1>2, SMTT(30)
<1>5. s.w = w /\ s.h = h /\ s.at = at
  BY <1>4
<1>6. IsImage(s)
  <2>1. (0..s.w - 1) \X (0..s.h - 1) = Q
    BY <1>5 DEF w, h
  <2> HIDE DEF Q
  <2> QED
    BY <1>1, <1>3, <1>4, <1>5, <2>1, Zenon DEF IsImage
<1>7. SameSize(s, img)
  BY <1>5 DEF SameSize, w, h
<1>8. ASSUME NEW i \in DOMAIN updates, NEW q \in DOMAIN img.at, Covers(updates[i].rect, q)
      PROVE  s.at[q] = img.at[q]
  <2>1. Within(q)
    BY <1>8 DEF Within
  <2>2. q \in Q
    BY <1>1 DEF a
  <2> HIDE DEF Q
  <2> QED
    BY <1>3, <1>5, <2>1, <2>2, Zenon DEF a
<1> QED
  BY <1>6, <1>7, <1>8 DEF s

\* What ShowImageRegions sends and the screen then shows.
Refreshed(before, img, updates) ==
  SendBatch(before, FlattenSeq([i \in DOMAIN updates |->
                       UpdateOperations(Snapshot(img, updates), updates[i])]))

\* Updates that are drawn, and that hold every changed point.
Holds(old, new, n, updates) ==
  /\ DOMAIN updates = 1..n
  /\ \A i \in 1..n : /\ Inside(updates[i].rect, new)
                     /\ ~CopiesNatively(updates[i], Visible(new))
  /\ \A q \in Changed(old, new) : \E i \in 1..n : Covers(updates[i].rect, q)

\* Regions that hold every changed point bring the screen to the next image.
LEMMA RegionsShow ==
  ASSUME NEW old, IsImage(old), NEW new, IsImage(new), SameSize(old, new),
         NEW n \in Nat, NEW updates, Holds(old, new, n, updates),
         NEW before, \A p \in Cells : before[p] = View(old)[p]
  PROVE  \A p \in Cells : Refreshed(before, new, updates)[p] = View(new)[p]
<1>1. /\ DOMAIN updates = 1..n
      /\ \A i \in 1..n : /\ Inside(updates[i].rect, new)
                         /\ ~CopiesNatively(updates[i], Visible(new))
      /\ \A q \in Changed(old, new) : \E i \in 1..n : Covers(updates[i].rect, q)
  BY DEF Holds
<1> DEFINE s == Snapshot(new, updates)
           V == View(new)
           offset == Offset(new)
           parts == [i \in 1..n |-> UpdateOperations(s, updates[i])]
           areas == [i \in 1..n |-> AreaOf(updates[i].rect, offset)]
           flat == FlattenSeq(parts)
           area == UNION {areas[i] : i \in 1..n}
<1>2. /\ IsImage(s) /\ SameSize(s, new)
      /\ \A i \in 1..n : \A q \in DOMAIN new.at :
            Covers(updates[i].rect, q) => s.at[q] = new.at[q]
  BY <1>1, SnapshotIs
<1> HIDE DEF s
<1>3. /\ Visible(s) = Visible(new) /\ Offset(s) = offset
      /\ \A i \in 1..n : Inside(updates[i].rect, s)
  BY <1>1, <1>2, SameSizes
<1>4. ASSUME NEW i \in 1..n, NEW p \in AreaOf(updates[i].rect, offset)
      PROVE  p \in Cells /\ V[p] = new.at[From(p, offset)] /\ V[p] = s.at[From(p, offset)]
  <2>1. p \in Cells /\ From(p, offset) \in DOMAIN new.at
    BY <1>1, InsideDomain
  <2>2. Covers(updates[i].rect, From(p, offset))
    BY DEF AreaOf
  <2>3. V[p] = new.at[From(p, offset)]
    BY <2>1, Zenon DEF View
  <2>4. s.at[From(p, offset)] = new.at[From(p, offset)]
    BY <1>2, <2>1, <2>2, Zenon
  <2> QED
    BY <2>1, <2>3, <2>4, Zenon
<1> HIDE DEF V, offset
<1>5. ASSUME NEW i \in 1..n PROVE Draws(parts[i], V, areas[i])
  <2> DEFINE u == updates[i]
  <2>1. Inside(u.rect, s) /\ ~CopiesNatively(u, Visible(s))
    BY <1>1, <1>3, Zenon
  <2>2. \A p \in AreaOf(u.rect, Offset(s)) : V[p] = s.at[From(p, Offset(s))]
    BY <1>3, <1>4, Zenon
  <2> HIDE DEF u
  <2>3. Draws(UpdateOperations(s, u), V, AreaOf(u.rect, Offset(s)))
    BY <1>2, <2>1, <2>2, UpdateDraws
  <2> QED
    BY <1>3, <2>3, Zenon DEF u
<1>6. Draws(flat, V, area)
  <2>1. DOMAIN parts = 1..n /\ parts = [i \in 1..n |-> parts[i]]
    OBVIOUS
  <2> HIDE DEF parts, areas
  <2> QED
    BY <1>5, <2>1, DrawsTogether
<1>7. \A p \in Cells : p \in area <=> \E i \in 1..n : p \in AreaOf(updates[i].rect, offset)
  BY Zenon
<1>8. [i \in DOMAIN updates |-> UpdateOperations(s, updates[i])] = parts
  BY <1>1, Zenon
<1> HIDE DEF parts, areas, flat, area
<1>9. \A p \in Cells : SendBatch(before, flat)[p] = IF p \in area THEN V[p] ELSE before[p]
  BY <1>6, DrawnShows
<1>10. ASSUME NEW p \in Cells, p \notin area PROVE before[p] = V[p]
  <2> DEFINE q == From(p, offset)
  <2>1. Offset(old) = offset
    BY SameSizes DEF offset
  <2>2. DOMAIN old.at = DOMAIN new.at
    BY Zenon DEF IsImage, SameSize
  <2>3. V[p] = IF q \in DOMAIN new.at THEN new.at[q] ELSE Black
    BY Zenon DEF V, View, offset
  <2>4. View(old)[p] = IF q \in DOMAIN old.at THEN old.at[q] ELSE Black
    BY <2>1, Zenon DEF View
  <2>5. ASSUME q \in DOMAIN new.at PROVE old.at[q] = new.at[q]
    <3>1. CASE q \in Changed(old, new)
      <4>1. PICK i \in 1..n : Covers(updates[i].rect, q)
        BY <1>1, <3>1
      <4>2. p \in AreaOf(updates[i].rect, offset)
        BY <4>1 DEF AreaOf
      <4> QED
        BY <1>7, <1>10, <4>2, Zenon
    <3>2. CASE q \notin Changed(old, new)
      BY <2>5, <3>2, Zenon DEF Changed
    <3> QED
      BY <3>1, <3>2, Zenon
  <2> HIDE DEF q
  <2>6. before[p] = View(old)[p]
    OBVIOUS
  <2> QED
    BY <2>2, <2>3, <2>4, <2>5, <2>6, Zenon
<1>11. \A p \in Cells : SendBatch(before, flat)[p] = V[p]
  BY <1>9, <1>10, Zenon
<1> QED
  BY <1>8, <1>11, Zenon DEF Refreshed, flat, V, s

-----------------------------------------------------------------------------
(* What a server announces.                                                *)

Lowest(S)  == CHOOSE a \in S : \A b \in S : a <= b
Highest(S) == CHOOSE a \in S : \A b \in S : a >= b

LEMMA Extent ==
  ASSUME NEW size \in Nat, NEW S, S \subseteq 0..size - 1, S # {}
  PROVE  /\ Lowest(S) \in 0..size - 1 /\ Highest(S) \in 0..size - 1 /\ Lowest(S) <= Highest(S)
         /\ \A a \in S : Lowest(S) <= a /\ a <= Highest(S)
<1>1. \E a \in S : \A b \in S : a <= b
  <2>1. S \subseteq Nat
    OBVIOUS
  <2> QED
    BY <2>1, Least
<1>2. \E a \in S : \A b \in S : a >= b
  <2> DEFINE T == {size - a : a \in S}
  <2>1. T \subseteq Nat /\ T # {}
    <3>1. \A a \in S : a \in 0..size - 1
      OBVIOUS
    <3>2. \A a \in 0..size - 1 : size - a \in Nat
      OBVIOUS
    <3> QED
      BY <3>1, <3>2, Zenon
  <2> HIDE DEF T
  <2>2. PICK t \in T : \A u \in T : t <= u
    BY <2>1, Least
  <2>3. PICK a \in S : t = size - a
    BY DEF T
  <2>4. ASSUME NEW b \in S PROVE a >= b
    <3>1. t <= size - b
      BY <2>2 DEF T
    <3>2. a \in 0..size - 1 /\ b \in 0..size - 1
      OBVIOUS
    <3> QED
      BY <2>3, <3>1, <3>2
  <2> QED
    BY <2>4
<1>3. Lowest(S) \in S /\ \A b \in S : Lowest(S) <= b
  BY <1>1 DEF Lowest
<1>4. Highest(S) \in S /\ \A b \in S : Highest(S) >= b
  BY <1>2 DEF Highest
<1>5. S \subseteq Nat
  OBVIOUS
<1> DEFINE l == Lowest(S)
           h == Highest(S)
<1> HIDE DEF l, h
<1>6. l \in S /\ h \in S /\ \A b \in S : l <= b /\ h >= b
  BY <1>3, <1>4, Zenon DEF l, h
<1>7. l \in 0..size - 1 /\ h \in 0..size - 1 /\ l <= h
  BY <1>6
<1>8. \A a \in S : l <= a /\ a <= h
  BY <1>5, <1>6
<1> QED
  BY <1>7, <1>8 DEF l, h

\* The hull of points of an image is a rectangle of it that covers them.
LEMMA HullCovers ==
  ASSUME NEW img, IsImage(img), NEW points, points \subseteq DOMAIN img.at, points # {}
  PROVE  /\ Inside(Hull(points), img)
         /\ \A q \in points : Covers(Hull(points), q)
<1> DEFINE X == {q[1] : q \in points}
           Y == {q[2] : q \in points}
           x0 == Lowest(X)
           x1 == Highest(X)
           y0 == Lowest(Y)
           y1 == Highest(Y)
           hull == Hull(points)
           iw == img.w
           ih == img.h
<1>1. iw \in Nat /\ ih \in Nat /\ DOMAIN img.at = (0..iw - 1) \X (0..ih - 1)
  BY DEF IsImage
<1>2. hull = [x |-> x0, y |-> y0, w |-> x1 - x0 + 1, h |-> y1 - y0 + 1]
  BY Zenon DEF Hull, Rect, Lowest, Highest
<1> HIDE DEF iw, ih
<1>3. \A q \in points : q[1] \in 0..iw - 1 /\ q[2] \in 0..ih - 1
  BY <1>1
<1>4. X \subseteq 0..iw - 1 /\ X # {} /\ Y \subseteq 0..ih - 1 /\ Y # {}
  BY <1>3
<1>5. \A q \in points : q[1] \in X /\ q[2] \in Y
  OBVIOUS
<1> HIDE DEF X, Y
<1>6. /\ x0 \in 0..iw - 1 /\ x1 \in 0..iw - 1 /\ x0 <= x1
      /\ \A a \in X : x0 <= a /\ a <= x1
  BY <1>1, <1>4, Extent
<1>7. /\ y0 \in 0..ih - 1 /\ y1 \in 0..ih - 1 /\ y0 <= y1
      /\ \A a \in Y : y0 <= a /\ a <= y1
  BY <1>1, <1>4, Extent
<1> HIDE DEF hull, x0, x1, y0, y1
<1>8. hull.x = x0 /\ hull.y = y0 /\ hull.w = x1 - x0 + 1 /\ hull.h = y1 - y0 + 1
  BY <1>2
<1>9. hull \in Rectangle
  <2> DEFINE w == x1 - x0 + 1
             h == y1 - y0 + 1
  <2>1. w \in Nat \ {0} /\ h \in Nat \ {0} /\ x0 \in Int /\ y0 \in Int
    BY <1>1, <1>6, <1>7
  <2> HIDE DEF w, h
  <2>2. hull = [x |-> x0, y |-> y0, w |-> w, h |-> h]
    BY <1>2 DEF w, h
  <2> QED
    BY <2>1, <2>2 DEF Rectangle
<1>10. Inside(hull, img)
  BY <1>1, <1>6, <1>7, <1>8, <1>9 DEF Inside, iw, ih
<1>11. ASSUME NEW q \in points PROVE Covers(hull, q)
  <2> DEFINE a == q[1]
             b == q[2]
  <2>1. a \in 0..iw - 1 /\ b \in 0..ih - 1
    BY <1>3
  <2>2. x0 <= a /\ a <= x1 /\ y0 <= b /\ b <= y1
    BY <1>5, <1>6, <1>7
  <2> HIDE DEF a, b
  <2>3. a \in x0..x0 + (x1 - x0 + 1) - 1 /\ b \in y0..y0 + (y1 - y0 + 1) - 1
    BY <1>6, <1>7, <2>1, <2>2
  <2> QED
    BY <1>8, <2>3 DEF Covers, a, b
<1> QED
  BY <1>10, <1>11 DEF hull

\* The rectangles of the changed lines.
LinesAnnounced(old, new, m, updates) ==
  /\ updates \in Seq(ToSet(updates))
  /\ \A i \in DOMAIN updates :
        Inside(updates[i].rect, new) /\ ~updates[i].isCopy
  /\ \A q \in Changed(old, new) :
        q[2] \in 0..m - 1 => \E i \in DOMAIN updates : Covers(updates[i].rect, q)

LEMMA LineUpdatesSteps ==
  ASSUME NEW old, NEW new, new.h \in Nat
  PROVE  \E f : /\ f[0] = <<>>
                /\ \A i \in 1..new.h :
                      f[i] = LET line == {p \in Changed(old, new) : p[2] = i - 1}
                             IN  IF line = {} THEN f[i - 1]
                                 ELSE Append(f[i - 1], RawUpdate(Hull(line)))
                /\ LineUpdates(old, new) = f[new.h]
<1> DEFINE n == new.h
           data == [old |-> old, new |-> new]
           Line(i) == {p \in Changed(old, new) : p[2] = i - 1}
           Announce(before, i) ==
              IF Line(i) = {} THEN before ELSE Append(before, RawUpdate(Hull(Line(i))))
           after[i \in 0..n] == IF i = 0 THEN <<>> ELSE Announce(after[i - 1], i)
<1>1. n \in Nat
  OBVIOUS
<1>2. PICK f : Steps("announce", data, <<>>, n, f)
  BY <1>1, StepsExist
<1>3. f = [i \in 0..n |-> IF i = 0 THEN <<>> ELSE Announce(f[i - 1], i)]
  <2>1. f = [i \in 0..n |-> IF i = 0 THEN <<>> ELSE StepOf("announce", data, f[i - 1], i)]
    BY <1>2, Zenon DEF Steps
  <2>2. data.old = old /\ data.new = new
    OBVIOUS
  <2> HIDE DEF data
  <2>3. ASSUME NEW i
        PROVE  StepOf("announce", data, f[i - 1], i) =
                 LET line == {p \in Changed(data.old, data.new) : p[2] = i - 1}
                 IN  IF line = {} THEN f[i - 1] ELSE Append(f[i - 1], RawUpdate(Hull(line)))
    <3> DEFINE b == f[i - 1]
    <3> HIDE DEF b
    <3>1. StepOf("announce", data, b, i) =
            LET line == {p \in Changed(data.old, data.new) : p[2] = i - 1}
            IN  IF line = {} THEN b ELSE Append(b, RawUpdate(Hull(line)))
      BY DEF StepOf
    <3> QED
      BY <3>1 DEF b
  <2>4. \A i : StepOf("announce", data, f[i - 1], i) = Announce(f[i - 1], i)
    BY <2>2, <2>3, Zenon
  <2> HIDE DEF Announce
  <2> QED
    BY <2>1, <2>4, Zenon
<1>4. after = [i \in 0..n |-> IF i = 0 THEN <<>> ELSE Announce(after[i - 1], i)]
  <2> HIDE DEF Announce
  <2> QED
    BY <1>3, Zenon
<1>5. LineUpdates(old, new) = after[n]
  BY Zenon DEF LineUpdates
<1> HIDE DEF after, n, Announce
<1>6. after[0] = <<>> /\ \A i \in 1..n : after[i] = Announce(after[i - 1], i)
  <2>1. 0 \in 0..n /\ \A i \in 1..n : i \in 0..n /\ i # 0
    BY <1>1
  <2> QED
    BY <1>4, <2>1, Zenon
<1> QED
  BY <1>5, <1>6, Zenon DEF n, Announce

LEMMA LineAnnounced ==
  ASSUME NEW old, NEW new, IsImage(new), NEW m \in Nat, NEW updates,
         LinesAnnounced(old, new, m, updates),
         NEW line, line = {p \in Changed(old, new) : p[2] = m}
  PROVE  LinesAnnounced(old, new, m + 1,
            IF line = {} THEN updates ELSE Append(updates, RawUpdate(Hull(line))))
<1> DEFINE n == Len(updates)
           C == Changed(old, new)
<1>1. /\ updates \in Seq(ToSet(updates)) /\ n \in Nat /\ DOMAIN updates = 1..n
      /\ \A i \in 1..n : Inside(updates[i].rect, new) /\ ~updates[i].isCopy
      /\ \A q \in C : q[2] \in 0..m - 1 => \E i \in 1..n : Covers(updates[i].rect, q)
  BY DEF LinesAnnounced
<1>2. \A v : v \in 0..(m + 1) - 1 => v \in 0..m - 1 \/ v = m
  OBVIOUS
<1>3. line \subseteq C /\ \A q \in C : q[2] = m => q \in line
  OBVIOUS
<1>4. line \subseteq DOMAIN new.at
  BY DEF Changed
<1> HIDE DEF n, C
<1>5. CASE line = {}
  <2>1. \A q \in C : q[2] \in 0..(m + 1) - 1 => \E i \in 1..n : Covers(updates[i].rect, q)
    BY <1>1, <1>2, <1>3, <1>5, Zenon
  <2>2. LinesAnnounced(old, new, m + 1, updates)
    BY <1>1, <2>1, Zenon DEF LinesAnnounced, C
  <2> QED
    BY <1>5, <2>2, Zenon
<1>6. CASE line # {}
  <2> DEFINE u == RawUpdate(Hull(line))
             added == Append(updates, u)
  <2>1. u.rect = Hull(line) /\ u.isCopy = FALSE
    BY DEF RawUpdate
  <2>2. Inside(Hull(line), new) /\ \A q \in line : Covers(Hull(line), q)
    BY <1>4, <1>6, HullCovers
  <2> HIDE DEF u
  <2>3. /\ Len(added) = n + 1 /\ added[n + 1] = u /\ \A i \in 1..n : added[i] = updates[i]
        /\ DOMAIN added = 1..n + 1
    <3> DEFINE S == ToSet(updates)
    <3>1. updates \in Seq(S) /\ n = Len(updates)
      BY <1>1 DEF n
    <3> HIDE DEF S, n
    <3> QED
      BY <3>1
  <2>4. added \in Seq(ToSet(added))
    <3>1. added = [i \in 1..n + 1 |-> added[i]]
      <4> DEFINE S == ToSet(updates)
                 W == S \cup {u}
      <4>1. updates \in Seq(W) /\ u \in W
        <5>1. updates \in Seq(S)
          BY <1>1
        <5> HIDE DEF S
        <5> QED
          BY <5>1
      <4> HIDE DEF W
      <4>2. added \in Seq(W)
        BY <4>1
      <4> HIDE DEF added
      <4> QED
        BY <2>3, <4>2
    <3> HIDE DEF added
    <3> DEFINE T == ToSet(added)
    <3>2. \A i \in 1..n + 1 : added[i] \in T
      BY <2>3, Zenon DEF ToSet
    <3> HIDE DEF T
    <3>3. added \in Seq(T)
      BY <1>1, <3>1, <3>2
    <3> QED
      BY <3>3 DEF T
  <2> HIDE DEF added
  <2>5. n + 1 \in 1..n + 1 /\ \A i \in 1..n : i \in 1..n + 1
    BY <1>1
  <2>6. \A i \in 1..n + 1 : i = n + 1 \/ i \in 1..n
    BY <1>1
  <2>7. \A i \in 1..n + 1 : Inside(added[i].rect, new) /\ ~added[i].isCopy
    BY <1>1, <2>1, <2>2, <2>3, <2>6, Zenon
  <2>8. \A q \in C : q[2] \in 0..(m + 1) - 1 => \E i \in 1..n + 1 : Covers(added[i].rect, q)
    <3> SUFFICES ASSUME NEW q \in C, q[2] \in 0..(m + 1) - 1
                 PROVE  \E i \in 1..n + 1 : Covers(added[i].rect, q)
      BY Zenon
    <3>1. CASE q[2] = m
      <4>1. Covers(added[n + 1].rect, q)
        BY <1>3, <2>1, <2>2, <2>3, <3>1, Zenon
      <4> QED
        BY <2>5, <4>1, Zenon
    <3>2. CASE q[2] \in 0..m - 1
      BY <1>1, <2>3, <2>5, <3>2, Zenon
    <3> QED
      BY <1>2, <3>1, <3>2, Zenon
  <2>9. LinesAnnounced(old, new, m + 1, added)
    BY <2>3, <2>4, <2>7, <2>8, Zenon DEF LinesAnnounced, C
  <2> QED
    BY <1>6, <2>9, Zenon DEF added, u
<1> QED
  BY <1>5, <1>6

\* The lines that a server announces hold every changed point.
LEMMA LineUpdatesCover ==
  ASSUME NEW old, NEW new, IsImage(new)
  PROVE  LinesAnnounced(old, new, new.h, LineUpdates(old, new))
<1> DEFINE n == new.h
           Line(i) == {p \in Changed(old, new) : p[2] = i - 1}
<1>1. n \in Nat
  BY DEF IsImage
<1>2. PICK f : /\ f[0] = <<>>
               /\ \A i \in 1..n :
                     f[i] = IF Line(i) = {} THEN f[i - 1]
                            ELSE Append(f[i - 1], RawUpdate(Hull(Line(i))))
               /\ LineUpdates(old, new) = f[n]
  BY <1>1, LineUpdatesSteps, Zenon
<1> DEFINE C == {i \in 0..n : LinesAnnounced(old, new, i, f[i])}
<1> HIDE DEF n
<1>3. 0 \in C
  <2>1. LinesAnnounced(old, new, 0, <<>>)
    BY DEF LinesAnnounced, ToSet
  <2>2. 0 \in 0..n
    BY <1>1
  <2> QED
    BY <1>2, <2>1, <2>2, Zenon
<1>4. ASSUME NEW i \in 1..n, i - 1 \in C PROVE i \in C
  <2> DEFINE b == f[i - 1]
             m == i - 1
             line == Line(i)
  <2>1. i \in 0..n /\ m \in Nat /\ m + 1 = i
    BY <1>1
  <2>2. LinesAnnounced(old, new, m, b)
    BY <1>4
  <2>3. line = {p \in Changed(old, new) : p[2] = m}
    OBVIOUS
  <2> HIDE DEF line, m, b
  <2>4. LinesAnnounced(old, new, m + 1, IF line = {} THEN b ELSE Append(b, RawUpdate(Hull(line))))
    BY <2>1, <2>2, <2>3, LineAnnounced
  <2>5. f[i] = IF line = {} THEN b ELSE Append(b, RawUpdate(Hull(line)))
    BY <1>2, Zenon DEF line, b
  <2>6. LinesAnnounced(old, new, i, f[i])
    BY <2>1, <2>4, <2>5, Zenon
  <2> QED
    BY <2>1, <2>6, Zenon
<1> HIDE DEF C
<1>5. 0..n \subseteq C
  BY <1>1, <1>3, <1>4, UpTo
<1>6. n \in C
  BY <1>1, <1>5
<1> QED
  BY <1>2, <1>6, Zenon DEF C, n

-----------------------------------------------------------------------------
(* A copy that the terminal makes.                                         *)

LEMMA OneOperation ==
  ASSUME NEW op, Fits(op.bytes), NEW before
  PROVE  SendBatch(before, FlattenSeq(<<<<op>>>>)) = Executed(before, op)
<1> DEFINE S == {op}
           d == <<op>>
           none == [i \in {} |-> i]
<1>1. d \in Seq(S) /\ <<>> \in Seq(Seq(S)) /\ <<d>> = Append(<<>>, d) /\ <<>> \o d = d
  OBVIOUS
<1>2. Len(d) = 1 /\ d[1] = op /\ DOMAIN d = {1}
  OBVIOUS
<1>3. FlattenSeq(<<>>) = <<>>
  BY DEF FlattenSeq
<1> HIDE DEF d, S
<1>4. FlattenSeq(<<d>>) = d
  <2> DEFINE e == <<>>
  <2>1. e \in Seq(Seq(S)) /\ FlattenSeq(e) = e /\ e \o d = d /\ Append(e, d) = <<d>>
    BY <1>1, <1>3
  <2> HIDE DEF e
  <2>2. FlattenSeq(Append(e, d)) = FlattenSeq(e) \o d
    BY <1>1, <2>1, FlattenAppend
  <2> QED
    BY <2>1, <2>2, Zenon
<1>5. SendBatch(before, d) = Displayed(before, d)
  <2>1. FlattenSeq(Datagrams(d)) = d
    BY <1>1, DatagramsKeepOrder
  <2>2. \A i \in DOMAIN d : Fits(d[i].bytes)
    BY <1>2
  <2> QED
    BY <2>1, <2>2, Zenon DEF SendBatch
<1>6. PICK f : /\ f[0] = before /\ \A i \in 1..Len(d) : f[i] = Executed(f[i - 1], d[i])
               /\ Displayed(before, d) = f[Len(d)]
  BY <1>1, DisplayedSteps, Zenon
<1>7. f[1] = Executed(f[0], d[1])
  <2>1. 1 \in 1..Len(d) /\ 1 - 1 = 0
    BY <1>2
  <2> QED
    BY <1>6, <2>1, Zenon
<1> QED
  BY <1>2, <1>4, <1>5, <1>6, <1>7, Zenon DEF d

\* What the terminal shows at the source of the copy is the new image.
LEMMA CopyShows ==
  ASSUME NEW old, IsImage(old), NEW new, IsImage(new), SameSize(old, new),
         NEW update, Inside(update.rect, new), update.source.x \in Nat, update.source.y \in Nat,
         update.source.x + update.rect.w <= new.w, update.source.y + update.rect.h <= new.h,
         CopiesNatively(update, Visible(new)),
         \A q \in Points(update.rect) :
            new.at[q] = old.at[<<q[1] - update.rect.x + update.source.x,
                                 q[2] - update.rect.y + update.source.y>>],
         \A q \in Changed(old, new) : Covers(update.rect, q),
         NEW before, \A p \in Cells : before[p] = View(old)[p]
  PROVE  \A p \in Cells : Refreshed(before, new, <<update>>)[p] = View(new)[p]
<1> DEFINE updates == <<update>>
           s == Snapshot(new, updates)
           visible == Visible(new)
           offset == Offset(new)
           to == update.rect
           src == SourceRect(update)
           fx == update.source.x
           fy == update.source.y
           op == Copy(to, On(to, offset), On(src, offset))
<1>1. DOMAIN updates = {1} /\ updates[1] = update
  OBVIOUS
<1>2. SameSize(s, new)
  BY SnapshotIs
<1> HIDE DEF s, updates
<1>3. Visible(s) = visible /\ Offset(s) = offset
  BY <1>2, SameSizes
<1>4. Inside(visible, new) /\ IsOffset(offset) /\ Inside(to, new)
  BY VisibleIs
<1>5. /\ offset.x \in Nat /\ offset.x + visible.w <= ScreenSize.x
      /\ offset.y \in Nat /\ offset.y + visible.h <= ScreenSize.y
      /\ visible.x = 0 /\ visible.y = 0
      /\ visible.w \in Nat /\ visible.h \in Nat
      /\ ScreenSize.x \in Nat /\ ScreenSize.y \in Nat
  <2>1. visible.w \in Nat /\ visible.h \in Nat
    BY <1>4 DEF Inside, Rectangle
  <2> QED
    BY <2>1, VisibleIs, DrawAssumption
<1>6. /\ to.x \in Int /\ to.y \in Int /\ to.w \in Nat \ {0} /\ to.h \in Nat \ {0}
      /\ to = [x |-> to.x, y |-> to.y, w |-> to.w, h |-> to.h]
      /\ fx \in Nat /\ fy \in Nat
      /\ 0 <= to.x /\ to.x + to.w <= new.w /\ 0 <= to.y /\ to.y + to.h <= new.h
      /\ new.w \in Nat /\ new.h \in Nat
  BY <1>4 DEF Inside, Rectangle, IsImage
<1>7. src = [x |-> fx, y |-> fy, w |-> to.w, h |-> to.h]
  <2>1. src = MovedTo(to, update.source)
    BY DEF SourceRect, MovedTo
  <2> HIDE DEF to
  <2> QED
    BY <1>6, <2>1, MovedIs
<1>8. Intersect(to, visible) = to /\ Intersect(src, visible) = src
  BY DEF CopiesNatively
<1>9. ~Empty(to)
  BY <1>6 DEF Empty
<1>10. UpdateOperations(s, update) = <<op>>
  <2>1. CopiesNatively(update, Visible(s))
    BY <1>3, Zenon
  <2> DEFINE changed == Intersect(update.rect, Visible(s))
  <2>2. changed = to
    BY <1>3, <1>8, Zenon
  <2>3. UpdateOperations(s, update) =
          IF Empty(changed) THEN <<>>
          ELSE IF CopiesNatively(update, Visible(s))
          THEN <<Copy(changed, On(changed, Offset(s)), On(src, Offset(s)))>>
          ELSE Encode(s, changed, Offset(s))
    BY Zenon DEF UpdateOperations, On
  <2> HIDE DEF changed, src, to, op
  <2> QED
    BY <1>3, <1>9, <2>1, <2>2, <2>3, Zenon DEF op
<1>11. [i \in DOMAIN updates |-> UpdateOperations(s, updates[i])] = <<<<op>>>>
  <2> DEFINE d == <<op>>
  <2>1. UpdateOperations(s, updates[1]) = d
    BY <1>1, <1>10, Zenon
  <2> HIDE DEF d
  <2>2. [i \in DOMAIN updates |-> UpdateOperations(s, updates[i])] = <<d>>
    BY <1>1, <2>1
  <2> QED
    BY <2>2 DEF d
<1>12. /\ op.code = "copy" /\ op.rect = MovedTo(to, On(to, offset)) /\ op.bytes = 16
       /\ op.source.x = fx + offset.x /\ op.source.y = fy + offset.y
       /\ op.rect.x = to.x + offset.x /\ op.rect.y = to.y + offset.y
  <2>1. op.code = "copy" /\ op.rect = MovedTo(to, On(to, offset)) /\ op.bytes = 16
        /\ op.source = On(src, offset)
    BY DEF Copy
  <2>2. \A r : On(r, offset).x = r.x + offset.x /\ On(r, offset).y = r.y + offset.y
    BY DEF On, Point
  <2>3. src.x = fx /\ src.y = fy
    BY <1>7
  <2>4. MovedTo(to, On(to, offset)) = [x |-> On(to, offset).x, y |-> On(to, offset).y, w |-> to.w, h |-> to.h]
    <3> HIDE DEF to, offset
    <3> QED
      BY <1>6, MovedIs
  <2> DEFINE dst == On(to, offset)
             moved == MovedTo(to, dst)
             w == to.w
             h == to.h
  <2> HIDE DEF dst, moved, w, h
  <2>5. moved.x = dst.x /\ moved.y = dst.y
    <3>1. moved = [x |-> dst.x, y |-> dst.y, w |-> w, h |-> h]
      BY <2>4 DEF dst, moved, w, h
    <3> QED
      BY <3>1
  <2> HIDE DEF src, to, op, offset, fx, fy
  <2>6. op.rect = moved /\ dst.x = to.x + offset.x /\ dst.y = to.y + offset.y
    BY <2>1, <2>2, Zenon DEF moved, dst
  <2> QED
    BY <2>1, <2>2, <2>3, <2>5, <2>6, Zenon
<1>13. Fits(op.bytes)
  BY <1>12, DatagramAssumption DEF DatagramLimit, Fits, PacketHeader
<1> HIDE DEF op
<1>14. SendBatch(before, FlattenSeq(<<<<op>>>>)) = Executed(before, op)
  BY <1>13, OneOperation
<1>15. \A p \in Cells : Covers(op.rect, p) <=> Covers(to, From(p, offset))
  <2>1. to \in Rectangle
    BY <1>4 DEF Inside
  <2> HIDE DEF to, offset
  <2> QED
    BY <1>4, <1>12, <2>1, MovedOn DEF AreaOf
<1> SUFFICES ASSUME NEW p \in Cells PROVE Executed(before, op)[p] = View(new)[p]
  BY <1>11, <1>14, Zenon DEF Refreshed, s, updates
<1> DEFINE q == From(p, offset)
           from == <<p[1] - op.rect.x + op.source.x, p[2] - op.rect.y + op.source.y>>
           r == <<q[1] - to.x + fx, q[2] - to.y + fy>>
<1>16. /\ Offset(old) = offset /\ DOMAIN old.at = DOMAIN new.at
       /\ DOMAIN new.at = (0..new.w - 1) \X (0..new.h - 1)
  <2>1. Offset(old) = offset
    BY SameSizes
  <2>2. DOMAIN old.at = (0..old.w - 1) \X (0..old.h - 1) /\ DOMAIN new.at = (0..new.w - 1) \X (0..new.h - 1)
    BY DEF IsImage
  <2> QED
    BY <2>1, <2>2, Zenon DEF SameSize
<1>17. \A c \in Cells :
          /\ View(new)[c] = IF From(c, offset) \in DOMAIN new.at
                            THEN new.at[From(c, offset)] ELSE Black
          /\ before[c] = IF From(c, offset) \in DOMAIN new.at
                         THEN old.at[From(c, offset)] ELSE Black
  BY <1>16, Zenon DEF View
<1>18. p[1] \in Int /\ p[2] \in Int /\ q = <<p[1] - offset.x, p[2] - offset.y>>
  BY <1>5 DEF Cells, From
<1>19. CASE ~Covers(to, q)
  <2>1. q \in DOMAIN new.at => old.at[q] = new.at[q]
    <3>1. q \notin Changed(old, new)
      BY <1>19
    <3> HIDE DEF q
    <3> QED
      BY <3>1, Zenon DEF Changed
  <2>2. Executed(before, op)[p] = before[p]
    BY <1>15, <1>19, Zenon DEF Executed
  <2> QED
    BY <1>17, <2>1, <2>2, Zenon
<1>20. CASE Covers(to, q)
  <2>1. q[1] \in to.x..to.x + to.w - 1 /\ q[2] \in to.y..to.y + to.h - 1
    BY <1>20 DEF Covers
  <2>2. q \in Points(to) /\ q \in DOMAIN new.at
    <3>1. q = <<q[1], q[2]>>
      BY <1>18
    <3>2. q[1] \in 0..new.w - 1 /\ q[2] \in 0..new.h - 1
      BY <1>6, <2>1
    <3> HIDE DEF q
    <3>3. q \in Points(to)
      BY <2>1, <3>1 DEF Points
    <3> QED
      BY <1>16, <3>1, <3>2, <3>3
  <2>3. new.at[q] = old.at[r]
    BY <2>2, Zenon
  <2>4. from = <<r[1] + offset.x, r[2] + offset.y>> /\ From(from, offset) = r
    <3> DEFINE a == p[1]
               b == p[2]
               tx == to.x
               ty == to.y
               ox == offset.x
               oy == offset.y
               rx == op.rect.x
               ry == op.rect.y
               sx == op.source.x
               sy == op.source.y
    <3>1. /\ a \in Int /\ b \in Int /\ tx \in Int /\ ty \in Int /\ ox \in Int /\ oy \in Int
          /\ fx \in Int /\ fy \in Int
          /\ sx = fx + ox /\ sy = fy + oy /\ rx = tx + ox /\ ry = ty + oy
      BY <1>5, <1>6, <1>12, <1>18
    <3>2. q[1] = a - ox /\ q[2] = b - oy
      BY <1>18
    <3>3. from[1] = a - rx + sx /\ from[2] = b - ry + sy /\ r[1] = q[1] - tx + fx /\ r[2] = q[2] - ty + fy
      OBVIOUS
    <3> DEFINE u == from[1]
               v == from[2]
               x == r[1]
               y == r[2]
               q1 == q[1]
               q2 == q[2]
    <3>4. from = <<u, v>> /\ r = <<x, y>>
      OBVIOUS
    <3>5. From(from, offset) = <<u - ox, v - oy>>
      BY DEF From
    <3> HIDE DEF a, b, tx, ty, ox, oy, rx, ry, sx, sy, u, v, x, y, q1, q2, fx, fy
    <3>6. /\ q1 = a - ox /\ q2 = b - oy
          /\ u = a - rx + sx /\ v = b - ry + sy /\ x = q1 - tx + fx /\ y = q2 - ty + fy
      BY <3>2, <3>3, Zenon DEF a, b, tx, ty, ox, oy, rx, ry, sx, sy, u, v, x, y, q1, q2
    <3>7. u = x + ox /\ v = y + oy /\ u - ox = x /\ v - oy = y
      BY <3>1, <3>6
    <3> QED
      BY <3>4, <3>5, <3>7, Zenon DEF x, y, ox, oy
  <2>5. Covers(src, r)
    <3>1. r[1] \in fx..fx + to.w - 1 /\ r[2] \in fy..fy + to.h - 1
      <4> DEFINE q1 == q[1]
                 q2 == q[2]
      <4>1. r[1] = q1 - to.x + fx /\ r[2] = q2 - to.y + fy
        OBVIOUS
      <4> HIDE DEF q1, q2
      <4>2. q1 \in to.x..to.x + to.w - 1 /\ q2 \in to.y..to.y + to.h - 1
        BY <2>1 DEF q1, q2
      <4> HIDE DEF r
      <4> QED
        BY <1>6, <4>1, <4>2
    <3>2. src.x = fx /\ src.y = fy /\ src.w = to.w /\ src.h = to.h
      BY <1>7
    <3> HIDE DEF src, r
    <3> QED
      BY <3>1, <3>2 DEF Covers
  <2>6. Covers(visible, r)
    <3>1. Inside(src, new)
      <4>1. src \in Rectangle
        <5> DEFINE w == to.w
                   h == to.h
        <5>1. w \in Nat \ {0} /\ h \in Nat \ {0}
          BY <1>6
        <5> HIDE DEF w, h, src, fx, fy
        <5> QED
          BY <1>6, <1>7, <5>1 DEF Rectangle, w, h
      <4>2. src.x = fx /\ src.y = fy /\ src.w = to.w /\ src.h = to.h
        BY <1>7
      <4>3. fx + to.w <= new.w /\ fy + to.h <= new.h
        OBVIOUS
      <4> HIDE DEF src
      <4> QED
        BY <1>6, <4>1, <4>2, <4>3 DEF Inside
    <3>2. \A c : Covers(Intersect(src, visible), c) <=> Covers(src, c) /\ Covers(visible, c)
      <4> HIDE DEF src, visible
      <4> QED
        BY <1>4, <3>1, IntersectIs
    <3> HIDE DEF src, visible, r
    <3> QED
      BY <1>8, <2>5, <3>2, Zenon
  <2>7. from \in Cells /\ From(from, offset) \in DOMAIN new.at
    <3> DEFINE x == r[1]
               y == r[2]
               vw == visible.w
               vh == visible.h
    <3>1. x \in 0..vw - 1 /\ y \in 0..vh - 1
      <4>1. x \in visible.x..visible.x + vw - 1 /\ y \in visible.y..visible.y + vh - 1
        BY <2>6 DEF Covers
      <4>2. \A n \in Nat : 0 + n - 1 = n - 1
        OBVIOUS
      <4> HIDE DEF x, y, vw, vh
      <4> QED
        BY <1>5, <4>1, <4>2 DEF vw, vh
    <3>2. vw <= new.w /\ vh <= new.h
      BY <1>4, <1>5, <1>6 DEF Inside
    <3>3. r = <<x, y>>
      OBVIOUS
    <3>4. vw \in Nat /\ vh \in Nat
      BY <1>5
    <3> HIDE DEF x, y, vw, vh, r, from
    <3>5. x + offset.x \in 0..ScreenSize.x - 1 /\ y + offset.y \in 0..ScreenSize.y - 1
      BY <1>5, <3>1, <3>4 DEF vw, vh
    <3>6. x \in 0..new.w - 1 /\ y \in 0..new.h - 1
      BY <1>6, <3>1, <3>2, <3>4
    <3>7. from = <<x + offset.x, y + offset.y>>
      BY <2>4, Zenon DEF x, y
    <3>8. from \in Cells
      BY <3>5, <3>7 DEF Cells
    <3>9. r \in DOMAIN new.at
      BY <1>16, <3>3, <3>6
    <3> QED
      BY <2>4, <3>8, <3>9, Zenon
  <2>8. Executed(before, op)[p] = before[from]
    BY <1>12, <1>15, <1>20, <2>7 DEF Executed
  <2>9. before[from] = old.at[r]
    <3> HIDE DEF from, r
    <3> QED
      BY <1>17, <2>4, <2>7, Zenon
  <2> HIDE DEF from, r, q
  <2>10. View(new)[p] = new.at[q]
    BY <1>17, <2>2, Zenon DEF q
  <2> QED
    BY <2>3, <2>8, <2>9, <2>10, Zenon
<1> QED
  BY <1>19, <1>20

-----------------------------------------------------------------------------
(* The screen shows the newest image.                                      *)

LEMMA ImagesDiffer ==
  ASSUME NEW old, IsImage(old), NEW new, IsImage(new), SameSize(old, new), old # new
  PROVE  Changed(old, new) # {}
<1> SUFFICES ASSUME Changed(old, new) = {} PROVE FALSE
  OBVIOUS
<1> DEFINE Q == (0..new.w - 1) \X (0..new.h - 1)
<1>1. old.at \in [Q -> Nat] /\ new.at \in [Q -> Nat]
  <2>1. old.at \in [(0..old.w - 1) \X (0..old.h - 1) -> Nat] /\ new.at \in [Q -> Nat]
    BY Zenon DEF IsImage
  <2> QED
    BY <2>1, Zenon DEF SameSize
<1> HIDE DEF Q
<1>2. DOMAIN new.at = Q /\ DOMAIN old.at = Q
  BY <1>1
<1>3. \A q \in Q : old.at[q] = new.at[q]
  BY <1>2, Zenon DEF Changed
<1>4. old.at = new.at
  <2> DEFINE f == old.at
             g == new.at
  <2>1. f \in [Q -> Nat] /\ g \in [Q -> Nat] /\ \A q \in Q : f[q] = g[q]
    BY <1>1, <1>3
  <2> HIDE DEF f, g
  <2>2. f = g
    BY <2>1
  <2> QED
    BY <2>2 DEF f, g
<1>5. old = [w |-> old.w, h |-> old.h, at |-> old.at] /\ new = [w |-> new.w, h |-> new.h, at |-> new.at]
  BY Zenon DEF IsImage
<1>6. old.w = new.w /\ old.h = new.h
  BY DEF SameSize
<1> QED
  BY <1>4, <1>5, <1>6, Zenon

\* However the server announces the change, the screen shows the next image.
LEMMA AnnouncedShows ==
  ASSUME NEW old, IsImage(old), NEW new, IsImage(new), SameSize(old, new), old # new,
         NEW updates \in Announcements(old, new),
         NEW before, \A p \in Cells : before[p] = View(old)[p]
  PROVE  \A p \in Cells : Refreshed(before, new, updates)[p] = View(new)[p]
<1> DEFINE C == Changed(old, new)
           hull == Hull(C)
<1>1. C \subseteq DOMAIN new.at /\ C # {}
  <2>1. C # {}
    BY ImagesDiffer
  <2>2. C \subseteq DOMAIN new.at
    BY DEF Changed
  <2> QED
    BY <2>1, <2>2, Zenon
<1>2. Inside(hull, new) /\ \A q \in C : Covers(hull, q)
  <2> HIDE DEF C
  <2> QED
    BY <1>1, HullCovers
<1> HIDE DEF hull, C
<1>3. CASE updates = <<RawUpdate(hull)>>
  <2> DEFINE u == RawUpdate(hull)
  <2>1. u.rect = hull /\ u.isCopy = FALSE
    BY DEF RawUpdate
  <2> HIDE DEF u
  <2>2. updates = <<u>>
    BY <1>3 DEF u
  <2>3. DOMAIN updates = 1..1 /\ updates[1] = u /\ \A i \in 1..1 : i = 1
    BY <2>2
  <2>4. ~CopiesNatively(u, Visible(new))
    BY <2>1 DEF CopiesNatively
  <2>5. \A i \in 1..1 : Inside(updates[i].rect, new) /\ ~CopiesNatively(updates[i], Visible(new))
    BY <1>2, <2>1, <2>3, <2>4, Zenon
  <2>6. \A q \in Changed(old, new) : \E i \in 1..1 : Covers(updates[i].rect, q)
    <3>1. 1 \in 1..1
      OBVIOUS
    <3> QED
      BY <1>2, <2>1, <2>3, <3>1, Zenon DEF C
  <2> QED
    <3>1. Holds(old, new, 1, updates) /\ 1 \in Nat
      BY <2>3, <2>5, <2>6, Zenon DEF Holds
    <3> QED
      BY <3>1, RegionsShow
<1>4. CASE updates = LineUpdates(old, new)
  <2> DEFINE n == Len(updates)
  <2>1. LinesAnnounced(old, new, new.h, updates)
    BY <1>4, LineUpdatesCover
  <2>2. n \in Nat /\ DOMAIN updates = 1..n
    BY <2>1 DEF LinesAnnounced
  <2>3. \A i \in 1..n : Inside(updates[i].rect, new) /\ ~CopiesNatively(updates[i], Visible(new))
    BY <2>1, <2>2, Zenon DEF LinesAnnounced, CopiesNatively
  <2>4. \A q \in C : q[2] \in 0..new.h - 1
    BY <1>1 DEF IsImage
  <2>5. \A q \in Changed(old, new) : \E i \in 1..n : Covers(updates[i].rect, q)
    BY <2>1, <2>2, <2>4, Zenon DEF LinesAnnounced, C
  <2> HIDE DEF n
  <2>6. Holds(old, new, n, updates)
    BY <2>2, <2>3, <2>5, Zenon DEF Holds
  <2> QED
    BY <2>2, <2>6, RegionsShow
<1>5. CASE \E copy \in Copies(old, new) : updates = <<copy>>
  <2>1. PICK copy \in Copies(old, new) : updates = <<copy>>
    BY <1>5
  <2>2. PICK from \in (0..new.w - hull.w) \X (0..new.h - hull.h) :
           /\ copy = CopyUpdate(hull, Point(from[1], from[2]))
           /\ \A q \in Points(hull) :
                 new.at[q] = old.at[<<q[1] - hull.x + from[1], q[2] - hull.y + from[2]>>]
    BY Zenon DEF Copies, hull, C
  <2>3. /\ copy.rect = hull /\ copy.source.x = from[1] /\ copy.source.y = from[2]
    BY <2>2 DEF CopyUpdate, Point
  <2>4. /\ from[1] \in Nat /\ from[1] + hull.w <= new.w
        /\ from[2] \in Nat /\ from[2] + hull.h <= new.h
    <3>1. from[1] \in 0..new.w - hull.w /\ from[2] \in 0..new.h - hull.h
      OBVIOUS
    <3>2. new.w \in Nat /\ new.h \in Nat /\ hull.w \in Nat /\ hull.h \in Nat
      BY <1>2 DEF Inside, Rectangle, IsImage
    <3> QED
      BY <3>1, <3>2
  <2>5. DOMAIN updates = 1..1 /\ updates[1] = copy /\ \A i \in 1..1 : i = 1
    BY <2>1
  <2>6. CASE CopiesNatively(copy, Visible(new))
    <3>1. /\ Inside(copy.rect, new) /\ copy.source.x \in Nat /\ copy.source.y \in Nat
          /\ copy.source.x + copy.rect.w <= new.w /\ copy.source.y + copy.rect.h <= new.h
      BY <1>2, <2>3, <2>4, Zenon
    <3>2. \A q \in Points(copy.rect) :
             new.at[q] = old.at[<<q[1] - copy.rect.x + copy.source.x,
                                  q[2] - copy.rect.y + copy.source.y>>]
      BY <2>2, <2>3, Zenon
    <3>3. \A q \in Changed(old, new) : Covers(copy.rect, q)
      BY <1>2, <2>3, Zenon DEF C
    <3>4. \A p \in Cells : Refreshed(before, new, <<copy>>)[p] = View(new)[p]
      BY <2>6, <3>1, <3>2, <3>3, CopyShows
    <3> QED
      BY <2>1, <3>4, Zenon
  <2>7. CASE ~CopiesNatively(copy, Visible(new))
    <3>1. \A i \in 1..1 : Inside(updates[i].rect, new) /\ ~CopiesNatively(updates[i], Visible(new))
      BY <1>2, <2>3, <2>5, <2>7, Zenon
    <3>2. \A q \in Changed(old, new) : \E i \in 1..1 : Covers(updates[i].rect, q)
      <4>1. 1 \in 1..1
        OBVIOUS
      <4> QED
        BY <1>2, <2>3, <2>5, <4>1, Zenon DEF C
    <3> QED
      <4>1. Holds(old, new, 1, updates) /\ 1 \in Nat
        BY <2>5, <3>1, <3>2, Zenon DEF Holds
      <4> QED
        BY <4>1, RegionsShow
  <2> QED
    BY <2>6, <2>7
<1>6. updates = <<RawUpdate(hull)>> \/ updates = LineUpdates(old, new)
        \/ \E copy \in Copies(old, new) : updates = <<copy>>
  BY Zenon DEF Announcements, hull, C
<1> QED
  BY <1>3, <1>4, <1>5, <1>6, Zenon

DrawInv == image \in Images \cup {NoImage} /\ ScreenShowsImage

LEMMA ShownIsView ==
  ScreenShowsImage <=> (image # NoImage => \A p \in Cells : cells[p] = View(image)[p])
<1>1. ASSUME NEW p \in Cells
      PROVE  View(image)[p] =
                LET from == <<p[1] - Offset(image).x, p[2] - Offset(image).y>>
                IN  IF from \in DOMAIN image.at THEN image.at[from] ELSE Black
  BY Zenon DEF View, From
<1> QED
  BY <1>1, Zenon DEF ScreenShowsImage

LEMMA DrawInvStep == DrawInv /\ [DrawNext]_drawVars => DrawInv'
<1> SUFFICES ASSUME DrawInv, [DrawNext]_drawVars PROVE DrawInv'
  OBVIOUS
<1>1. \A img \in Images : IsImage(img)
  BY DrawAssumption
<1>2. ASSUME NEW img \in Images, ShowImage(img) PROVE DrawInv'
  <2>1. IsImage(img) /\ image' = img
    BY <1>1, <1>2 DEF ShowImage
  <2>2. cells' = SendBatch(SendBatch(cells, NewScreen), Encode(img, Visible(img), Offset(img)))
    BY <1>2, Zenon DEF ShowImage
  <2>3. \A p \in Cells : cells'[p] = View(img)[p]
    BY <2>1, <2>2, WholeImageShows, Zenon
  <2>4. ScreenShowsImage'
    <3>1. \A p \in Cells :
             cells'[p] = LET from == <<p[1] - Offset(img).x, p[2] - Offset(img).y>>
                         IN  IF from \in DOMAIN img.at THEN img.at[from] ELSE Black
      BY <2>3, Zenon DEF View, From
    <3>2. Offset(image') = Offset(img)
      BY <2>1, Zenon
    <3> QED
      BY <2>1, <3>1, <3>2, Zenon DEF ScreenShowsImage
  <2> QED
    BY <2>1, <2>4 DEF DrawInv
<1>3. ASSUME NEW img \in Images, img.w = image.w, img.h = image.h, img # image,
             NEW updates \in Announcements(image, img), ShowImageRegions(img, updates)
      PROVE  DrawInv'
  <2>1. IsImage(img) /\ image' = img
    BY <1>1, <1>3 DEF ShowImageRegions
  <2>2. image # NoImage /\ IsImage(image)
    <3>1. img.w # 0
      BY <2>1 DEF IsImage
    <3>2. NoImage.w = 0
      BY DEF NoImage
    <3>3. image # NoImage
      BY <1>3, <3>1, <3>2
    <3> QED
      BY <1>1, <3>3 DEF DrawInv
  <2>3. \A p \in Cells : cells[p] = View(image)[p]
    BY <2>2, ShownIsView, Zenon DEF DrawInv
  <2>4. cells' = Refreshed(cells, img, updates)
    BY <1>3, Zenon DEF ShowImageRegions, Refreshed
  <2>5. SameSize(image, img)
    BY <1>3 DEF SameSize
  <2>6. \A p \in Cells : cells'[p] = View(img)[p]
    <3>1. image # img
      BY <1>3
    <3>2. \A p \in Cells : Refreshed(cells, img, updates)[p] = View(img)[p]
      BY <2>1, <2>2, <2>3, <2>5, <3>1, AnnouncedShows
    <3> QED
      BY <2>4, <3>2, Zenon
  <2>7. ScreenShowsImage'
    <3>1. \A p \in Cells :
             cells'[p] = LET from == <<p[1] - Offset(img).x, p[2] - Offset(img).y>>
                         IN  IF from \in DOMAIN img.at THEN img.at[from] ELSE Black
      BY <2>6, Zenon DEF View, From
    <3>2. Offset(image') = Offset(img)
      BY <2>1, Zenon
    <3> QED
      BY <2>1, <3>1, <3>2, Zenon DEF ScreenShowsImage
  <2> QED
    BY <2>1, <2>7 DEF DrawInv
<1>4. CASE UNCHANGED drawVars
  <2>1. image' = image /\ cells' = cells
    BY <1>4 DEF drawVars
  <2>2. ScreenShowsImage'
    BY <2>1, Zenon DEF DrawInv, ScreenShowsImage, Offset, Visible
  <2> QED
    BY <2>1, <2>2 DEF DrawInv
<1> QED
  BY <1>2, <1>3, <1>4, Zenon DEF DrawNext

\* The terminal shows the newest image, cropped and centred, after ShowImage
\* and after ShowImageRegions with each kind of announcement, for images and
\* screens of every size.
THEOREM ScreenShowsImageCorrect == DrawSpec => []ScreenShowsImage
<1>1. DrawInit => DrawInv
  BY DEF DrawInit, DrawInv, ScreenShowsImage
<1>2. DrawInv => ScreenShowsImage
  BY DEF DrawInv
<1> QED
  BY <1>1, <1>2, DrawInvStep, PTL DEF DrawSpec

-----------------------------------------------------------------------------
(* Frames that are scaled *)

\* The pixel of a cell is not beyond the framebuffer: the limit of
\* translateScaledPoint never binds.
LEMMA PixelIsQuotient ==
  ASSUME NEW size \in Nat \ {0}, NEW places \in Nat \ {0}, NEW cell \in 0..places - 1
  PROVE  /\ PixelOf(cell, size, places) = (cell * size) \div places
         /\ PixelOf(cell, size, places) \in 0..size - 1
<1> DEFINE a == cell * size
           p == a \div places
<1>1. a \in Nat /\ a < places * size
  <2>1. cell * size <= (places - 1) * size /\ cell * size \in Nat
    BY SMT
  <2>2. (places - 1) * size = places * size - size
    BY SMT
  <2> QED
    BY <2>1, <2>2, SMT
<1>2. p \in Nat
  BY <1>1, Quotient
<1>3. p < size
  BY <1>1, QuotientBelow
<1> QED
  BY <1>2, <1>3 DEF PixelOf, Smaller

\* The drawing and the pointer agree: a cell that shows a changed pixel, in
\* the sense that clicks on it are sent there, is among the cells that are
\* drawn for the changed pixels, for every ratio of the two sizes.
THEOREM ChangedCellsAreDrawn ==
  ASSUME NEW size \in Nat \ {0}, NEW places \in Nat \ {0},
         NEW from \in Nat, NEW length \in Nat,
         NEW cell \in 0..places - 1,
         PixelOf(cell, size, places) \in from..from + length - 1
  PROVE  cell \in FirstCell(from, size, places)..EndCell(from, length, size, places) - 1
<1> DEFINE a == cell * size
           p == a \div places
           first == (from * places) \div size
           n == (from + length) * places
           end == (n + size - 1) \div size
<1>1. cell \in Nat /\ a \in Nat
  BY SMT
<1>2. p \in from..from + length - 1
  BY PixelIsQuotient
<1>3. p \in Nat /\ places * p <= a /\ a < places * p + places
  BY <1>1, Quotient
<1>4. first \in Nat /\ size * first <= from * places
  <2>1. from * places \in Nat
    BY SMT
  <2> QED
    BY <2>1, Quotient
<1>5. end \in Nat /\ n <= size * end
  <2>1. n \in Nat /\ n + size - 1 \in Nat
    BY SMT
  <2>2. end \in Nat /\ n + size - 1 < size * end + size
    BY <2>1, Quotient
  <2>3. size * end \in Nat
    BY <2>2, SMT
  <2> QED
    BY <2>1, <2>2, <2>3, SMT
<1>6. first <= cell
  <2>1. from * places <= places * p
    BY <1>2, <1>3, ProductOrder
  <2>2. size * first <= size * cell
    BY <1>3, <1>4, <2>1, SMT
  <2>3. CASE cell + 1 <= first
    <3>1. size * (cell + 1) <= size * first
      BY <1>1, <1>4, <2>3, ProductOrder
    <3>2. size * (cell + 1) = size * cell + size
      BY <1>1, SMT
    <3>3. size * cell \in Nat /\ size * first \in Nat
      BY <1>1, <1>4, SMT
    <3> QED
      BY <2>2, <3>1, <3>2, <3>3, SMT
  <2> QED
    BY <1>1, <1>4, <2>3, SMT
<1>7. cell < end
  <2>1. a < n
    <3>1. places * (p + 1) <= places * (from + length)
      BY <1>2, <1>3, ProductOrder
    <3>2. places * (p + 1) = places * p + places /\ places * p \in Nat
      BY <1>3, SMT
    <3>3. n = places * (from + length) /\ n \in Nat
      BY SMT
    <3> QED
      BY <1>1, <1>3, <3>1, <3>2, <3>3, SMT
  <2>2. CASE end <= cell
    <3>1. size * end <= size * cell
      BY <1>1, <1>5, <2>2, ProductOrder
    <3>2. size * cell = a
      BY <1>1, SMT
    <3>3. size * end \in Nat /\ n \in Nat
      BY <1>5, SMT
    <3> QED
      BY <1>1, <1>5, <2>1, <3>1, <3>2, <3>3, SMT
  <2> QED
    BY <1>1, <1>5, <2>2, SMT
<1> QED
  BY <1>1, <1>4, <1>5, <1>6, <1>7 DEF FirstCell, EndCell, DivideCeil

-----------------------------------------------------------------------------
(* The whole frame: two axes, and a frame that is not scaled. *)

Inv ==
  /\ canvas \in Sizes \cup {NoFrame}
  /\ scaleToFit \in BOOLEAN
  /\ frame \in Sizes \cup {NoFrame}
  /\ frame # NoFrame => canvas # NoFrame
  /\ stale = {}

LEMMA SizeTypes ==
  ASSUME Inv, frame # NoFrame
  PROVE  /\ canvas.w \in Nat \ {0} /\ canvas.h \in Nat \ {0}
         /\ frame.w \in Nat \ {0} /\ frame.h \in Nat \ {0}
  BY SMT DEF Inv, Sizes

\* A fitted frame has a cell at least.
LEMMA FitTypes ==
  ASSUME Inv, frame # NoFrame
  PROVE  /\ Fit(frame).w \in Nat \ {0} /\ Fit(frame).h \in Nat \ {0}
         /\ Fit(frame).x \in Int /\ Fit(frame).y \in Int
<1> DEFINE tall == (frame.h * canvas.w) \div frame.w
           wide == (frame.w * canvas.h) \div frame.h
           h == Larger(1, Smaller(tall, canvas.h))
           w == IF tall > canvas.h THEN Larger(1, wide) ELSE Larger(1, canvas.w)
<1>1. tall \in Nat /\ wide \in Nat
  <2>1. frame.h * canvas.w \in Nat /\ frame.w * canvas.h \in Nat
    BY SizeTypes, SMT
  <2> QED
    BY <2>1, SizeTypes, Quotient
<1> HIDE DEF tall, wide
<1>2. h \in Nat \ {0} /\ w \in Nat \ {0}
  BY <1>1, SizeTypes DEF Larger, Smaller
<1>3. (canvas.w - w) \div 2 \in Int /\ (canvas.h - h) \div 2 \in Int
  BY <1>2, SizeTypes, SMT
<1> USE DEF tall, wide
<1>4. Fit(frame) = [x |-> (canvas.w - w) \div 2, y |-> (canvas.h - h) \div 2, w |-> w, h |-> h]
  BY DEF Fit, Rect
<1> HIDE DEF h, w
<1> QED
  BY <1>2, <1>3, <1>4

\* One axis of a fitted frame that begins at a cell of the screen.
LEMMA ScaledAxis ==
  ASSUME NEW size \in Nat \ {0}, NEW places \in Nat \ {0}, NEW offset \in Int,
         NEW from \in Nat, NEW length \in Nat,
         NEW cell \in offset..offset + places - 1,
         NEW pixel,
         pixel = PixelOf(Clamp(cell, offset, offset + places - 1) - offset, size, places)
  PROVE  /\ pixel \in 0..size - 1
         /\ pixel \in from..from + length - 1 =>
               LET first == FirstCell(from, size, places)
                   span  == Smaller(EndCell(from, length, size, places), places) - first
               IN  cell \in offset + first..offset + first + span - 1
<1> DEFINE c == cell - offset
           first == FirstCell(from, size, places)
           end == EndCell(from, length, size, places)
<1>1. c \in 0..places - 1 /\ Clamp(cell, offset, offset + places - 1) = cell
  BY SMT DEF Clamp, Smaller, Larger
<1>2. pixel = PixelOf(c, size, places)
  BY <1>1
<1>3. pixel \in 0..size - 1
  BY <1>1, <1>2, PixelIsQuotient
<1>4. ASSUME pixel \in from..from + length - 1
      PROVE  cell \in offset + first..offset + first + (Smaller(end, places) - first) - 1
  <2>1. c \in first..end - 1
    BY <1>1, <1>2, <1>4, ChangedCellsAreDrawn
  <2>2. first \in Int /\ end \in Int
    <3>1. from * places \in Nat /\ (from + length) * places + size - 1 \in Nat
      <4>1. (from + length) * places \in Nat
        BY SMT
      <4> QED
        BY <4>1, SMT
    <3> QED
      BY <3>1, Quotient DEF FirstCell, EndCell, DivideCeil
  <2> HIDE DEF first, end
  <2> QED
    BY <1>1, <2>1, <2>2, SMT DEF Smaller
<1> QED
  BY <1>3, <1>4

\* One axis of a frame that is not scaled: the two ways to centre it agree.
LEMMA CentredAxis ==
  ASSUME NEW size \in Nat \ {0}, NEW screen \in Nat \ {0},
         NEW offset, offset = (screen - Smaller(size, screen)) \div 2,
         NEW cell \in offset..offset + Smaller(size, screen) - 1
  PROVE  /\ offset \in Int
         /\ Translated(cell, screen, size) = cell - offset
         /\ Translated(cell, screen, size) \in 0..size - 1
  BY SMT DEF Translated, Clamp, Smaller, Larger

LEMMA CentredTypes ==
  ASSUME Inv, frame # NoFrame
  PROVE  Centred(frame) =
            [x |-> (canvas.w - Smaller(frame.w, canvas.w)) \div 2,
             y |-> (canvas.h - Smaller(frame.h, canvas.h)) \div 2,
             w |-> Smaller(frame.w, canvas.w), h |-> Smaller(frame.h, canvas.h)]
  BY DEF Centred, Rect

\* Every cell of the shown frame has a pixel, and is drawn again when the
\* pixel is among the changed ones.
LEMMA DrawnAgain ==
  ASSUME Inv, frame # NoFrame, NEW cell \in Area(Shown)
  PROVE  /\ PixelUnder(cell) \in Area(Bounds(frame))
         /\ \A r \in Rectangles(frame) : PixelUnder(cell) \in Area(r) => cell \in Drawn(r)
<1>1. CASE scaleToFit
  <2> DEFINE s == Fit(frame)
             px == PixelOf(Clamp(cell[1], s.x, s.x + s.w - 1) - s.x, frame.w, s.w)
             py == PixelOf(Clamp(cell[2], s.y, s.y + s.h - 1) - s.y, frame.h, s.h)
  <2>1. Shown = s /\ PixelUnder(cell) = <<px, py>>
    BY <1>1 DEF Shown, PixelUnder
  <2>2. /\ cell = <<cell[1], cell[2]>>
        /\ cell[1] \in s.x..s.x + s.w - 1 /\ cell[2] \in s.y..s.y + s.h - 1
    BY <2>1 DEF Area
  <2> HIDE DEF s
  <2>3. s.w \in Nat \ {0} /\ s.h \in Nat \ {0} /\ s.x \in Int /\ s.y \in Int
    BY FitTypes DEF s
  <2>4. px \in 0..frame.w - 1 /\ py \in 0..frame.h - 1
    BY <2>2, <2>3, SizeTypes, ScaledAxis
  <2>5. ASSUME NEW r \in Rectangles(frame), PixelUnder(cell) \in Area(r)
        PROVE  cell \in Drawn(r)
    <3>1. r.x \in Nat /\ r.y \in Nat /\ r.w \in Nat /\ r.h \in Nat
      BY SizeTypes DEF Rectangles
    <3>2. px \in r.x..r.x + r.w - 1 /\ py \in r.y..r.y + r.h - 1
      BY <2>1, <2>5 DEF Area
    <3> DEFINE x == FirstCell(r.x, frame.w, s.w)
               y == FirstCell(r.y, frame.h, s.h)
               w == Smaller(EndCell(r.x, r.w, frame.w, s.w), s.w) - x
               h == Smaller(EndCell(r.y, r.h, frame.h, s.h), s.h) - y
    <3>3. cell[1] \in s.x + x..s.x + x + w - 1
      BY <2>2, <2>3, <3>1, <3>2, SizeTypes, ScaledAxis
    <3>4. cell[2] \in s.y + y..s.y + y + h - 1
      BY <2>2, <2>3, <3>1, <3>2, SizeTypes, ScaledAxis
    <3>5. Mapped(r) = [x |-> s.x + x, y |-> s.y + y, w |-> w, h |-> h]
      BY <2>1 DEF Mapped, Rect
    <3>6. Drawn(r) = Area(Mapped(r))
      BY <1>1 DEF Drawn
    <3> HIDE DEF x, y, w, h, px, py
    <3> QED
      BY <2>2, <3>3, <3>4, <3>5, <3>6 DEF Area
  <2> HIDE DEF px, py
  <2> QED
    BY <2>1, <2>4, <2>5, SizeTypes DEF Area, Bounds, Rect
<1>2. CASE ~scaleToFit
  <2> DEFINE s == Centred(frame)
             px == Translated(cell[1], canvas.w, frame.w)
             py == Translated(cell[2], canvas.h, frame.h)
  <2>1. Shown = s /\ PixelUnder(cell) = <<px, py>>
    BY <1>2 DEF Shown, PixelUnder
  <2>2. /\ cell = <<cell[1], cell[2]>>
        /\ cell[1] \in s.x..s.x + s.w - 1 /\ cell[2] \in s.y..s.y + s.h - 1
    BY <2>1 DEF Area
  <2>3. /\ s.x = (canvas.w - Smaller(frame.w, canvas.w)) \div 2
        /\ s.y = (canvas.h - Smaller(frame.h, canvas.h)) \div 2
        /\ s.w = Smaller(frame.w, canvas.w) /\ s.h = Smaller(frame.h, canvas.h)
    BY CentredTypes
  <2> HIDE DEF s
  <2>4. s.x \in Int /\ px = cell[1] - s.x /\ px \in 0..frame.w - 1
    BY <2>2, <2>3, SizeTypes, CentredAxis
  <2>5. s.y \in Int /\ py = cell[2] - s.y /\ py \in 0..frame.h - 1
    BY <2>2, <2>3, SizeTypes, CentredAxis
  <2>6. ASSUME NEW r \in Rectangles(frame), PixelUnder(cell) \in Area(r)
        PROVE  cell \in Drawn(r)
    <3> DEFINE q == PixelUnder(cell)
    <3>1. q[1] = px /\ q[2] = py
      BY <2>1
    <3>2. s.w \in Int /\ s.h \in Int
      BY <2>3, SizeTypes DEF Smaller
    <3>3. q[1] + s.x = cell[1] /\ q[2] + s.y = cell[2]
      BY <2>2, <2>4, <2>5, <3>1, <3>2, SMT
    <3>4. cell = <<q[1] + s.x, q[2] + s.y>>
      BY <2>2, <3>3
    <3>5. Drawn(r) = {<<p[1] + s.x, p[2] + s.y>> : p \in Area(r)} \cap Area(s)
      BY <1>2, <2>1 DEF Drawn
    <3>6. cell \in Area(s)
      BY <2>1
    <3> HIDE DEF q
    <3>7. q \in Area(r)
      BY <2>6 DEF q
    <3> QED
      BY <3>4, <3>5, <3>6, <3>7
  <2> HIDE DEF px, py
  <2> QED
    BY <2>1, <2>4, <2>5, <2>6, SizeTypes DEF Area, Bounds, Rect
<1> QED
  BY <1>1, <1>2 DEF Inv

LEMMA InvInit == ScaleInit => Inv
  BY DEF ScaleInit, Inv

LEMMA InvStep == Inv /\ [ScaleNext]_scaleVars => Inv'
<1> SUFFICES ASSUME Inv, [ScaleNext]_scaleVars PROVE Inv'
  OBVIOUS
<1>1. CASE Configure
  BY <1>1, SizeAssumption DEF Configure, Inv
<1>2. CASE canvas # NoFrame /\ \E size \in FrameSizes : FullFrame(size)
  BY <1>2, SizeAssumption DEF FullFrame, Inv
<1>3. CASE frame # NoFrame /\ \E rect \in Rectangles(frame) : ChangedFrame({rect})
  <2>1. PICK r \in Rectangles(frame) : ChangedFrame({r})
    BY <1>3
  <2>2. \A cell \in Area(Shown) : PixelUnder(cell) \in Area(r) => cell \in Drawn(r)
    BY <1>3, DrawnAgain
  <2>3. stale' = (stale \cup {cell \in Area(Shown) : PixelUnder(cell) \in Area(r)}) \ Drawn(r)
    BY <2>1 DEF ChangedFrame
  <2>4. stale' = {}
    BY <2>2, <2>3 DEF Inv
  <2>5. UNCHANGED <<canvas, scaleToFit, frame>>
    BY <2>1 DEF ChangedFrame
  <2> QED
    BY <2>4, <2>5 DEF Inv
<1>4. CASE UNCHANGED scaleVars
  BY <1>4 DEF scaleVars, Inv
<1> QED
  BY <1>1, <1>2, <1>3, <1>4 DEF ScaleNext

LEMMA InvMeaning == Inv => ClickHitsWhatIsShown
  BY DrawnAgain DEF Inv, ClickHitsWhatIsShown

\* A click hits what the operator sees, for screens and framebuffers of every
\* size that is not empty, scaled or not.
THEOREM ClicksCorrect == ScaleSpec => []ClickHitsWhatIsShown
<1>1. Inv /\ [ScaleNext]_scaleVars => Inv'
  BY InvStep
<1> QED
  BY <1>1, InvInit, InvMeaning, PTL DEF ScaleSpec
=============================================================================
