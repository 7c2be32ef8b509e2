-------------------------- MODULE SSHSessionProofs --------------------------
(***************************************************************************)
(* Proofs about an SSH session and its terminal.                           *)
(*                                                                         *)
(* Every operation of the terminal marks the rows whose picture it changes *)
(* (Marked), so every round of a write, and every write, does (Follows);   *)
(* that carries the invariant of the session, IInv, through its writes.    *)
(* Rounds over one byte more are the same rounds but where a rune has only *)
(* begun, and such a rune is held back: so writing byte by byte comes to   *)
(* the same (BytewiseIsWrite).                                             *)
(*                                                                         *)
(* The recursive functions of the model are reasoned about over their      *)
(* indices: a set of indices that holds 0 and each next one holds them all *)
(* (UpTo, from the least element that is missing).                         *)
(***************************************************************************)
EXTENDS SSHSession, WellFoundedInduction, TLAPS

-----------------------------------------------------------------------------
(* Integers.                                                               *)

LEMMA MaxOfTwo ==
    ASSUME NEW a \in Int, NEW b \in Int
    PROVE  Max({a, b}) = IF a >= b THEN a ELSE b
BY DEF Max

LEMMA MinOfTwo ==
    ASSUME NEW a \in Int, NEW b \in Int
    PROVE  Min({a, b}) = IF a <= b THEN a ELSE b
BY DEF Min

LEMMA Clamped ==
    ASSUME NEW v \in Int, NEW hi \in Nat
    PROVE  Clamp(v, hi) \in 0..hi
BY MaxOfTwo, MinOfTwo DEF Clamp

-----------------------------------------------------------------------------
(* Operations of the terminal.                                             *)

Region(t) == t.top < t.bottom \/ NumRows = 1

\* u is a terminal that waits for the bytes t waits for.
Kept(t, u) ==
    /\ u \in Terminals /\ Region(u)
    /\ u.state = t.state /\ u.csi = t.csi /\ u.pending = t.pending

\* A row outside rows that differs from t in u is marked in u.
Touches(t, u, rows) ==
    /\ Kept(t, u)
    /\ t.dirty \subseteq u.dirty
    /\ \A r \in Rows \ (u.dirty \cup rows) : RowView(u, r) = RowView(t, r)

Marked(t, u) == Touches(t, u, {})

LEMMA Sizes == /\ NumRows \in Nat /\ NumCols \in Nat /\ NumRows >= 1 /\ NumCols >= 1
               /\ 0 \in Rows /\ 0 \in Cols /\ NumRows - 1 \in Rows /\ NumCols - 1 \in Cols
               /\ MaxInt \in Nat /\ MaxInt >= NumRows /\ MaxInt >= NumCols
BY SizeAssumption DEF Rows, Cols

LEMMA MarkMarks ==
    ASSUME NEW t \in Terminals, Region(t), NEW rows
    PROVE  /\ Marked(t, Mark(t, rows))
           /\ Mark(t, rows).dirty = t.dirty \cup (rows \cap Rows)
           /\ Mark(t, rows).y = t.y /\ Mark(t, rows).x = t.x
           /\ Mark(t, rows).cells = t.cells
BY DEF Mark, Marked, Touches, Kept, Terminals, Region, RowView

LEMMA MoveCursorMarks ==
    ASSUME NEW t \in Terminals, Region(t), NEW row \in Int, NEW col \in Int
    PROVE  /\ Marked(t, MoveCursor(t, row, col))
           /\ t.y \in MoveCursor(t, row, col).dirty
<1> DEFINE y == Clamp(row, NumRows - 1)
           x == Clamp(col, NumCols - 1)
           m == [t EXCEPT !.y = y, !.x = x]
<1>1. y \in Rows /\ x \in Cols
  BY Clamped, Sizes DEF Rows, Cols
<1> HIDE DEF y, x
<1>2. /\ m \in Terminals /\ m.y = y /\ m.x = x /\ m.cells = t.cells /\ m.dirty = t.dirty
      /\ m.top = t.top /\ m.bottom = t.bottom
      /\ m.state = t.state /\ m.csi = t.csi /\ m.pending = t.pending
  BY <1>1 DEF Terminals
<1>3. MoveCursor(t, row, col) = Mark(m, {t.y, m.y})
  BY DEF MoveCursor, y, x
<1> HIDE DEF m
<1>4. t.y \in Rows
  BY DEF Terminals
<1>5. \A r \in Rows \ {t.y, m.y} : RowView(m, r) = RowView(t, r)
  BY <1>2 DEF RowView
<1>6. Region(m)
  BY <1>2 DEF Region
<1> QED
  BY <1>1, <1>2, <1>3, <1>4, <1>5, <1>6, MarkMarks DEF Marked, Touches, Kept

\* Rows that are drawn anew and marked.
LEMMA DrawnMarks ==
    ASSUME NEW t \in Terminals, Region(t), NEW grid \in Grids, NEW rows,
           \A r \in Rows \ rows : grid[r] = t.cells[r]
    PROVE  LET u == Mark([t EXCEPT !.cells = grid], rows)
           IN  Marked(t, u) /\ u.x = t.x /\ u.y = t.y /\ rows \cap Rows \subseteq u.dirty
<1> DEFINE d == [t EXCEPT !.cells = grid]
           u == Mark(d, rows)
<1>1. /\ d \in Terminals /\ d.x = t.x /\ d.y = t.y /\ d.cells = grid /\ d.dirty = t.dirty
      /\ d.top = t.top /\ d.bottom = t.bottom
      /\ d.state = t.state /\ d.csi = t.csi /\ d.pending = t.pending
  BY DEF Terminals
<1> HIDE DEF d
<1>2. Region(d)
  BY <1>1 DEF Region
<1>3. /\ Marked(d, u) /\ u.dirty = t.dirty \cup (rows \cap Rows)
      /\ u.x = t.x /\ u.y = t.y
  BY <1>1, <1>2, MarkMarks
<1> HIDE DEF u
<1>4. \A r \in Rows \ rows : RowView(d, r) = RowView(t, r)
  BY <1>1 DEF RowView
<1>5. Marked(t, u)
  BY <1>1, <1>3, <1>4 DEF Marked, Touches, Kept
<1> QED
  BY <1>3, <1>5 DEF d, u

LEMMA BlankTyped == BlankRow \in [Cols -> Glyphs] /\ Blank \in Glyphs /\ Cont \in Glyphs
                    /\ Wide \in Glyphs /\ Bad \in Glyphs
<1>1. Blank \in Glyphs /\ Cont \in Glyphs /\ Wide \in Glyphs /\ Bad \in Glyphs
  BY DEF Glyphs
<1> QED BY <1>1 DEF BlankRow

LEMMA ShiftUpMarks ==
    ASSUME NEW t \in Terminals, Region(t), NEW from \in Rows, NEW to \in Rows, from <= to
    PROVE  LET u == ShiftUp(t, from, to)
           IN  Marked(t, u) /\ u.x = t.x /\ u.y = t.y /\ (from..to) \cap Rows \subseteq u.dirty
<1> DEFINE grid == [r \in Rows |-> CASE r = to -> BlankRow
                                     [] r \in from..(to - 1) -> t.cells[r + 1]
                                     [] OTHER -> t.cells[r]]
<1>1. ShiftUp(t, from, to) = Mark([t EXCEPT !.cells = grid], from..to)
  BY DEF ShiftUp, Terminals
<1>2. t.cells \in [Rows -> [Cols -> Glyphs]]
  BY DEF Terminals, Grids
<1>3. ASSUME NEW r \in Rows
      PROVE  grid[r] \in [Cols -> Glyphs] /\ (r \notin from..to => grid[r] = t.cells[r])
  <2>1. CASE r = to
    BY <2>1, BlankTyped DEF Rows
  <2>2. CASE r # to /\ r \in from..(to - 1)
    <3>1. r + 1 \in Rows /\ r \in from..to
      BY <2>2, Sizes DEF Rows
    <3>2. grid[r] = t.cells[r + 1]
      BY <2>2
    <3> QED BY <1>2, <3>1, <3>2
  <2>3. CASE r # to /\ r \notin from..(to - 1)
    <3>1. grid[r] = t.cells[r]
      BY <2>3
    <3> QED BY <1>2, <3>1
  <2> QED BY <2>1, <2>2, <2>3
<1>4. grid \in Grids
  BY <1>3 DEF Grids
<1>5. \A r \in Rows \ (from..to) : grid[r] = t.cells[r]
  BY <1>3
<1> DEFINE rows == from..to
<1> HIDE DEF grid, rows
<1>6. \A r \in Rows \ rows : grid[r] = t.cells[r]
  BY <1>5 DEF rows
<1> DEFINE u == Mark([t EXCEPT !.cells = grid], rows)
<1>7. Marked(t, u) /\ u.x = t.x /\ u.y = t.y /\ rows \cap Rows \subseteq u.dirty
  BY <1>4, <1>6, DrawnMarks
<1> HIDE DEF u
<1> QED
  BY <1>1, <1>7 DEF u, rows

LEMMA ShiftDownMarks ==
    ASSUME NEW t \in Terminals, Region(t), NEW from \in Rows, NEW to \in Rows, from <= to
    PROVE  LET u == ShiftDown(t, from, to)
           IN  Marked(t, u) /\ u.x = t.x /\ u.y = t.y /\ (from..to) \cap Rows \subseteq u.dirty
<1> DEFINE grid == [r \in Rows |-> CASE r = from -> BlankRow
                                     [] r \in (from + 1)..to -> t.cells[r - 1]
                                     [] OTHER -> t.cells[r]]
<1>1. ShiftDown(t, from, to) = Mark([t EXCEPT !.cells = grid], from..to)
  BY DEF ShiftDown, Terminals
<1>2. t.cells \in [Rows -> [Cols -> Glyphs]]
  BY DEF Terminals, Grids
<1>3. ASSUME NEW r \in Rows
      PROVE  grid[r] \in [Cols -> Glyphs] /\ (r \notin from..to => grid[r] = t.cells[r])
  <2>1. CASE r = from
    BY <2>1, BlankTyped DEF Rows
  <2>2. CASE r # from /\ r \in (from + 1)..to
    <3>1. r - 1 \in Rows /\ r \in from..to
      BY <2>2, Sizes DEF Rows
    <3>2. grid[r] = t.cells[r - 1]
      BY <2>2
    <3> QED BY <1>2, <3>1, <3>2
  <2>3. CASE r # from /\ r \notin (from + 1)..to
    <3>1. grid[r] = t.cells[r]
      BY <2>3
    <3> QED BY <1>2, <3>1
  <2> QED BY <2>1, <2>2, <2>3
<1>4. grid \in Grids
  BY <1>3 DEF Grids
<1>5. \A r \in Rows \ (from..to) : grid[r] = t.cells[r]
  BY <1>3
<1> DEFINE rows == from..to
<1> HIDE DEF grid, rows
<1>6. \A r \in Rows \ rows : grid[r] = t.cells[r]
  BY <1>5 DEF rows
<1> DEFINE u == Mark([t EXCEPT !.cells = grid], rows)
<1>7. Marked(t, u) /\ u.x = t.x /\ u.y = t.y /\ rows \cap Rows \subseteq u.dirty
  BY <1>4, <1>6, DrawnMarks
<1> HIDE DEF u
<1> QED
  BY <1>1, <1>7 DEF u, rows

LEMMA RegionRows ==
    ASSUME NEW t \in Terminals, Region(t)
    PROVE  t.top \in Rows /\ t.bottom \in Rows /\ t.top <= t.bottom
BY Sizes DEF Terminals, Region, Rows

LEMMA ScrollsMark ==
    ASSUME NEW t \in Terminals, Region(t)
    PROVE  /\ Marked(t, ScrollUp(t)) /\ Marked(t, ScrollDown(t))
           /\ InRegion(t) => t.y \in ScrollUp(t).dirty /\ t.y \in ScrollDown(t).dirty
<1>1. t.y \in Rows
  BY DEF Terminals
<1> QED
  BY <1>1, RegionRows, ShiftUpMarks, ShiftDownMarks DEF ScrollUp, ScrollDown, InRegion

LEMMA MarkedReflexive ==
    ASSUME NEW t \in Terminals, Region(t)
    PROVE  Marked(t, t)
BY DEF Marked, Touches, Kept

LEMMA MarkedTransitive ==
    ASSUME NEW t, NEW u, NEW v, NEW rows, Touches(t, u, rows), Marked(u, v),
           rows \cap Rows \subseteq v.dirty
    PROVE  Marked(t, v)
BY DEF Marked, Touches, Kept

LEMMA RowsMovedMark ==
    ASSUME NEW t \in Terminals, Region(t), NEW final \in {"S", "T", "L", "M"}
    PROVE  Marked(t, MoveRows(t, final))
<1>1. t.y \in Rows
  BY DEF Terminals
<1>2. Marked(t, InsertLine(t))
  BY <1>1, RegionRows, ShiftDownMarks, MarkedReflexive DEF InsertLine, InRegion
<1>3. Marked(t, DeleteLine(t))
  BY <1>1, RegionRows, ShiftUpMarks, MarkedReflexive DEF DeleteLine, InRegion
<1> QED
  BY <1>2, <1>3, ScrollsMark DEF MoveRows

LEMMA LineFeedMarks ==
    ASSUME NEW t \in Terminals, Region(t)
    PROVE  Marked(t, LineFeed(t)) /\ t.y \in LineFeed(t).dirty
<1>1. t.y \in Rows /\ t.y \in Int /\ t.x \in Int
  BY DEF Terminals, Rows, Cols
<1>2. CASE t.y = t.bottom
  <2> DEFINE m == Mark(t, {t.y})
  <2>1. Marked(t, m) /\ t.y \in m.dirty
    BY <1>1, MarkMarks
  <2> HIDE DEF m
  <2>2. Marked(m, ScrollUp(m))
    BY <2>1, ScrollsMark DEF Marked, Touches, Kept
  <2>3. LineFeed(t) = ScrollUp(m)
    BY <1>2 DEF LineFeed, m
  <2> QED
    BY <2>1, <2>2, <2>3, MarkedTransitive DEF Marked, Touches
<1>3. CASE t.y # t.bottom
  <2>1. t.y + 1 \in Int
    BY <1>1
  <2>2. /\ Marked(t, MoveCursor(t, t.y + 1, t.x))
        /\ t.y \in MoveCursor(t, t.y + 1, t.x).dirty
    BY <1>1, <2>1, MoveCursorMarks
  <2>3. LineFeed(t) = MoveCursor(t, t.y + 1, t.x)
    BY <1>3 DEF LineFeed
  <2> QED BY <2>2, <2>3
<1> QED BY <1>2, <1>3

\* A change of the cursor's column touches its row only.
LEMMA ColumnTouches ==
    ASSUME NEW t \in Terminals, Region(t), NEW col \in Cols
    PROVE  LET u == [t EXCEPT !.x = col] IN Touches(t, u, {t.y}) /\ u.y = t.y /\ u.x = col
BY DEF Touches, Kept, Terminals, Region, RowView

LEMMA NewLineMarks ==
    ASSUME NEW t \in Terminals, Region(t)
    PROVE  Marked(t, NewLine(t)) /\ t.y \in NewLine(t).dirty
<1> DEFINE u == [t EXCEPT !.x = 0]
<1>1. Touches(t, u, {t.y}) /\ u.y = t.y
  BY ColumnTouches, Sizes
<1>2. NewLine(t) = LineFeed(u)
  BY DEF NewLine
<1> HIDE DEF u
<1>3. Marked(u, LineFeed(u)) /\ t.y \in LineFeed(u).dirty
  BY <1>1, LineFeedMarks DEF Touches, Kept
<1> QED
  BY <1>1, <1>2, <1>3, MarkedTransitive

LEMMA ReverseIndexMarks ==
    ASSUME NEW t \in Terminals, Region(t)
    PROVE  Marked(t, ReverseIndex(t))
<1>1. t.y \in Int /\ t.x \in Int
  BY DEF Terminals, Rows, Cols
<1> QED
  BY <1>1, ScrollsMark, MoveCursorMarks DEF ReverseIndex

LEMMA SetRegionMarks ==
    ASSUME NEW t \in Terminals, Region(t), NEW top \in Int, NEW bottom \in Int
    PROVE  Marked(t, SetRegion(t, top, bottom))
<1>1. CASE top >= 0 /\ bottom < NumRows /\ top < bottom
  <2> DEFINE u == [t EXCEPT !.top = top, !.bottom = bottom]
  <2>1. top \in Rows /\ bottom \in Rows
    BY <1>1, Sizes DEF Rows
  <2>2. Marked(t, u)
    BY <1>1, <2>1 DEF Marked, Touches, Kept, Terminals, Region, RowView
  <2>3. SetRegion(t, top, bottom) = MoveCursor(u, 0, 0)
    BY <1>1 DEF SetRegion
  <2> HIDE DEF u
  <2>4. Marked(u, MoveCursor(u, 0, 0))
    BY <2>2, MoveCursorMarks DEF Marked, Touches, Kept
  <2> QED
    BY <2>2, <2>3, <2>4, MarkedTransitive DEF Marked
<1>2. CASE ~(top >= 0 /\ bottom < NumRows /\ top < bottom)
  BY <1>2, MarkedReflexive DEF SetRegion
<1> QED BY <1>1, <1>2

-----------------------------------------------------------------------------
(* Cells of a row.                                                         *)

\* u differs from t in the cursor's row only.
Redraws(t, u) == Touches(t, u, {t.y}) /\ u.x = t.x /\ u.y = t.y

LEMMA RowDrawn ==
    ASSUME NEW t \in Terminals, Region(t), NEW row \in Rows, NEW line \in [Cols -> Glyphs]
    PROVE  LET u == [t EXCEPT !.cells[row] = line]
           IN  /\ Touches(t, u, {row}) /\ u.x = t.x /\ u.y = t.y /\ u.dirty = t.dirty
               /\ u.top = t.top /\ u.bottom = t.bottom
<1> DEFINE grid == [t.cells EXCEPT ![row] = line]
           u == [t EXCEPT !.cells[row] = line]
<1>1. t.cells \in Grids
  BY DEF Terminals
<1>2. grid \in Grids /\ \A r \in Rows \ {row} : grid[r] = t.cells[r]
  BY <1>1 DEF Grids
<1>3. u = [t EXCEPT !.cells = grid]
  BY DEF Terminals
<1> HIDE DEF grid
<1>4. /\ u \in Terminals /\ u.cells = grid /\ u.x = t.x /\ u.y = t.y /\ u.dirty = t.dirty
      /\ u.top = t.top /\ u.bottom = t.bottom
      /\ u.state = t.state /\ u.csi = t.csi /\ u.pending = t.pending
  BY <1>2, <1>3 DEF Terminals
<1> HIDE DEF u
<1>5. Touches(t, u, {row})
  BY <1>2, <1>4 DEF Touches, Kept, Region, RowView
<1> QED BY <1>4, <1>5 DEF u

LEMMA RowDrawnMarks ==
    ASSUME NEW t \in Terminals, Region(t), NEW row \in Rows, NEW line \in [Cols -> Glyphs]
    PROVE  LET u == Mark([t EXCEPT !.cells[row] = line], {row})
           IN  Marked(t, u) /\ u.x = t.x /\ u.y = t.y
<1> DEFINE d == [t EXCEPT !.cells[row] = line]
           u == Mark(d, {row})
<1>1. Touches(t, d, {row}) /\ d.x = t.x /\ d.y = t.y
  BY RowDrawn
<1> HIDE DEF d
<1>2. Marked(d, u) /\ u.x = t.x /\ u.y = t.y /\ row \in u.dirty
  BY <1>1, MarkMarks DEF Touches, Kept
<1> QED
  BY <1>1, <1>2, MarkedTransitive DEF d

LEMMA RedrawsTransitive ==
    ASSUME NEW t, NEW u, NEW v, Redraws(t, u), Redraws(u, v)
    PROVE  Redraws(t, v)
BY DEF Redraws, Touches, Kept

LEMMA CellTyped ==
    ASSUME NEW t \in Terminals, NEW row \in Rows
    PROVE  t.cells[row] \in [Cols -> Glyphs]
BY DEF Terminals, Grids

LEMMA PutCellRedraws ==
    ASSUME NEW t \in Terminals, Region(t), NEW col \in Cols, NEW r \in Glyphs
    PROVE  Redraws(t, PutCell(t, t.y, col, r))
<1> DEFINE line == [t.cells[t.y] EXCEPT ![col] = r]
<1>1. t.y \in Rows
  BY DEF Terminals
<1>2. line \in [Cols -> Glyphs]
  BY <1>1, CellTyped
<1>3. PutCell(t, t.y, col, r) = [t EXCEPT !.cells[t.y] = line]
  BY DEF PutCell
<1> HIDE DEF line
<1> QED
  BY <1>1, <1>2, <1>3, RowDrawn DEF Redraws

LEMMA ClearWideCellRedraws ==
    ASSUME NEW t \in Terminals, Region(t), NEW col
    PROVE  Redraws(t, ClearWideCell(t, t.y, col))
<1>1. t.y \in Rows
  BY DEF Terminals
<1>2. CASE col \notin Cols
  BY <1>2, MarkedReflexive DEF ClearWideCell, Redraws, Marked, Touches
<1>3. CASE col \in Cols
  <2> DEFINE r    == t.cells[t.y][col]
             left == IF r = Cont /\ col > 0 THEN {col - 1} ELSE {}
             next == IF IsWide(r) /\ col + 1 \in Cols THEN {col + 1} ELSE {}
             gone == {col} \cup left \cup next
             line == [c \in Cols |-> IF c \in gone THEN Blank ELSE t.cells[t.y][c]]
  <2> HIDE DEF gone
  <2>1. line \in [Cols -> Glyphs]
    BY <1>1, CellTyped, BlankTyped
  <2>2. ClearWideCell(t, t.y, col) = [t EXCEPT !.cells[t.y] = line]
    BY <1>1, <1>3 DEF ClearWideCell, gone
  <2> HIDE DEF line
  <2> QED
    BY <1>1, <2>1, <2>2, RowDrawn DEF Redraws
<1> QED BY <1>2, <1>3

LEMMA PutNarrowRedraws ==
    ASSUME NEW t \in Terminals, Region(t), NEW r \in Glyphs
    PROVE  Redraws(t, PutNarrow(t, r))
<1> DEFINE c == ClearWideCell(t, t.y, t.x)
<1>1. Redraws(t, c)
  BY ClearWideCellRedraws
<1>2. PutNarrow(t, r) = PutCell(c, c.y, c.x, r)
  BY <1>1 DEF PutNarrow, Redraws
<1> HIDE DEF c
<1>3. c \in Terminals /\ Region(c) /\ c.x \in Cols
  BY <1>1 DEF Redraws, Touches, Kept, Terminals
<1>4. Redraws(c, PutCell(c, c.y, c.x, r))
  BY <1>3, PutCellRedraws
<1> QED
  BY <1>1, <1>2, <1>4, RedrawsTransitive

LEMMA PutWideRedraws ==
    ASSUME NEW t \in Terminals, Region(t)
    PROVE  Redraws(t, PutWide(t))
<1> DEFINE c == ClearWideCell(t, t.y, t.x)
           d == ClearWideCell(c, c.y, t.x + 1)
           h == PutCell(d, d.y, d.x, Wide)
           v == IF t.x + 1 \in Cols THEN PutCell(h, h.y, t.x + 1, Cont) ELSE h
<1>1. Redraws(t, c)
  BY ClearWideCellRedraws
<1> HIDE DEF c
<1>2. c \in Terminals /\ Region(c)
  BY <1>1 DEF Redraws, Touches, Kept
<1>3. Redraws(c, d)
  BY <1>2, ClearWideCellRedraws
<1> HIDE DEF d
<1>4. d \in Terminals /\ Region(d) /\ d.x \in Cols
  BY <1>3 DEF Redraws, Touches, Kept, Terminals
<1>5. Redraws(d, h)
  BY <1>4, PutCellRedraws, BlankTyped
<1> HIDE DEF h
<1>6. h \in Terminals /\ Region(h)
  BY <1>5 DEF Redraws, Touches, Kept
<1>7. Redraws(t, h)
  BY <1>1, <1>3, <1>5, RedrawsTransitive
<1>8. Redraws(t, v)
  <2>1. CASE t.x + 1 \in Cols
    <3>1. Redraws(h, PutCell(h, h.y, t.x + 1, Cont))
      BY <1>6, <2>1, PutCellRedraws, BlankTyped
    <3> QED BY <1>7, <2>1, <3>1, RedrawsTransitive
  <2>2. CASE t.x + 1 \notin Cols
    BY <1>7, <2>2
  <2> QED BY <2>1, <2>2
<1>9. PutWide(t) = v
  BY <1>1, <1>3, <1>5 DEF PutWide, Redraws, c, d, h
<1> QED BY <1>8, <1>9

LEMMA PutRuneMarks ==
    ASSUME NEW t \in Terminals, Region(t), NEW r \in Glyphs
    PROVE  Marked(t, PutRune(t, r))
<1> DEFINE width == IF IsWide(r) THEN 2 ELSE 1
           room  == IF IsWide(r) /\ t.x = NumCols - 1 THEN NewLine(t) ELSE t
           put   == IF IsWide(r) THEN PutWide(room) ELSE PutNarrow(room, r)
           drawn == Mark(put, {room.y})
           next  == room.x + width
           moved == [drawn EXCEPT !.x = next]
<1>1. PutRune(t, r) = IF LineFull(next) THEN NewLine(drawn) ELSE moved
  BY DEF PutRune
<1>2. Marked(t, room)
  BY NewLineMarks, MarkedReflexive
<1> HIDE DEF room
<1>3. room \in Terminals /\ Region(room) /\ room.y \in Rows /\ room.x \in Cols
  BY <1>2 DEF Marked, Touches, Kept, Terminals
<1>4. Redraws(room, put)
  BY <1>3, PutWideRedraws, PutNarrowRedraws
<1> HIDE DEF put
<1>5. /\ Marked(put, drawn) /\ drawn.x = room.x /\ drawn.y = room.y
      /\ room.y \in drawn.dirty
  BY <1>3, <1>4, MarkMarks DEF Redraws, Touches, Kept
<1>6. Marked(room, drawn)
  <2>1. Touches(room, put, {room.y}) /\ {room.y} \cap Rows \subseteq drawn.dirty
    BY <1>4, <1>5 DEF Redraws
  <2> HIDE DEF drawn
  <2> QED BY <1>5, <2>1, MarkedTransitive
<1> HIDE DEF drawn
<1>7. Marked(t, drawn)
  BY <1>2, <1>6 DEF Marked, Touches, Kept
<1>8. drawn \in Terminals /\ Region(drawn)
  BY <1>5 DEF Marked, Touches, Kept
<1>9. CASE LineFull(next)
  <2>1. Marked(drawn, NewLine(drawn))
    BY <1>8, NewLineMarks
  <2> QED
    BY <1>1, <1>7, <1>9, <2>1 DEF Marked, Touches, Kept
<1>10. CASE ~LineFull(next)
  <2>1. next \in Cols
    BY <1>3, <1>10, Sizes DEF LineFull, Cols
  <2> HIDE DEF next
  <2>2. Touches(drawn, moved, {drawn.y})
    BY <1>8, <2>1, ColumnTouches
  <2>3. moved.dirty = drawn.dirty
    BY <1>8 DEF Terminals
  <2>4. Marked(drawn, moved)
    BY <1>5, <2>2, <2>3 DEF Marked, Touches, Kept
  <2> HIDE DEF moved
  <2> QED
    BY <1>1, <1>7, <1>10, <2>4 DEF Marked, Touches, Kept
<1> QED BY <1>9, <1>10

LEMMA EraseCellsMarks ==
    ASSUME NEW t \in Terminals, Region(t), NEW cols
    PROVE  LET u == EraseCells(t, t.y, cols) IN Marked(t, u) /\ u.x = t.x /\ u.y = t.y
<1> DEFINE line == [c \in Cols |-> IF c \in cols THEN Blank ELSE t.cells[t.y][c]]
<1>1. t.y \in Rows
  BY DEF Terminals
<1>2. line \in [Cols -> Glyphs]
  BY <1>1, CellTyped, BlankTyped
<1>3. EraseCells(t, t.y, cols) = Mark([t EXCEPT !.cells[t.y] = line], {t.y})
  BY DEF EraseCells
<1> HIDE DEF line
<1> QED
  BY <1>1, <1>2, <1>3, RowDrawnMarks

LEMMA EraseLineMarks ==
    ASSUME NEW t \in Terminals, Region(t), NEW mode
    PROVE  Marked(t, EraseLine(t, mode))
BY EraseCellsMarks DEF EraseLine

LEMMA EraseRowsMarks ==
    ASSUME NEW t \in Terminals, Region(t), NEW rows
    PROVE  LET u == EraseRows(t, rows) IN Marked(t, u)
<1> DEFINE grid == [r \in Rows |-> IF r \in rows THEN BlankRow ELSE t.cells[r]]
<1>1. grid \in Grids
  BY CellTyped, BlankTyped DEF Grids
<1>2. \A r \in Rows \ rows : grid[r] = t.cells[r]
  OBVIOUS
<1>3. EraseRows(t, rows) = Mark([t EXCEPT !.cells = grid], rows)
  BY DEF EraseRows
<1> HIDE DEF grid
<1> QED
  BY <1>1, <1>2, <1>3, DrawnMarks

LEMMA EraseDisplayMarks ==
    ASSUME NEW t \in Terminals, Region(t), NEW mode
    PROVE  Marked(t, EraseDisplay(t, mode))
<1>1. ASSUME NEW rows, NEW m PROVE Marked(t, EraseLine(EraseRows(t, rows), m))
  <2> DEFINE u == EraseRows(t, rows)
  <2>1. Marked(t, u)
    BY EraseRowsMarks
  <2> HIDE DEF u
  <2>2. Marked(u, EraseLine(u, m))
    BY <2>1, EraseLineMarks DEF Marked, Touches, Kept
  <2> QED
    BY <2>1, <2>2 DEF u, Marked, Touches, Kept
<1> QED
  BY <1>1, EraseRowsMarks, MarkedReflexive DEF EraseDisplay

LEMMA FittingTyped ==
    ASSUME NEW t \in Terminals, NEW count \in Int
    PROVE  Fitting(t, count) \in 1..(NumCols - t.x)
<1>1. t.x \in Int /\ NumCols - t.x \in Nat /\ NumCols - t.x >= 1
  BY Sizes DEF Terminals, Cols
<1>2. Max({count, 1}) \in Int /\ Max({count, 1}) >= 1
  BY MaxOfTwo
<1> QED
  BY <1>1, <1>2, MinOfTwo DEF Fitting

LEMMA InsertCharsMarks ==
    ASSUME NEW t \in Terminals, Region(t), NEW count \in Int
    PROVE  Marked(t, InsertChars(t, count))
<1> DEFINE n == Fitting(t, count)
           line == [c \in Cols |-> IF c < t.x THEN t.cells[t.y][c]
                                   ELSE IF c < t.x + n THEN Blank ELSE t.cells[t.y][c - n]]
<1>1. t.y \in Rows /\ t.x \in Cols
  BY DEF Terminals
<1>2. n \in Int /\ n >= 1
  BY <1>1, FittingTyped, Sizes DEF Cols
<1>3. InsertChars(t, count) = Mark([t EXCEPT !.cells[t.y] = line], {t.y})
  BY DEF InsertChars
<1> HIDE DEF n
<1>4. line \in [Cols -> Glyphs]
  <2>1. ASSUME NEW c \in Cols, ~(c < t.x), ~(c < t.x + n) PROVE c - n \in Cols
    BY <1>1, <1>2, <2>1, Sizes DEF Cols
  <2> QED BY <1>1, <2>1, CellTyped, BlankTyped
<1> HIDE DEF line
<1> QED
  BY <1>1, <1>3, <1>4, RowDrawnMarks

LEMMA DeleteCharsMarks ==
    ASSUME NEW t \in Terminals, Region(t), NEW count
    PROVE  Marked(t, DeleteChars(t, count))
<1> DEFINE n == Fitting(t, count)
           line == [c \in Cols |-> IF c < t.x THEN t.cells[t.y][c]
                                   ELSE IF c + n \in Cols THEN t.cells[t.y][c + n] ELSE Blank]
<1>1. t.y \in Rows
  BY DEF Terminals
<1>2. DeleteChars(t, count) = Mark([t EXCEPT !.cells[t.y] = line], {t.y})
  BY DEF DeleteChars
<1> HIDE DEF n
<1>3. line \in [Cols -> Glyphs]
  BY <1>1, CellTyped, BlankTyped
<1> HIDE DEF line
<1> QED
  BY <1>1, <1>2, <1>3, RowDrawnMarks

LEMMA EraseCharsMarks ==
    ASSUME NEW t \in Terminals, Region(t), NEW count
    PROVE  Marked(t, EraseChars(t, count))
BY EraseCellsMarks DEF EraseChars

LEMMA NewTerminalTyped == NewTerminal \in Terminals /\ Region(NewTerminal)
<1>1. [r \in Rows |-> BlankRow] \in Grids
  BY BlankTyped DEF Grids
<1>2. <<>> \in Seq(Bytes)
  OBVIOUS
<1>3. "ground" \in States
  BY DEF States
<1> QED
  BY <1>1, <1>2, <1>3, Sizes DEF NewTerminal, Terminals, Region

LEMMA ResetAllMarks ==
    ASSUME NEW t \in Terminals, Region(t)
    PROVE  Marked(t, ResetAll(t))
<1>1. /\ NewTerminal \in Terminals /\ Region(NewTerminal)
      /\ t.state \in States /\ t.csi \in Seq(Bytes) /\ t.pending \in Seq(Bytes)
      /\ t.dirty \subseteq Rows
  BY NewTerminalTyped DEF Terminals
<1>2. /\ ResetAll(t) \in Terminals /\ Region(ResetAll(t))
      /\ ResetAll(t).state = t.state /\ ResetAll(t).csi = t.csi
      /\ ResetAll(t).pending = t.pending /\ ResetAll(t).dirty = Rows
  BY <1>1 DEF ResetAll, Terminals, Region
<1> QED
  BY <1>1, <1>2 DEF Marked, Touches, Kept

-----------------------------------------------------------------------------
(* Recursion over the indices of a sequence.                               *)

LEMMA Least ==
    ASSUME NEW S, S \subseteq Nat, S # {}
    PROVE  \E n \in S : \A m \in S : n <= m
<1> DEFINE less == OpToRel(<, Nat)
<1>1. IsWellFoundedOn(less, Nat)
  BY NatLessThanWellFounded
<1>2. \A m, n \in Nat : m < n => <<m, n>> \in less
  BY DEF OpToRel
<1> HIDE DEF less
<1>3. PICK n \in S : \A m \in S : ~(<<m, n>> \in less)
  BY <1>1, WFMin
<1>4. \A m \in S : ~(m < n)
  BY <1>2, <1>3
<1> QED BY <1>3, <1>4

\* Induction, for a set of indices.
LEMMA UpTo ==
    ASSUME NEW n \in Nat, NEW S, 0 \in S, \A i \in 1..n : i - 1 \in S => i \in S
    PROVE  0..n \subseteq S
<1> SUFFICES ASSUME (0..n) \ S # {} PROVE FALSE
  OBVIOUS
<1>1. (0..n) \ S \subseteq Nat
  OBVIOUS
<1>2. PICK k \in (0..n) \ S : \A m \in (0..n) \ S : k <= m
  BY <1>1, Least
<1>3. k \in 1..n /\ k - 1 \in 0..n /\ k - 1 \in S
  BY <1>2
<1> QED BY <1>2, <1>3

\* One step of each recursion of the model: the rows that are moved again and
\* again, the digits of a number, the bytes of a write, and its bytes one by one.
Step(kind, data, before, i) ==
    CASE kind = "rows"   -> MoveRows(before, data)
      [] kind = "digits" -> Min({MaxInt + 1, 10 * before + Digit(data[i])})
      [] kind = "write"  -> Round(before, SubSeq(data, i, Len(data)))
      [] kind = "bytes"  -> Write(before, <<data[i]>>)

Steps(kind, data, base, n, f) ==
    f = [i \in 0..n |-> IF i = 0 THEN base ELSE Step(kind, data, f[i - 1], i)]

LEMMA StepsExist ==
    ASSUME NEW kind, NEW data, NEW base, NEW n \in Nat
    PROVE  \E f : Steps(kind, data, base, n, f)
<1> DEFINE S == {m \in Nat : \E f : Steps(kind, data, base, m, f)}
<1>1. 0 \in S
  <2> DEFINE f == [i \in 0..0 |-> base]
  <2>1. f = [i \in 0..0 |-> IF i = 0 THEN base ELSE Step(kind, data, f[i - 1], i)]
    OBVIOUS
  <2> QED BY <2>1 DEF Steps
<1>2. ASSUME NEW m \in Nat, m \in S PROVE m + 1 \in S
  <2>1. PICK f : Steps(kind, data, base, m, f)
    BY <1>2
  <2> DEFINE g == [i \in 0..(m + 1) |->
                      IF i = m + 1 THEN Step(kind, data, f[m], m + 1) ELSE f[i]]
             h == [i \in 0..(m + 1) |->
                      IF i = 0 THEN base ELSE Step(kind, data, g[i - 1], i)]
  <2>2. ASSUME NEW i \in 0..(m + 1) PROVE g[i] = h[i]
    <3>1. CASE i = m + 1
      BY <3>1
    <3>2. CASE i = 0
      BY <2>1, <3>2 DEF Steps
    <3>3. CASE i \in 1..m
      <4>1. i \in 0..m /\ i - 1 \in 0..m /\ i - 1 \in 0..(m + 1) /\ i # m + 1 /\ i - 1 # m + 1
        BY <3>3
      <4>2. f[i] = Step(kind, data, f[i - 1], i)
        BY <2>1, <3>3, <4>1 DEF Steps
      <4> QED BY <3>3, <4>1, <4>2
    <3> QED BY <3>1, <3>2, <3>3
  <2>3. g = h
    BY <2>2
  <2>4. Steps(kind, data, base, m + 1, g)
    BY <2>3 DEF Steps
  <2> HIDE DEF g
  <2> QED BY <2>4
<1>3. \A i \in 1..n : i - 1 \in S => i \in S
  <2> SUFFICES ASSUME NEW i \in 1..n, i - 1 \in S PROVE i \in S
    OBVIOUS
  <2>1. i - 1 \in Nat /\ (i - 1) + 1 = i
    OBVIOUS
  <2> HIDE DEF S
  <2> QED BY <1>2, <2>1
<1>4. 0..n \subseteq S
  <2> HIDE DEF S
  <2> QED BY <1>1, <1>3, UpTo
<1> QED BY <1>4

-----------------------------------------------------------------------------
(* Numbers and parameters.                                                 *)

LEMMA DigitTyped ==
    ASSUME NEW d \in Digits
    PROVE  Digit(d) \in 0..9
<1>1. PICK i \in DOMAIN DigitSeq : DigitSeq[i] = d
  BY DEF Digits, ToSet
<1>2. DOMAIN DigitSeq = 1..10
  BY DEF DigitSeq
<1>3. i - 1 \in 0..9 /\ DigitSeq[(i - 1) + 1] = d
  BY <1>1, <1>2
<1> HIDE DEF DigitSeq
<1>4. \E v \in 0..9 : DigitSeq[v + 1] = d
  BY <1>3
<1> QED BY <1>4 DEF Digit

LEMMA MagnitudeTyped ==
    ASSUME NEW T, NEW part \in Seq(T)
    PROVE  Magnitude(part) \in 0..(MaxInt + 1)
<1> DEFINE n == Len(part)
           value[i \in 0..n] ==
             IF i = 0 THEN 0 ELSE Min({MaxInt + 1, 10 * value[i - 1] + Digit(part[i])})
<1>1. n \in Nat /\ DOMAIN part = 1..n /\ MaxInt \in Nat
  BY Sizes
<1>2. CASE ~(ToSet(part) \subseteq Digits)
  BY <1>1, <1>2 DEF Magnitude
<1>3. CASE ToSet(part) \subseteq Digits
  <2>1. PICK f : Steps("digits", part, 0, n, f)
    BY <1>1, StepsExist
  <2>2. f = [i \in 0..n |->
               IF i = 0 THEN 0 ELSE Min({MaxInt + 1, 10 * f[i - 1] + Digit(part[i])})]
    BY <2>1 DEF Steps, Step
  <2>3. value = [i \in 0..n |->
               IF i = 0 THEN 0 ELSE Min({MaxInt + 1, 10 * value[i - 1] + Digit(part[i])})]
    BY <2>2
  <2>4. Magnitude(part) = value[n]
    BY <1>3 DEF Magnitude
  <2> HIDE DEF value
  <2> DEFINE S == {i \in 0..n : value[i] \in 0..(MaxInt + 1)}
  <2>5. 0 \in S
    BY <1>1, <2>3
  <2>6. ASSUME NEW i \in 1..n, i - 1 \in S PROVE i \in S
    <3>1. part[i] \in Digits
      BY <1>1, <1>3 DEF ToSet
    <3>2. Digit(part[i]) \in 0..9 /\ value[i - 1] \in 0..(MaxInt + 1)
      BY <2>6, <3>1, DigitTyped
    <3>3. i \in 0..n /\ i # 0
      BY <1>1
    <3>4. value[i] = Min({MaxInt + 1, 10 * value[i - 1] + Digit(part[i])})
      BY <2>3, <3>3
    <3>5. 10 * value[i - 1] + Digit(part[i]) \in Nat /\ MaxInt + 1 \in Nat
      <4>1. \A a \in 0..(MaxInt + 1), d \in 0..9 : 10 * a + d \in Nat
        BY <1>1
      <4>2. 10 * value[i - 1] + Digit(part[i]) \in Nat
        BY <3>2, <4>1
      <4>3. MaxInt + 1 \in Nat
        BY <1>1
      <4> QED BY <4>2, <4>3
    <3>6. value[i] \in 0..(MaxInt + 1)
      BY <3>4, <3>5, MinOfTwo
    <3> QED BY <3>3, <3>6
  <2>7. n \in S
    <3> HIDE DEF S
    <3>1. 0..n \subseteq S
      BY <1>1, <2>5, <2>6, UpTo
    <3> QED BY <1>1, <3>1
  <2> QED BY <2>4, <2>7
<1> QED BY <1>2, <1>3

LEMMA NumberTyped ==
    ASSUME NEW T, NEW part \in Seq(T)
    PROVE  Number(part) \in -(MaxInt + 1)..MaxInt
<1> DEFINE digits == IF part # <<>> /\ Head(part) \in Signs THEN Tail(part) ELSE part
<1>1. digits \in Seq(T)
  OBVIOUS
<1> HIDE DEF digits
<1>2. Magnitude(digits) \in 0..(MaxInt + 1) /\ MaxInt \in Nat
  BY <1>1, MagnitudeTyped, Sizes
<1>3. Number(part) = IF part # <<>> /\ Head(part) = "-" THEN -Magnitude(digits)
                     ELSE Min({MaxInt, Magnitude(digits)})
  BY DEF Number, digits
<1> QED
  BY <1>2, <1>3, MinOfTwo

LEMMA Greatest ==
    ASSUME NEW n \in Nat, NEW S, S \subseteq 0..n, S # {}
    PROVE  Max(S) \in S /\ Min(S) \in S
<1> DEFINE T == {n - i : i \in S}
<1>1. T \subseteq Nat /\ T # {} /\ S \subseteq Nat
  <2>1. \A i \in S : i \in Int /\ n - i \in Nat
    OBVIOUS
  <2>2. T \subseteq Nat
    BY <2>1
  <2>3. T # {}
    OBVIOUS
  <2>4. S \subseteq Nat
    OBVIOUS
  <2> QED BY <2>2, <2>3, <2>4
<1>2. PICK k \in T : \A m \in T : k <= m
  <2> HIDE DEF T
  <2> QED BY <1>1, Least
<1>3. n - k \in S /\ \A m \in S : n - k >= m
  BY <1>2
<1>4. \E k2 \in S : \A m \in S : k2 >= m
  BY <1>3
<1>5. \E k2 \in S : \A m \in S : k2 <= m
  BY <1>1, Least
<1> QED BY <1>4, <1>5 DEF Max, Min

LEMMA ParamTyped ==
    ASSUME NEW csi \in Seq(Bytes), NEW index, NEW default \in 0..MaxInt
    PROVE  Param(csi, index, default) \in -(MaxInt + 1)..MaxInt
<1> DEFINE marks == {i \in DOMAIN csi : csi[i] = ";"}
           part  == {i \in DOMAIN csi \ marks : Cardinality({j \in marks : j < i}) = index - 1}
           value == IF part = {} THEN 0 ELSE Number(SubSeq(csi, Min(part), Max(part)))
<1>1. MaxInt \in Nat
  BY Sizes
<1>2. value \in -(MaxInt + 1)..MaxInt
  <2>1. part \subseteq 1..Len(csi) /\ part \subseteq 0..Len(csi) /\ Len(csi) \in Nat
    <3>1. part \subseteq DOMAIN csi
      OBVIOUS
    <3>2. DOMAIN csi = 1..Len(csi) /\ Len(csi) \in Nat
      OBVIOUS
    <3> HIDE DEF part
    <3> QED BY <3>1, <3>2
  <2> HIDE DEF part
  <2>2. CASE part = {}
    BY <1>1, <2>2
  <2>3. CASE part # {}
    <3>1. Min(part) \in 1..Len(csi) /\ Max(part) \in 1..Len(csi)
      BY <2>1, <2>3, Greatest
    <3>2. SubSeq(csi, Min(part), Max(part)) \in Seq(Bytes)
      BY <3>1
    <3> QED BY <2>3, <3>2, NumberTyped
  <2> QED BY <2>2, <2>3
<1>3. Param(csi, index, default) = IF value = 0 THEN default ELSE value
  BY DEF Param
<1> HIDE DEF value
<1> QED BY <1>1, <1>2, <1>3

LEMMA TrimmedTyped ==
    ASSUME NEW csi \in Seq(Bytes)
    PROVE  Trimmed(csi) \in Seq(Bytes)
<1> DEFINE keep == {i \in DOMAIN csi : csi[i] \notin Private}
<1>1. keep \subseteq 1..Len(csi) /\ keep \subseteq 0..Len(csi) /\ Len(csi) \in Nat
  OBVIOUS
<1>2. Trimmed(csi) = IF keep = {} THEN <<>> ELSE SubSeq(csi, Min(keep), Len(csi))
  BY DEF Trimmed
<1> HIDE DEF keep
<1>3. CASE keep # {}
  <2>1. Min(keep) \in 1..Len(csi)
    BY <1>1, <1>3, Greatest
  <2>2. SubSeq(csi, Min(keep), Len(csi)) \in Seq(Bytes)
    BY <1>1, <2>1
  <2> QED BY <1>2, <1>3, <2>2
<1> QED BY <1>2, <1>3

LEMMA WrapTyped ==
    ASSUME NEW v \in Int
    PROVE  Wrap(v) \in Int
BY Sizes DEF Wrap

LEMMA RepeatedMarks ==
    ASSUME NEW t \in Terminals, Region(t), NEW final \in {"S", "T", "L", "M"}, NEW n \in Int
    PROVE  Marked(t, Repeated(t, final, n))
<1> DEFINE times == Max({0, n})
           after[i \in 0..times] == IF i = 0 THEN t ELSE MoveRows(after[i - 1], final)
<1>1. times \in Nat
  BY MaxOfTwo
<1>2. Repeated(t, final, n) = after[times]
  BY DEF Repeated
<1> HIDE DEF times
<1>3. PICK f : Steps("rows", final, t, times, f)
  BY <1>1, StepsExist
<1>4. f = [i \in 0..times |-> IF i = 0 THEN t ELSE MoveRows(f[i - 1], final)]
  BY <1>3 DEF Steps, Step
<1>5. after = [i \in 0..times |-> IF i = 0 THEN t ELSE MoveRows(after[i - 1], final)]
  BY <1>4
<1> HIDE DEF after
<1> DEFINE S == {i \in 0..times : Marked(t, after[i])}
<1>6. 0 \in S
  BY <1>1, <1>5, MarkedReflexive
<1>7. ASSUME NEW i \in 1..times, i - 1 \in S PROVE i \in S
  <2>1. i \in 0..times /\ i # 0 /\ Marked(t, after[i - 1])
    BY <1>1, <1>7
  <2>2. after[i] = MoveRows(after[i - 1], final)
    BY <1>5, <2>1
  <2>3. Marked(after[i - 1], after[i])
    BY <2>1, <2>2, RowsMovedMark DEF Marked, Touches, Kept
  <2>4. Marked(t, after[i])
    BY <2>1, <2>3 DEF Marked, Touches, Kept
  <2> QED BY <2>1, <2>4
<1>8. times \in S
  <2> HIDE DEF S
  <2>1. 0..times \subseteq S
    BY <1>1, <1>6, <1>7, UpTo
  <2> QED BY <1>1, <2>1
<1> QED BY <1>2, <1>8

-----------------------------------------------------------------------------
(* Sequences, control bytes and runes.                                     *)

LEMMA SavedMarks ==
    ASSUME NEW t \in Terminals, Region(t)
    PROVE  Marked(t, [t EXCEPT !.savedX = t.x, !.savedY = t.y])
BY DEF Marked, Touches, Kept, Terminals, Region, RowView

LEMMA ExecuteCSIMarks ==
    ASSUME NEW t \in Terminals, Region(t), NEW final
    PROVE  Marked(t, ExecuteCSI(t, final))
<1> DEFINE csi == Trimmed(t.csi)
           n   == Param(csi, 1, 1)
           m   == Param(csi, 2, 1)
           b   == Param(csi, 2, NumRows)
           z   == Param(csi, 1, 0)
<1>1. csi \in Seq(Bytes)
  BY TrimmedTyped DEF Terminals
<1>2. n \in Int /\ m \in Int /\ b \in Int /\ z \in Int
  <2> HIDE DEF csi
  <2>1. /\ 1 \in 0..MaxInt /\ NumRows \in 0..MaxInt /\ 0 \in 0..MaxInt
        /\ -(MaxInt + 1)..MaxInt \subseteq Int
    BY Sizes
  <2> QED BY <1>1, <2>1, ParamTyped
<1>3. /\ t.x \in Int /\ t.y \in Int /\ t.savedX \in Int /\ t.savedY \in Int
  BY Sizes DEF Terminals, Rows, Cols
<1>4. \A row, col \in Int : Marked(t, MoveCursor(t, row, col))
  BY MoveCursorMarks
<1>5. ExecuteCSI(t, final) =
        CASE final = "A" -> MoveCursor(t, Wrap(t.y - n), t.x)
          [] final \in {"B", "e"} -> MoveCursor(t, Wrap(t.y + n), t.x)
          [] final \in {"C", "a"} -> MoveCursor(t, t.y, Wrap(t.x + n))
          [] final = "D" -> MoveCursor(t, t.y, Wrap(t.x - n))
          [] final = "E" -> MoveCursor(t, Wrap(t.y + n), 0)
          [] final = "F" -> MoveCursor(t, Wrap(t.y - n), 0)
          [] final \in {"G", "GRAVE"} -> MoveCursor(t, t.y, Wrap(n - 1))
          [] final = "d" -> MoveCursor(t, Wrap(n - 1), t.x)
          [] final \in {"H", "f"} -> MoveCursor(t, Wrap(n - 1), Wrap(m - 1))
          [] final = "J" -> EraseDisplay(t, z)
          [] final = "K" -> EraseLine(t, z)
          [] final = "s" -> [t EXCEPT !.savedX = t.x, !.savedY = t.y]
          [] final = "u" -> MoveCursor(t, t.savedY, t.savedX)
          [] final = "r" -> SetRegion(t, Wrap(n - 1), Wrap(b - 1))
          [] final \in {"S", "T", "L", "M"} -> Repeated(t, final, n)
          [] final = "@" -> InsertChars(t, n)
          [] final = "P" -> DeleteChars(t, n)
          [] final = "X" -> EraseChars(t, n)
          [] OTHER -> t
  BY DEF ExecuteCSI
<1> HIDE DEF n, m, b, z
<1>6. \A v \in Int : Wrap(v) \in Int
  BY WrapTyped
<1>7. /\ t.y - n \in Int /\ t.y + n \in Int /\ t.x - n \in Int /\ t.x + n \in Int
      /\ n - 1 \in Int /\ m - 1 \in Int /\ b - 1 \in Int
  BY <1>2, <1>3
<1>8. CASE final \in {"A", "B", "C", "D", "E", "F", "G", "H", "GRAVE", "a", "d", "e", "f", "u"}
  BY <1>3, <1>4, <1>5, <1>6, <1>7, <1>8
<1>9. CASE final \in {"J", "K", "s"}
  BY <1>5, <1>9, EraseDisplayMarks, EraseLineMarks, SavedMarks
<1>10. CASE final \in {"r", "S", "T", "L", "M"}
  BY <1>2, <1>5, <1>6, <1>7, <1>10, SetRegionMarks, RepeatedMarks
<1>11. CASE final \in {"@", "P", "X"}
  BY <1>2, <1>5, <1>11, InsertCharsMarks, DeleteCharsMarks, EraseCharsMarks
<1>12. CASE final \notin {"A", "B", "C", "D", "E", "F", "G", "H", "GRAVE", "a", "d", "e", "f", "u",
                          "J", "K", "s", "r", "S", "T", "L", "M", "@", "P", "X"}
  BY <1>5, <1>12, MarkedReflexive
<1> QED BY <1>8, <1>9, <1>10, <1>11, <1>12

\* What is between two bytes of a write.
Between(t) ==
    /\ t \in Terminals /\ Region(t)
    /\ t.csi # <<>> => t.state = "csi"
    /\ Len(t.csi) <= 128
    /\ t.pending = <<>>

\* A row of u that is not marked looks as in t.
Follows(t, u) ==
    /\ t.dirty \subseteq u.dirty
    /\ \A r \in Rows \ u.dirty : RowView(u, r) = RowView(t, r)

LEMMA MarkedFollows ==
    ASSUME NEW t, NEW u, Between(t), Marked(t, u)
    PROVE  Between(u) /\ Follows(t, u)
BY DEF Between, Follows, Marked, Touches, Kept

LEMMA FollowsTransitive ==
    ASSUME NEW t, NEW u, NEW v, Follows(t, u), Follows(u, v)
    PROVE  Follows(t, v)
BY DEF Follows

\* The state of the terminal may change with what was collected.
InState(t, state, csi) == [t EXCEPT !.state = state, !.csi = csi]

LEMMA StateFollows ==
    ASSUME NEW t \in Terminals, Region(t), NEW state \in States, NEW csi \in Seq(Bytes)
    PROVE  LET u == InState(t, state, csi)
           IN  u \in Terminals /\ Region(u) /\ Follows(t, u) /\ u.pending = t.pending
               /\ u.state = state /\ u.csi = csi
BY DEF InState, Terminals, Region, Follows, RowView

LEMMA StateOnlyFollows ==
    ASSUME NEW t, Between(t), t.state # "csi", NEW state \in States
    PROVE  LET u == [t EXCEPT !.state = state]
           IN  Between(u) /\ Follows(t, u) /\ u.state = state /\ u.csi = <<>>
               /\ u.x = t.x /\ u.y = t.y /\ u.savedX = t.savedX /\ u.savedY = t.savedY
BY DEF Between, Terminals, Region, Follows, RowView

LEMMA EscapeFollows ==
    ASSUME NEW t, Between(t), t.state = "escape", NEW b
    PROVE  Between(Escape(t, b)) /\ Follows(t, Escape(t, b))
<1> DEFINE g == [t EXCEPT !.state = "ground"]
<1>1. \A s \in States : LET u == [t EXCEPT !.state = s] IN Between(u) /\ Follows(t, u)
  BY StateOnlyFollows
<1>2. {"ground", "osc", "charset", "csi"} \subseteq States
  BY DEF States
<1>3. /\ Between(g) /\ Follows(t, g) /\ g.x = t.x /\ g.y = t.y
      /\ g.savedX = t.savedX /\ g.savedY = t.savedY
  BY <1>2, StateOnlyFollows
<1>4. [t EXCEPT !.state = "csi", !.csi = <<>>] = [t EXCEPT !.state = "csi"]
  BY DEF Between, Terminals
<1>5. Escape(t, b) =
        CASE b = "[" -> [t EXCEPT !.state = "csi", !.csi = <<>>]
          [] b = "]" -> [t EXCEPT !.state = "osc"]
          [] b = "(" -> [t EXCEPT !.state = "charset"]
          [] b = "7" -> [g EXCEPT !.savedX = t.x, !.savedY = t.y]
          [] b = "8" -> MoveCursor(g, t.savedY, t.savedX)
          [] b = "D" -> LineFeed(g)
          [] b = "E" -> NewLine(g)
          [] b = "M" -> ReverseIndex(g)
          [] b = "c" -> ResetAll(g)
          [] OTHER -> g
  BY DEF Escape
<1> HIDE DEF g
<1>6. \A u : Marked(g, u) => Between(u) /\ Follows(t, u)
  BY <1>3, MarkedFollows, FollowsTransitive
<1>7. g \in Terminals /\ Region(g) /\ g.savedX \in Int /\ g.savedY \in Int
  BY <1>3, Sizes DEF Between, Terminals, Rows, Cols
<1>8. CASE b \in {"[", "]", "("}
  BY <1>1, <1>2, <1>4, <1>5, <1>8
<1>9. CASE b \in {"7", "8", "D", "E", "M", "c"}
  BY <1>3, <1>5, <1>6, <1>7, <1>9, SavedMarks, MoveCursorMarks, LineFeedMarks, NewLineMarks,
     ReverseIndexMarks, ResetAllMarks
<1>10. CASE b \notin {"[", "]", "(", "7", "8", "D", "E", "M", "c"}
  BY <1>3, <1>5, <1>10
<1> QED BY <1>8, <1>9, <1>10

LEMMA ControlMarks ==
    ASSUME NEW t \in Terminals, Region(t), NEW b
    PROVE  Marked(t, Control(t, b))
<1>1. /\ t.x \in Int /\ t.y \in Int /\ t.x - 1 \in Int /\ (t.x \div 8 + 1) * 8 \in Int
  BY Sizes DEF Terminals, Rows, Cols
<1> QED
  BY <1>1, MoveCursorMarks, NewLineMarks, MarkedReflexive DEF Control

LEMMA ByteRoundFollows ==
    ASSUME NEW t, Between(t), NEW b \in Bytes
    PROVE  Between(ByteRound(t, b)) /\ Follows(t, ByteRound(t, b))
<1>1. t \in Terminals /\ Region(t) /\ t.state \in States
  BY DEF Between, Terminals
<1>2. b \in Glyphs
  BY DEF Glyphs
<1>3. /\ \A s \in States : s \in {"ground", "escape", "csi", "osc", "oscEscape", "charset"}
      /\ {"ground", "escape", "osc", "oscEscape"} \subseteq States
  BY DEF States
<1>4. CASE t.state = "ground"
  <2>1. CASE b = "ESC"
    <3>1. ByteRound(t, b) = [t EXCEPT !.state = "escape"]
      BY <1>4, <2>1 DEF ByteRound
    <3> QED BY <1>3, <1>4, <3>1, StateOnlyFollows
  <2>2. CASE b # "ESC"
    <3>1. ByteRound(t, b) = IF b \in Controls THEN Control(t, b) ELSE PutRune(t, b)
      BY <1>4, <2>2 DEF ByteRound
    <3>2. Marked(t, ByteRound(t, b))
      BY <1>1, <1>2, <3>1, ControlMarks, PutRuneMarks
    <3> QED BY <3>2, MarkedFollows
  <2> QED BY <2>1, <2>2
<1>5. CASE t.state = "escape"
  <2>1. ByteRound(t, b) = Escape(t, b)
    BY <1>5 DEF ByteRound
  <2> QED BY <1>5, <2>1, EscapeFollows
<1>6. CASE t.state = "csi"
  <2>1. ByteRound(t, b) = IF Final(b) THEN [ExecuteCSI(t, b) EXCEPT !.state = "ground", !.csi = <<>>]
                          ELSE Collected(t, b)
    BY <1>6 DEF ByteRound
  <2>2. CASE Final(b)
    <3> DEFINE u == ExecuteCSI(t, b)
    <3>1. Between(u) /\ Follows(t, u)
      BY <1>1, ExecuteCSIMarks, MarkedFollows
    <3> HIDE DEF u
    <3> DEFINE none == <<>>
               v == InState(u, "ground", none)
    <3>2. /\ v \in Terminals /\ Region(v) /\ Follows(u, v) /\ v.pending = u.pending
          /\ v.csi = none
      <4>1. none \in Seq(Bytes)
        OBVIOUS
      <4>2. "ground" \in States /\ u \in Terminals /\ Region(u)
        BY <1>3, <3>1 DEF Between
      <4> HIDE DEF none
      <4> QED BY <4>1, <4>2, StateFollows
    <3> HIDE DEF v
    <3>3. Between(v)
      BY <3>1, <3>2 DEF Between
    <3>4. ByteRound(t, b) = v
      BY <2>1, <2>2 DEF u, v, InState
    <3> QED BY <3>1, <3>2, <3>3, <3>4, FollowsTransitive
  <2>3. CASE ~Final(b)
    <3>1. CASE Len(t.csi) < 128
      <4> DEFINE csi == Append(t.csi, b)
                 v   == InState(t, "csi", csi)
      <4>1. csi \in Seq(Bytes) /\ Len(csi) <= 128
        BY <1>1, <3>1 DEF Terminals
      <4>2. ByteRound(t, b) = v
        BY <1>1, <1>6, <2>1, <2>3, <3>1 DEF Collected, Terminals, InState
      <4> HIDE DEF csi
      <4>3. /\ v \in Terminals /\ Region(v) /\ Follows(t, v) /\ v.pending = t.pending
            /\ v.csi = csi /\ v.state = "csi"
        <5>1. "csi" \in States
          BY DEF States
        <5> QED BY <1>1, <4>1, <5>1, StateFollows
      <4> HIDE DEF v
      <4> QED BY <4>1, <4>2, <4>3 DEF Between
    <3>2. CASE ~(Len(t.csi) < 128)
      BY <1>1, <2>1, <2>3, <3>2, MarkedReflexive, MarkedFollows DEF Collected
    <3> QED BY <3>1, <3>2
  <2> QED BY <2>2, <2>3
<1>7. CASE t.state = "osc"
  <2>1. ByteRound(t, b) = CASE b = "BEL" -> [t EXCEPT !.state = "ground"]
                            [] b = "ESC" -> [t EXCEPT !.state = "oscEscape"]
                            [] OTHER     -> t
    BY <1>7 DEF ByteRound
  <2> QED BY <1>1, <1>3, <1>7, <2>1, StateOnlyFollows, MarkedReflexive, MarkedFollows
<1>8. CASE t.state = "oscEscape"
  <2>1. ByteRound(t, b) = [t EXCEPT !.state = IF b = "\\" THEN "ground" ELSE "osc"]
    BY <1>8 DEF ByteRound
  <2> QED BY <1>3, <1>8, <2>1, StateOnlyFollows
<1>9. CASE t.state = "charset"
  <2>1. ByteRound(t, b) = [t EXCEPT !.state = "ground"]
    BY <1>9 DEF ByteRound
  <2> QED BY <1>3, <1>9, <2>1, StateOnlyFollows
<1> QED BY <1>1, <1>3, <1>4, <1>5, <1>6, <1>7, <1>8, <1>9

-----------------------------------------------------------------------------
(* Rounds of a write.                                                      *)

\* The beginnings of a rune.
Beginnings == {<<>>, <<Lead>>, <<Lead, More>>}

\* What is between two writes.
Settled(t) ==
    /\ t \in Terminals /\ Region(t)
    /\ t.csi # <<>> => t.state = "csi"
    /\ Len(t.csi) <= 128
    /\ t.pending \in Beginnings
    /\ t.pending # <<>> => t.state = "ground"

\* What is between two rounds, when left bytes are left.
Underway(acc, left) ==
    /\ acc = [t |-> acc.t, skip |-> acc.skip]
    /\ acc.skip \in 0..left
    /\ Settled(acc.t)
    /\ acc.t.pending = <<>> \/ acc.skip = left

LEMMA BetweenSettled ==
    ASSUME NEW t
    PROVE  Between(t) <=> Settled(t) /\ t.pending = <<>>
BY DEF Between, Settled, Beginnings

LEMMA SequenceParts ==
    ASSUME NEW T, NEW s \in Seq(T), Len(s) >= 1
    PROVE  /\ Len(s) \in Nat /\ DOMAIN s = 1..Len(s)
           /\ Head(s) = s[1] /\ s[1] \in T
           /\ Tail(s) \in Seq(T) /\ DOMAIN Tail(s) = 1..(Len(s) - 1)
           /\ \A i \in 1..(Len(s) - 1) : Tail(s)[i] = s[i + 1]
<1>1. Len(s) \in Nat /\ DOMAIN s = 1..Len(s) /\ s # <<>>
  OBVIOUS
<1>2. Tail(s) \in Seq(T) /\ Len(Tail(s)) = Len(s) - 1
  BY <1>1
<1>3. DOMAIN Tail(s) = 1..(Len(s) - 1)
  BY <1>2
<1>4. \A i \in 1..(Len(s) - 1) : Tail(s)[i] = s[i + 1]
  BY <1>1
<1> QED
  BY <1>1, <1>2, <1>3, <1>4

LEMMA FullRuneForm ==
    ASSUME NEW s \in Seq(Bytes), Len(s) >= 1
    PROVE  FullRune(s) <=> ~(s[1] = Lead /\ (Len(s) = 1 \/ (Len(s) = 2 /\ s[2] = More)))
<1> DEFINE n    == Len(s)
           tail == Tail(s)
<1>1. n \in Nat /\ n >= 1 /\ Head(s) = s[1]
  BY SequenceParts
<1>2. DOMAIN tail = 1..(n - 1) /\ \A i \in 1..(n - 1) : tail[i] = s[i + 1]
  BY SequenceParts
<1>3. FullRune(s) <=> ~(s[1] = Lead /\ n < 3 /\ ToSet(tail) \subseteq {More})
  BY <1>1 DEF FullRune
<1> HIDE DEF tail, n
<1>4. CASE n = 1
  <2>1. ToSet(tail) \subseteq {More}
    BY <1>2, <1>4 DEF ToSet
  <2>2. FullRune(s) <=> ~(s[1] = Lead)
    BY <1>3, <1>4, <2>1
  <2> QED BY <1>4, <2>2 DEF n
<1>5. CASE n = 2
  <2>1. DOMAIN tail = {1} /\ tail[1] = s[2]
    BY <1>2, <1>5
  <2>2. ToSet(tail) = {s[2]}
    BY <2>1 DEF ToSet
  <2>3. FullRune(s) <=> ~(s[1] = Lead /\ s[2] = More)
    BY <1>3, <1>5, <2>2
  <2> QED BY <1>5, <2>3 DEF n
<1>6. CASE n >= 3
  <2>1. FullRune(s)
    BY <1>1, <1>3, <1>6
  <2>2. ~(n = 1) /\ ~(n = 2)
    BY <1>1, <1>6
  <2> QED BY <2>1, <2>2 DEF n
<1>7. n = 1 \/ n = 2 \/ n >= 3
  BY <1>1
<1> QED BY <1>4, <1>5, <1>6, <1>7

LEMMA WellFormedForm ==
    ASSUME NEW s \in Seq(Bytes), Len(s) >= 1
    PROVE  WellFormed(s) <=> Len(s) >= 3 /\ s[1] = Lead /\ s[2] = More /\ s[3] = More
<1>1. CASE Len(s) >= 3
  <2>1. SubSeq(s, 1, 3) = <<s[1], s[2], s[3]>>
    <3> DEFINE u == SubSeq(s, 1, 3)
               v == <<s[1], s[2], s[3]>>
    <3>1. u \in Seq(Bytes) /\ Len(u) = 3 /\ u[1] = s[1] /\ u[2] = s[2] /\ u[3] = s[3]
      BY <1>1
    <3>2. v \in Seq(Bytes) /\ Len(v) = 3
      BY <1>1
    <3>3. DOMAIN u = 1..3 /\ DOMAIN v = 1..3
      BY <3>1, <3>2
    <3>4. \A i \in 1..3 : u[i] = v[i]
      BY <3>1
    <3>5. u = v
      <4> HIDE DEF u, v
      <4> QED BY <3>1, <3>2, <3>3, <3>4
    <3> QED BY <3>5
  <2> QED BY <1>1, <2>1 DEF WellFormed
<1>2. CASE ~(Len(s) >= 3)
  BY <1>2 DEF WellFormed
<1> QED BY <1>1, <1>2

LEMMA Unfinished ==
    ASSUME NEW rest \in Seq(Bytes), Len(rest) >= 1, ~FullRune(rest)
    PROVE  rest = <<Lead>> \/ rest = <<Lead, More>>
<1>1. rest[1] = Lead /\ (Len(rest) = 1 \/ (Len(rest) = 2 /\ rest[2] = More))
  BY FullRuneForm
<1>2. CASE Len(rest) = 1
  BY <1>1, <1>2
<1>3. CASE Len(rest) = 2 /\ rest[2] = More
  BY <1>1, <1>3
<1> QED BY <1>1, <1>2, <1>3

LEMMA PendingFollows ==
    ASSUME NEW t, Between(t), t.state = "ground", NEW rest \in Beginnings
    PROVE  LET u == [t EXCEPT !.pending = rest] IN Settled(u) /\ Follows(t, u)
<1>1. rest \in Seq(Bytes)
  <2>1. Lead \in Bytes /\ More \in Bytes
    BY DEF Bytes
  <2>2. <<>> \in Seq(Bytes) /\ <<Lead>> \in Seq(Bytes) /\ <<Lead, More>> \in Seq(Bytes)
    BY <2>1
  <2> QED BY <2>2 DEF Beginnings
<1> QED
  BY <1>1 DEF Between, Settled, Follows, Terminals, Region, RowView

LEMMA RoundFollows ==
    ASSUME NEW rest \in Seq(Bytes), Len(rest) >= 1, NEW acc, Underway(acc, Len(rest))
    PROVE  /\ Underway(Round(acc, rest), Len(rest) - 1)
           /\ Follows(acc.t, Round(acc, rest).t)
           /\ acc.t.pending = <<>>
                /\ (acc.skip > 0 \/ acc.t.state # "ground" \/ FullRune(rest))
              => Round(acc, rest).t.pending = <<>>
<1> DEFINE n == Len(rest)
<1>1. n \in Nat /\ n >= 1 /\ Head(rest) \in Bytes
  BY DEF Bytes
<1>2. CASE acc.skip > 0
  <2>1. Round(acc, rest) = [t |-> acc.t, skip |-> acc.skip - 1]
    BY <1>2 DEF Round, Underway
  <2> QED
    BY <1>1, <1>2, <2>1 DEF Underway, Settled, Follows
<1>3. CASE ~(acc.skip > 0)
  <2>1. acc.skip = 0 /\ Between(acc.t)
    BY <1>1, <1>3, BetweenSettled DEF Underway
  <2>2. CASE acc.t.state = "ground" /\ Head(rest) \in {Lead, More}
    <3> DEFINE r == RuneRound(acc.t, rest)
    <3>1. Round(acc, rest) = [t |-> r.t, skip |-> r.used - 1]
      BY <1>3, <2>2 DEF Round
    <3>2. CASE ~FullRune(rest)
      <4> DEFINE u == [acc.t EXCEPT !.pending = rest]
      <4>1. r = [t |-> u, used |-> n]
        BY <3>2 DEF RuneRound
      <4>2. rest \in Beginnings
        BY <3>2, Unfinished DEF Beginnings
      <4>3. Settled(u) /\ Follows(acc.t, u)
        BY <2>1, <2>2, <4>2, PendingFollows
      <4> HIDE DEF u
      <4> QED BY <1>1, <1>3, <2>2, <3>1, <3>2, <4>1, <4>3 DEF Underway
    <3>3. CASE FullRune(rest) /\ WellFormed(rest)
      <4> DEFINE u == PutRune(acc.t, Wide)
      <4>1. Round(acc, rest) = [t |-> u, skip |-> 2]
        BY <3>1, <3>3 DEF RuneRound
      <4>2. n >= 3
        BY <3>3 DEF WellFormed
      <4>3. Between(u) /\ Follows(acc.t, u)
        BY <2>1, PutRuneMarks, BlankTyped, MarkedFollows DEF Between
      <4> HIDE DEF u
      <4> QED BY <1>1, <4>1, <4>2, <4>3, BetweenSettled DEF Underway
    <3>4. CASE FullRune(rest) /\ ~WellFormed(rest)
      <4> DEFINE u == PutRune(acc.t, Bad)
      <4>1. Round(acc, rest) = [t |-> u, skip |-> 0]
        BY <3>1, <3>4 DEF RuneRound
      <4>2. Between(u) /\ Follows(acc.t, u)
        BY <2>1, PutRuneMarks, BlankTyped, MarkedFollows DEF Between
      <4> HIDE DEF u
      <4> QED BY <1>1, <4>1, <4>2, BetweenSettled DEF Underway
    <3> QED BY <3>2, <3>3, <3>4
  <2>3. CASE ~(acc.t.state = "ground" /\ Head(rest) \in {Lead, More})
    <3> DEFINE u == ByteRound(acc.t, Head(rest))
    <3>1. Round(acc, rest) = [t |-> u, skip |-> 0]
      BY <1>3, <2>3 DEF Round
    <3>2. Between(u) /\ Follows(acc.t, u)
      BY <1>1, <2>1, ByteRoundFollows
    <3> HIDE DEF u
    <3> QED BY <1>1, <3>1, <3>2, BetweenSettled DEF Underway
  <2> QED BY <2>2, <2>3
<1> QED BY <1>2, <1>3

\* One byte more makes no difference to a round, but where a rune has only begun.
LEMMA RoundLooksAhead ==
    ASSUME NEW rest \in Seq(Bytes), Len(rest) >= 1, NEW b \in Bytes, NEW acc,
           acc.skip > 0 \/ acc.t.state # "ground" \/ FullRune(rest)
    PROVE  Round(acc, Append(rest, b)) = Round(acc, rest)
<1> DEFINE more == Append(rest, b)
<1>1. /\ more \in Seq(Bytes) /\ Len(more) = Len(rest) + 1 /\ Head(more) = Head(rest)
      /\ Len(rest) \in Nat /\ Head(rest) = rest[1]
      /\ \A i \in 1..Len(rest) : more[i] = rest[i]
  OBVIOUS
<1> HIDE DEF more
<1>2. CASE acc.skip > 0
  BY <1>2 DEF Round, more
<1>3. CASE ~(acc.skip > 0) /\ ~(acc.t.state = "ground" /\ Head(rest) \in {Lead, More})
  BY <1>1, <1>3 DEF Round, more
<1>4. CASE ~(acc.skip > 0) /\ acc.t.state = "ground" /\ Head(rest) \in {Lead, More}
  <2>1. FullRune(rest)
    BY <1>4
  <2> DEFINE n == Len(rest)
             m == Len(more)
  <2>6. ~(rest[1] = Lead /\ (n = 1 \/ (n = 2 /\ rest[2] = More)))
    BY <2>1, FullRuneForm
  <2>7. /\ n \in Nat /\ n >= 1 /\ m = n + 1 /\ more[1] = rest[1]
        /\ n >= 2 => more[2] = rest[2]
        /\ n >= 3 => more[3] = rest[3]
    BY <1>1
  <2> HIDE DEF n, m
  <2>2. FullRune(more)
    <3>1. ~(more[1] = Lead /\ (m = 1 \/ (m = 2 /\ more[2] = More)))
      <4>1. m # 1 /\ (m = 2 => n = 1)
        BY <2>7
      <4> QED BY <2>6, <2>7, <4>1
    <3>2. m >= 1
      BY <2>7
    <3> QED BY <1>1, <3>1, <3>2, FullRuneForm DEF m
  <2>3. WellFormed(more) => WellFormed(rest)
    <3> SUFFICES ASSUME WellFormed(more) PROVE WellFormed(rest)
      OBVIOUS
    <3>1. m >= 1
      BY <2>7
    <3>2. m >= 3 /\ more[1] = Lead /\ more[2] = More /\ more[3] = More
      BY <1>1, <3>1, WellFormedForm DEF m
    <3>3. n >= 3 /\ rest[1] = Lead /\ rest[2] = More /\ rest[3] = More
      BY <2>6, <2>7, <3>2
    <3> QED BY <3>3, WellFormedForm DEF n
  <2>4. WellFormed(rest) => WellFormed(more)
    BY <1>1, WellFormedForm
  <2>5. RuneRound(acc.t, more) = RuneRound(acc.t, rest)
    BY <2>1, <2>2, <2>3, <2>4 DEF RuneRound
  <2> QED BY <1>1, <1>4, <2>5 DEF Round, more
<1> QED BY <1>2, <1>3, <1>4

-----------------------------------------------------------------------------
(* Writes.                                                                 *)

Start(t) == [t |-> [t EXCEPT !.pending = <<>>], skip |-> 0]

\* f is where each round over data leads from start.
Rounds(f, start, data) ==
    f = [i \in 0..Len(data) |->
            IF i = 0 THEN start ELSE Round(f[i - 1], SubSeq(data, i, Len(data)))]

LEMMA WriteRounds ==
    ASSUME NEW t, NEW p, t.pending \o p \in Seq(Bytes)
    PROVE  \E f : /\ Rounds(f, Start(t), t.pending \o p)
                  /\ Write(t, p) = f[Len(t.pending \o p)].t
<1> DEFINE data == t.pending \o p
           start == Start(t)
           after[i \in 0..Len(data)] ==
               IF i = 0 THEN start ELSE Round(after[i - 1], SubSeq(data, i, Len(data)))
<1>1. Len(data) \in Nat
  OBVIOUS
<1>2. Write(t, p) = after[Len(data)].t
  BY DEF Write, Data, Start
<1> HIDE DEF data, start
<1>3. PICK f : Steps("write", data, start, Len(data), f)
  BY <1>1, StepsExist
<1>4. f = [i \in 0..Len(data) |->
              IF i = 0 THEN start ELSE Round(f[i - 1], SubSeq(data, i, Len(data)))]
  BY <1>3 DEF Steps, Step
<1>5. after = [i \in 0..Len(data) |->
              IF i = 0 THEN start ELSE Round(after[i - 1], SubSeq(data, i, Len(data)))]
  BY <1>4
<1> HIDE DEF after
<1>6. Rounds(after, start, data)
  BY <1>5 DEF Rounds
<1> QED BY <1>2, <1>6 DEF data, start

LEMMA RestTyped ==
    ASSUME NEW data \in Seq(Bytes), NEW i \in 1..Len(data)
    PROVE  /\ SubSeq(data, i, Len(data)) \in Seq(Bytes)
           /\ Len(SubSeq(data, i, Len(data))) = Len(data) - i + 1
           /\ Len(data) - i + 1 \in Nat /\ Len(data) - i + 1 >= 1
OBVIOUS

LEMMA RoundAt ==
    ASSUME NEW f, NEW start, NEW data \in Seq(Bytes), Rounds(f, start, data)
    PROVE  /\ f[0] = start
           /\ \A i \in 1..Len(data) : f[i] = Round(f[i - 1], SubSeq(data, i, Len(data)))
<1>1. Len(data) \in Nat
  OBVIOUS
<1>2. 0 \in 0..Len(data) /\ \A i \in 1..Len(data) : i \in 0..Len(data) /\ i # 0
  BY <1>1
<1> QED BY <1>2 DEF Rounds

\* Round after round a row that is not marked looks as at the start.
LEMMA RoundsFollow ==
    ASSUME NEW f, NEW start, NEW data \in Seq(Bytes), Rounds(f, start, data),
           Underway(start, Len(data)), NEW i \in 0..Len(data)
    PROVE  Underway(f[i], Len(data) - i) /\ Follows(start.t, f[i].t)
<1> DEFINE n == Len(data)
           S == {j \in 0..n : Underway(f[j], n - j) /\ Follows(start.t, f[j].t)}
<1>1. n \in Nat
  OBVIOUS
<1>2. /\ f[0] = start
      /\ \A j \in 1..n : f[j] = Round(f[j - 1], SubSeq(data, j, n))
  BY RoundAt
<1>3. 0 \in S
  <2>1. n - 0 = n /\ 0 \in 0..n
    BY <1>1
  <2> QED BY <1>2, <2>1 DEF Follows
<1>4. ASSUME NEW j \in 1..n, j - 1 \in S PROVE j \in S
  <2> DEFINE rest == SubSeq(data, j, n)
  <2>1. /\ rest \in Seq(Bytes) /\ Len(rest) = n - j + 1 /\ Len(rest) >= 1
    BY RestTyped
  <2>2. f[j] = Round(f[j - 1], rest)
    BY <1>2
  <2> HIDE DEF rest
  <2>3. n - (j - 1) = n - j + 1 /\ (n - j + 1) - 1 = n - j /\ j \in 0..n
    BY <1>1
  <2>4. Underway(f[j - 1], n - (j - 1)) /\ Follows(start.t, f[j - 1].t)
    BY <1>4
  <2>5. Underway(f[j - 1], Len(rest))
    BY <2>1, <2>3, <2>4
  <2>6. Underway(f[j], Len(rest) - 1) /\ Follows(f[j - 1].t, f[j].t)
    BY <2>1, <2>2, <2>5, RoundFollows
  <2>7. Underway(f[j], n - j) /\ Follows(start.t, f[j].t)
    BY <2>1, <2>3, <2>4, <2>6, FollowsTransitive
  <2> QED BY <2>3, <2>7
<1>5. 0..n \subseteq S
  <2> HIDE DEF S
  <2> QED BY <1>1, <1>3, <1>4, UpTo
<1> QED BY <1>5

LEMMA StartUnderway ==
    ASSUME NEW t, Settled(t), NEW n \in Nat
    PROVE  /\ Underway(Start(t), n) /\ Start(t).t.pending = <<>> /\ Start(t).skip = 0
           /\ Follows(t, Start(t).t)
<1> DEFINE u == [t EXCEPT !.pending = <<>>]
<1>1. <<>> \in Seq(Bytes) /\ <<>> \in Beginnings
  BY DEF Beginnings
<1>2. Settled(u) /\ u.pending = <<>> /\ Follows(t, u)
  BY <1>1 DEF Settled, Terminals, Region, Follows, RowView
<1>3. Start(t) = [t |-> u, skip |-> 0]
  BY DEF Start
<1> HIDE DEF u
<1> QED BY <1>2, <1>3 DEF Underway

LEMMA DataTyped ==
    ASSUME NEW t, Settled(t), NEW p \in Seq(Bytes)
    PROVE  t.pending \o p \in Seq(Bytes) /\ t.pending \in Seq(Bytes)
BY DEF Settled, Terminals

\* What a write leaves: a terminal of its type, and every row it changed marked.
LEMMA WriteFollows ==
    ASSUME NEW t, Settled(t), NEW p \in Seq(Bytes)
    PROVE  Settled(Write(t, p)) /\ Follows(t, Write(t, p))
<1> DEFINE data == t.pending \o p
<1>1. data \in Seq(Bytes)
  BY DataTyped
<1>2. PICK f : Rounds(f, Start(t), data) /\ Write(t, p) = f[Len(data)].t
  BY <1>1, WriteRounds
<1> HIDE DEF data
<1>3. Len(data) \in Nat /\ Len(data) \in 0..Len(data)
  BY <1>1
<1>4. Underway(Start(t), Len(data)) /\ Follows(t, Start(t).t)
  BY <1>3, StartUnderway
<1>5. Underway(f[Len(data)], Len(data) - Len(data)) /\ Follows(Start(t).t, f[Len(data)].t)
  BY <1>1, <1>2, <1>3, <1>4, RoundsFollow
<1> QED
  BY <1>2, <1>4, <1>5, FollowsTransitive DEF Underway

LEMMA SameSequence ==
    ASSUME NEW T, NEW s \in Seq(T), NEW u \in Seq(T), Len(s) = Len(u),
           \A i \in 1..Len(s) : s[i] = u[i]
    PROVE  s = u
OBVIOUS

LEMMA AppendedRest ==
    ASSUME NEW T, NEW s \in Seq(T), NEW b \in T, NEW i \in 1..Len(s)
    PROVE  SubSeq(Append(s, b), i, Len(s) + 1) = Append(SubSeq(s, i, Len(s)), b)
<1> DEFINE n == Len(s)
           u == SubSeq(Append(s, b), i, n + 1)
           v == Append(SubSeq(s, i, n), b)
<1>1. n \in Nat /\ i \in 1..n
  OBVIOUS
<1>2. Append(s, b) \in Seq(T) /\ Len(Append(s, b)) = n + 1
  OBVIOUS
<1>3. u \in Seq(T) /\ Len(u) = n - i + 2 /\ \A j \in 1..(n - i + 2) : u[j] = Append(s, b)[i + j - 1]
  BY <1>1, <1>2
<1>4. SubSeq(s, i, n) \in Seq(T) /\ Len(SubSeq(s, i, n)) = n - i + 1
      /\ \A j \in 1..(n - i + 1) : SubSeq(s, i, n)[j] = s[i + j - 1]
  BY <1>1
<1>5. v \in Seq(T) /\ Len(v) = n - i + 2 /\ v[n - i + 2] = b
      /\ \A j \in 1..(n - i + 1) : v[j] = s[i + j - 1]
  BY <1>1, <1>4
<1>6. Append(s, b)[n + 1] = b /\ \A j \in 1..n : Append(s, b)[j] = s[j]
  OBVIOUS
<1>7. ASSUME NEW j \in 1..(n - i + 2) PROVE u[j] = v[j]
  <2>1. CASE j = n - i + 2
    <3>1. i + j - 1 = n + 1
      BY <1>1, <2>1
    <3> QED BY <1>3, <1>5, <1>6, <2>1, <3>1
  <2>2. CASE j # n - i + 2
    <3>1. j \in 1..(n - i + 1) /\ i + j - 1 \in 1..n
      BY <1>1, <2>2
    <3> QED BY <1>3, <1>5, <1>6, <3>1
  <2> QED BY <2>1, <2>2
<1> HIDE DEF u, v
<1>8. u = v
  BY <1>3, <1>5, <1>7, SameSequence
<1> QED BY <1>8 DEF u, v

LEMMA RestOfRest ==
    ASSUME NEW T, NEW s \in Seq(T), NEW k \in 1..Len(s), NEW j \in 1..(Len(s) - k + 1)
    PROVE  SubSeq(SubSeq(s, k, Len(s)), j, Len(s) - k + 1) = SubSeq(s, k + j - 1, Len(s))
<1> DEFINE n == Len(s)
           r == SubSeq(s, k, n)
           u == SubSeq(r, j, n - k + 1)
           v == SubSeq(s, k + j - 1, n)
<1>1. n \in Nat /\ k \in 1..n /\ j \in 1..(n - k + 1) /\ k + j - 1 \in 1..n
  OBVIOUS
<1>2. r \in Seq(T) /\ Len(r) = n - k + 1 /\ \A i \in 1..(n - k + 1) : r[i] = s[k + i - 1]
  BY <1>1
<1>3. v \in Seq(T) /\ Len(v) = n - k - j + 2 /\ \A i \in 1..(n - k - j + 2) : v[i] = s[k + j - 1 + i - 1]
  BY <1>1
<1> HIDE DEF r, v
<1>4. u \in Seq(T) /\ Len(u) = n - k - j + 2 /\ \A i \in 1..(n - k - j + 2) : u[i] = r[j + i - 1]
  BY <1>1, <1>2
<1> HIDE DEF u
<1>5. ASSUME NEW i \in 1..(n - k - j + 2) PROVE u[i] = v[i]
  <2>1. j + i - 1 \in 1..(n - k + 1) /\ k + (j + i - 1) - 1 = k + j - 1 + i - 1
    BY <1>1
  <2> QED BY <1>2, <1>3, <1>4, <2>1
<1>6. u = v
  BY <1>3, <1>4, <1>5, SameSequence
<1> QED BY <1>6 DEF u, v, r

\* Where the rounds over data have come when only the beginning of a rune, or
\* nothing, is left of it.
Reaches(f, data, k, u) ==
    /\ k \in 1..(Len(data) + 1)
    /\ f[k - 1].skip = 0 /\ f[k - 1].t.pending = <<>> /\ Settled(f[k - 1].t)
    /\ f[k - 1] = [t |-> f[k - 1].t, skip |-> 0]
    /\ LET rest == IF k = Len(data) + 1 THEN <<>> ELSE SubSeq(data, k, Len(data))
       IN  rest \in Seq(Bytes) /\ u = [f[k - 1].t EXCEPT !.pending = rest]

\* A rune that has only begun at byte k of data, in the ground state.
Stuck(f, data, k) ==
    /\ f[k - 1].skip = 0
    /\ f[k - 1].t.state = "ground"
    /\ ~FullRune(SubSeq(data, k, Len(data)))

LEMMA NotStuckQuiet ==
    ASSUME NEW f, NEW start, NEW data \in Seq(Bytes), Rounds(f, start, data),
           Underway(start, Len(data)), start.t.pending = <<>>,
           NEW k \in 0..Len(data), \A j \in 1..k : ~Stuck(f, data, j)
    PROVE  \A j \in 0..k : f[j].t.pending = <<>>
<1> DEFINE n == Len(data)
           S == {j \in 0..k : f[j].t.pending = <<>>}
<1>1. n \in Nat /\ k \in 0..n /\ k \in Nat
  OBVIOUS
<1>2. /\ f[0] = start
      /\ \A j \in 1..n : f[j] = Round(f[j - 1], SubSeq(data, j, n))
  BY RoundAt
<1>3. 0 \in S
  BY <1>1, <1>2
<1>4. ASSUME NEW j \in 1..k, j - 1 \in S PROVE j \in S
  <2> DEFINE rest == SubSeq(data, j, n)
  <2>1. j \in 1..n /\ j \in 0..k /\ j - 1 \in 0..n /\ n - (j - 1) = n - j + 1
    BY <1>1
  <2>2. /\ rest \in Seq(Bytes) /\ Len(rest) = n - j + 1 /\ Len(rest) >= 1
    BY <2>1, RestTyped
  <2>3. f[j] = Round(f[j - 1], rest)
    BY <1>2, <2>1
  <2>4. f[j - 1].skip # 0 \/ f[j - 1].t.state # "ground" \/ FullRune(rest)
    BY DEF Stuck
  <2> HIDE DEF rest
  <2>5. Underway(f[j - 1], Len(rest))
    BY <2>1, <2>2, RoundsFollow
  <2>6. f[j - 1].skip > 0 \/ f[j - 1].t.state # "ground" \/ FullRune(rest)
    BY <2>2, <2>4, <2>5 DEF Underway
  <2>7. f[j - 1].t.pending = <<>>
    BY <1>4
  <2>8. f[j].t.pending = <<>>
    BY <2>2, <2>3, <2>5, <2>6, <2>7, RoundFollows
  <2> QED BY <2>1, <2>8
<1>5. 0..k \subseteq S
  <2> HIDE DEF S
  <2> QED BY <1>1, <1>3, <1>4, UpTo
<1> QED BY <1>5

\* What the rounds over data leave undecoded at their end.
LEMMA RoundsReach ==
    ASSUME NEW f, NEW start, NEW data \in Seq(Bytes), Rounds(f, start, data),
           Underway(start, Len(data)), start.t.pending = <<>>
    PROVE  \E k \in 1..(Len(data) + 1) :
               /\ Reaches(f, data, k, f[Len(data)].t)
               /\ \A j \in 1..(k - 1) : ~Stuck(f, data, j)
<1> DEFINE n == Len(data)
           S == {j \in 1..n : Stuck(f, data, j)}
<1>1. n \in Nat /\ n \in 0..n
  OBVIOUS
<1>2. /\ f[0] = start
      /\ \A j \in 1..n : f[j] = Round(f[j - 1], SubSeq(data, j, n))
  BY RoundAt
<1>3. \A j \in 0..n : Underway(f[j], n - j)
  BY RoundsFollow
<1>4. CASE S = {}
  <2>1. \A j \in 1..n : ~Stuck(f, data, j)
    BY <1>4
  <2>2. f[n].t.pending = <<>>
    BY <1>1, <2>1, NotStuckQuiet
  <2>3. Underway(f[n], 0)
    BY <1>1, <1>3
  <2>4. f[n].skip = 0 /\ f[n] = [t |-> f[n].t, skip |-> 0] /\ Settled(f[n].t)
    BY <2>3 DEF Underway
  <2>5. f[n].t = [f[n].t EXCEPT !.pending = <<>>]
    BY <2>2, <2>4 DEF Settled, Terminals
  <2>6. n + 1 \in 1..(n + 1) /\ (n + 1) - 1 = n
    BY <1>1
  <2>7. <<>> \in Seq(Bytes)
    OBVIOUS
  <2>8. Reaches(f, data, n + 1, f[n].t)
    BY <2>2, <2>4, <2>5, <2>6, <2>7 DEF Reaches
  <2> QED BY <2>1, <2>6, <2>8
<1>5. CASE S # {}
  <2>1. S \subseteq Nat
    BY <1>1
  <2>2. PICK k \in S : \A m \in S : k <= m
    <3> HIDE DEF S
    <3> QED BY <1>5, <2>1, Least
  <2>3. k \in 1..n /\ Stuck(f, data, k) /\ k \in Int
    OBVIOUS
  <2>4. \A j \in 1..(k - 1) : ~Stuck(f, data, j)
    <3> SUFFICES ASSUME NEW j \in 1..(k - 1), Stuck(f, data, j) PROVE FALSE
      OBVIOUS
    <3>1. j \in S /\ ~(k <= j)
      BY <1>1, <2>3
    <3> HIDE DEF S
    <3> QED BY <2>2, <3>1
  <2> HIDE DEF S
  <2> DEFINE rest == SubSeq(data, k, n)
             q    == f[k - 1].t
             u    == [q EXCEPT !.pending = rest]
  <2>5. /\ rest \in Seq(Bytes) /\ Len(rest) = n - k + 1 /\ Len(rest) >= 1
    BY <2>3, RestTyped
  <2>6. k - 1 \in 0..n /\ n - (k - 1) = n - k + 1 /\ k - 1 \in 0..(k - 1)
    BY <1>1, <2>3
  <2>7. Underway(f[k - 1], n - k + 1)
    BY <1>3, <2>6
  <2>8. f[k - 1].skip = 0 /\ q.state = "ground" /\ ~FullRune(rest)
    BY <2>3 DEF Stuck
  <2>9. f[k - 1] = [t |-> q, skip |-> 0] /\ Settled(q)
    BY <2>7, <2>8 DEF Underway
  <2>10. q.pending = <<>>
    BY <2>4, <2>6, NotStuckQuiet
  <2>11. f[k] = Round(f[k - 1], rest)
    BY <1>2, <2>3
  <2>12. rest = <<Lead>> \/ rest = <<Lead, More>>
    BY <2>5, <2>8, Unfinished
  <2> HIDE DEF rest, q, u
  <2>13. f[k] = [t |-> u, skip |-> Len(rest) - 1]
    <3>1. Head(rest) = Lead
      BY <2>12
    <3> QED BY <2>8, <2>9, <2>11, <3>1 DEF Round, RuneRound, u
  <2>14. f[n].t = u
    <3>1. CASE rest = <<Lead>>
      <4> DEFINE l == Len(rest)
      <4>1. l = 1 /\ l = n - k + 1
        BY <2>5, <3>1
      <4> HIDE DEF l, n
      <4>2. k = n
        BY <1>1, <2>3, <4>1
      <4> QED BY <2>13, <4>2
    <3>2. CASE rest = <<Lead, More>>
      <4> DEFINE l == Len(rest)
      <4>1. l = 2 /\ l = n - k + 1
        BY <2>5, <3>2
      <4>4. f[k] = [t |-> u, skip |-> 1]
        BY <2>13, <4>1
      <4> HIDE DEF l, n
      <4>2. k + 1 = n /\ n \in 1..n /\ n - 1 = k
        BY <1>1, <2>3, <4>1
      <4>3. f[n] = Round(f[k], SubSeq(data, n, n))
        BY <1>2, <4>2
      <4> QED BY <4>2, <4>3, <4>4 DEF Round
    <3> QED BY <2>12, <3>1, <3>2
  <2>15. k \in 1..(n + 1) /\ k # n + 1
    BY <1>1, <2>3
  <2>16. Reaches(f, data, k, f[n].t)
    BY <2>5, <2>8, <2>9, <2>10, <2>14, <2>15 DEF Reaches, rest, q, u
  <2> QED BY <2>4, <2>15, <2>16
<1> QED BY <1>4, <1>5

\* Rounds over more bytes begin with the same rounds.
LEMMA RoundsBefore ==
    ASSUME NEW f, NEW g, NEW start, NEW data \in Seq(Bytes), NEW b \in Bytes,
           Rounds(f, start, data), Rounds(g, start, Append(data, b)),
           Underway(start, Len(data)), NEW k \in 0..Len(data),
           \A j \in 1..k : ~Stuck(f, data, j)
    PROVE  g[k] = f[k]
<1> DEFINE n    == Len(data)
           more == Append(data, b)
           S    == {j \in 0..k : g[j] = f[j]}
<1>1. n \in Nat /\ k \in Nat /\ more \in Seq(Bytes) /\ Len(more) = n + 1
  OBVIOUS
<1>2. /\ f[0] = start
      /\ \A j \in 1..n : f[j] = Round(f[j - 1], SubSeq(data, j, n))
  BY RoundAt
<1>3. /\ g[0] = start
      /\ \A j \in 1..Len(more) : g[j] = Round(g[j - 1], SubSeq(more, j, Len(more)))
  <2> HIDE DEF more
  <2> QED BY <1>1, RoundAt DEF more
<1>4. 0 \in S
  BY <1>1, <1>2, <1>3
<1>5. ASSUME NEW j \in 1..k, j - 1 \in S PROVE j \in S
  <2> DEFINE rest == SubSeq(data, j, n)
  <2>1. j \in 1..n /\ j \in 1..(n + 1) /\ j \in 0..k /\ j - 1 \in 0..n
    BY <1>1
  <2>2. rest \in Seq(Bytes) /\ Len(rest) >= 1
    BY <2>1, RestTyped
  <2>3. SubSeq(more, j, n + 1) = Append(rest, b)
    BY <2>1, AppendedRest
  <2>4. g[j] = Round(g[j - 1], Append(rest, b))
    BY <1>1, <1>3, <2>1, <2>3
  <2>5. f[j] = Round(f[j - 1], rest)
    BY <1>2, <2>1
  <2>6. Underway(f[j - 1], n - (j - 1)) /\ n - (j - 1) \in Nat
    BY <1>1, <2>1, RoundsFollow
  <2>7. f[j - 1].skip \in Nat
    BY <2>6 DEF Underway
  <2>8. f[j - 1].skip > 0 \/ f[j - 1].t.state # "ground" \/ FullRune(rest)
    BY <2>7 DEF Stuck
  <2> HIDE DEF rest
  <2>9. Round(f[j - 1], Append(rest, b)) = Round(f[j - 1], rest)
    BY <2>2, <2>8, RoundLooksAhead
  <2> QED BY <1>5, <2>1, <2>4, <2>5, <2>9
<1>6. 0..k \subseteq S
  <2> HIDE DEF S
  <2> QED BY <1>1, <1>4, <1>5, UpTo
<1> QED BY <1>1, <1>6

\* Rounds that begin in the middle end as the others do.
LEMMA RoundsAfter ==
    ASSUME NEW g, NEW h, NEW start, NEW data \in Seq(Bytes), NEW k \in 1..Len(data),
           Rounds(g, start, data), Rounds(h, g[k - 1], SubSeq(data, k, Len(data)))
    PROVE  h[Len(data) - k + 1] = g[Len(data)]
<1> DEFINE n    == Len(data)
           m    == n - k + 1
           last == SubSeq(data, k, n)
           S    == {j \in 0..m : h[j] = g[k - 1 + j]}
<1>1. /\ n \in Nat /\ m \in Nat /\ last \in Seq(Bytes) /\ Len(last) = m
      /\ k \in 1..n /\ k - 1 + m = n
  OBVIOUS
<1>2. \A j \in 1..n : g[j] = Round(g[j - 1], SubSeq(data, j, n))
  BY RoundAt
<1>3. h[0] = g[k - 1] /\ \A j \in 1..m : h[j] = Round(h[j - 1], SubSeq(last, j, m))
  <2>1. h[0] = g[k - 1] /\ \A j \in 1..Len(last) : h[j] = Round(h[j - 1], SubSeq(last, j, Len(last)))
    <3> HIDE DEF last
    <3> QED BY <1>1, RoundAt DEF last
  <2> QED BY <1>1, <2>1
<1>4. 0 \in S
  BY <1>1, <1>3
<1>5. ASSUME NEW j \in 1..m, j - 1 \in S PROVE j \in S
  <2>1. /\ k - 1 + (j - 1) = (k + j - 1) - 1 /\ k + j - 1 = k - 1 + j
        /\ k + j - 1 \in 1..n /\ j \in 0..m
    BY <1>1
  <2>2. SubSeq(last, j, m) = SubSeq(data, k + j - 1, n)
    BY <1>1, RestOfRest
  <2>3. h[j - 1] = g[(k + j - 1) - 1]
    BY <1>5, <2>1
  <2>4. h[j] = Round(h[j - 1], SubSeq(last, j, m))
    BY <1>3
  <2>5. g[k + j - 1] = Round(g[(k + j - 1) - 1], SubSeq(data, k + j - 1, n))
    BY <1>2, <2>1
  <2> HIDE DEF last, m, n
  <2>6. h[j] = g[k - 1 + j]
    BY <2>1, <2>2, <2>3, <2>4, <2>5
  <2> QED BY <2>1, <2>6
<1>6. 0..m \subseteq S
  <2> HIDE DEF S
  <2> QED BY <1>1, <1>4, <1>5, UpTo
<1>7. h[m] = g[k - 1 + m]
  <2>1. m \in 0..m
    BY <1>1
  <2> QED BY <1>6, <2>1
<1> QED BY <1>1, <1>7

LEMMA AppendConcat ==
    ASSUME NEW T, NEW s \in Seq(T), NEW u \in Seq(T), NEW b \in T
    PROVE  s \o Append(u, b) = Append(s \o u, b)
<1> DEFINE v == s \o Append(u, b)
           w == Append(s \o u, b)
           m == Len(s)
           n == Len(u)
<1>1. m \in Nat /\ n \in Nat
  OBVIOUS
<1>2. /\ v \in Seq(T) /\ Len(v) = m + n + 1
      /\ \A i \in 1..m : v[i] = s[i]
      /\ \A i \in (m + 1)..(m + n) : v[i] = u[i - m]
      /\ v[m + n + 1] = b
  OBVIOUS
<1>3. /\ w \in Seq(T) /\ Len(w) = m + n + 1
      /\ \A i \in 1..m : w[i] = s[i]
      /\ \A i \in (m + 1)..(m + n) : w[i] = u[i - m]
      /\ w[m + n + 1] = b
  OBVIOUS
<1> HIDE DEF v, w, m, n
<1>4. \A i \in 1..(m + n + 1) : i \in 1..m \/ i \in (m + 1)..(m + n) \/ i = m + n + 1
  BY <1>1
<1>5. v = w
  <2>1. \A i \in 1..(m + n + 1) : v[i] = w[i]
    BY <1>2, <1>3, <1>4
  <2> QED BY <1>2, <1>3, <2>1, SameSequence
<1> QED BY <1>5 DEF v, w

LEMMA LastPart ==
    ASSUME NEW T, NEW s \in Seq(T), NEW n \in Nat, Len(s) = n, n >= 1
    PROVE  SubSeq(s, n, n) = <<s[n]>>
<1>1. s[n] \in T
  OBVIOUS
<1> DEFINE u == SubSeq(s, n, n)
           v == <<s[n]>>
<1>2. u \in Seq(T) /\ Len(u) = 1 /\ u[1] = s[n]
  OBVIOUS
<1>3. v \in Seq(T) /\ Len(v) = 1 /\ v[1] = s[n]
  BY <1>1
<1>4. u = v
  <2> HIDE DEF u, v
  <2>1. \A i \in 1..Len(u) : u[i] = v[i]
    BY <1>2, <1>3
  <2> QED BY <1>2, <1>3, <2>1, SameSequence
<1> QED BY <1>4

\* A byte that comes in a write of its own is decoded as at the end of the one before.
LEMMA WriteOneMore ==
    ASSUME NEW t, Settled(t), NEW p \in Seq(Bytes), NEW b \in Bytes
    PROVE  Write(t, Append(p, b)) = Write(Write(t, p), <<b>>)
<1> DEFINE data  == t.pending \o p
           more  == Append(data, b)
           n     == Len(data)
           start == Start(t)
           w     == Write(t, p)
           last  == w.pending \o <<b>>
<1>1. /\ data \in Seq(Bytes) /\ more \in Seq(Bytes) /\ t.pending \in Seq(Bytes)
      /\ n \in Nat /\ Len(more) = n + 1
  BY DataTyped
<1>2. t.pending \o Append(p, b) = more
  <2> DEFINE s == t.pending
  <2>1. s \in Seq(Bytes)
    BY <1>1
  <2> HIDE DEF s
  <2>2. s \o Append(p, b) = Append(s \o p, b)
    BY <2>1, AppendConcat
  <2> QED BY <2>2 DEF s
<1>3. PICK f : Rounds(f, start, data) /\ w = f[n].t
  BY <1>1, WriteRounds
<1>4. PICK g : Rounds(g, start, more) /\ Write(t, Append(p, b)) = g[n + 1].t
  BY <1>1, <1>2, WriteRounds
<1>5. Underway(start, n) /\ start.t.pending = <<>>
  BY <1>1, StartUnderway
<1>6. Settled(w)
  BY WriteFollows
<1> HIDE DEF data, start, w
<1>7. PICK k \in 1..(n + 1) : /\ Reaches(f, data, k, f[n].t)
                              /\ \A j \in 1..(k - 1) : ~Stuck(f, data, j)
  BY <1>1, <1>3, <1>5, RoundsReach
<1>8. k - 1 \in 0..n /\ k \in 1..(n + 1) /\ k \in Int
  BY <1>1, <1>7
<1>9. g[k - 1] = f[k - 1]
  BY <1>1, <1>3, <1>4, <1>5, <1>7, <1>8, RoundsBefore
<1> DEFINE q    == f[k - 1].t
           rest == IF k = n + 1 THEN <<>> ELSE SubSeq(data, k, n)
<1>10. /\ f[k - 1] = [t |-> q, skip |-> 0] /\ q.pending = <<>> /\ Settled(q)
       /\ rest \in Seq(Bytes) /\ w = [q EXCEPT !.pending = rest]
  BY <1>3, <1>7 DEF Reaches
<1> HIDE DEF q, rest
<1>11. w.pending = rest /\ [w EXCEPT !.pending = <<>>] = q
  <2>1. q \in Terminals
    BY <1>10 DEF Settled
  <2> QED BY <1>10, <2>1 DEF Terminals
<1>12. Start(w) = g[k - 1]
  BY <1>9, <1>10, <1>11 DEF Start
<1>13. last = SubSeq(more, k, n + 1)
  <2>1. <<b>> \in Seq(Bytes)
    OBVIOUS
  <2>2. CASE k = n + 1
    <3>1. last = <<b>>
      BY <1>11, <2>1, <2>2 DEF rest
    <3>2. SubSeq(more, n + 1, n + 1) = <<more[n + 1]>> /\ more[n + 1] = b
      <4>1. SubSeq(more, n + 1, n + 1) = <<more[n + 1]>>
        <5>1. n + 1 \in Nat /\ n + 1 >= 1
          BY <1>1
        <5> HIDE DEF more, n
        <5> QED BY <1>1, <5>1, LastPart
      <4>2. more[n + 1] = b
        BY <1>1
      <4> QED BY <4>1, <4>2
    <3> QED BY <2>2, <3>1, <3>2
  <2>3. CASE k # n + 1
    <3>1. k \in 1..n
      BY <1>1, <1>8, <2>3
    <3>2. SubSeq(more, k, n + 1) = Append(SubSeq(data, k, n), b)
      BY <1>1, <3>1, AppendedRest
    <3>3. last = rest \o <<b>> /\ rest \o <<b>> = Append(rest, b)
      BY <1>10, <1>11
    <3> QED BY <2>3, <3>2, <3>3 DEF rest
  <2> QED BY <2>2, <2>3
<1>14. /\ k \in 1..(n + 1) /\ (n + 1) - k + 1 \in Nat
       /\ last \in Seq(Bytes) /\ Len(last) = (n + 1) - k + 1
  <2> HIDE DEF last, more, n
  <2> QED BY <1>1, <1>8, <1>13, RestTyped
<1>15. PICK h : Rounds(h, g[k - 1], last) /\ Write(w, <<b>>) = h[(n + 1) - k + 1].t
  BY <1>12, <1>14, WriteRounds
<1> HIDE DEF last, n
<1>16. h[(n + 1) - k + 1] = g[n + 1]
  <2> HIDE DEF more
  <2>1. k \in 1..Len(more) /\ last = SubSeq(more, k, Len(more))
    BY <1>1, <1>13, <1>14
  <2>2. h[Len(more) - k + 1] = g[Len(more)]
    BY <1>1, <1>4, <1>15, <2>1, RoundsAfter
  <2> QED BY <1>1, <2>2
<1> QED BY <1>4, <1>15, <1>16 DEF w

\* Nothing is written: nothing changes.
LEMMA WriteNothing ==
    ASSUME NEW t, Settled(t)
    PROVE  Write(t, <<>>) = t
<1> DEFINE data == t.pending
           n    == Len(data)
           q    == [t EXCEPT !.pending = <<>>]
<1>1. data \in Seq(Bytes) /\ data \o <<>> = data
  <2>1. <<>> \in Seq(Bytes)
    OBVIOUS
  <2>2. data \in Seq(Bytes)
    BY <2>1, DataTyped
  <2> QED BY <2>2
<1>2. PICK f : Rounds(f, Start(t), data) /\ Write(t, <<>>) = f[n].t
  BY <1>1, WriteRounds
<1>3. /\ f[0] = Start(t)
      /\ \A i \in 1..n : f[i] = Round(f[i - 1], SubSeq(data, i, n))
  <2> HIDE DEF data
  <2> QED BY <1>1, <1>2, RoundAt DEF data
<1>4. t = [q EXCEPT !.pending = t.pending] /\ Start(t) = [t |-> q, skip |-> 0]
  BY DEF Settled, Terminals, Start
<1>5. q.state = t.state
  BY DEF Settled, Terminals
<1> HIDE DEF q
<1>6. CASE data = <<>>
  <2>1. n = 0
    BY <1>6
  <2> QED BY <1>2, <1>3, <1>4, <1>6, <2>1 DEF Start
<1>7. CASE data = <<Lead>> \/ data = <<Lead, More>>
  <2>1. /\ n \in Nat /\ n \in 1..2 /\ Len(data) >= 1 /\ data[1] = Lead
        /\ n = 2 => data[2] = More
    <3>1. Lead \in Bytes /\ More \in Bytes
      BY DEF Bytes
    <3>2. CASE data = <<Lead>>
      <4>1. Len(<<Lead>>) = 1 /\ <<Lead>>[1] = Lead
        BY <3>1
      <4> QED BY <3>2, <4>1
    <3>3. CASE data = <<Lead, More>>
      <4>1. Len(<<Lead, More>>) = 2 /\ <<Lead, More>>[1] = Lead /\ <<Lead, More>>[2] = More
        BY <3>1
      <4> QED BY <3>3, <4>1
    <3> QED BY <1>7, <3>2, <3>3
  <2>2. ~FullRune(data) /\ Head(data) = Lead
    <3> HIDE DEF data
    <3> QED BY <1>1, <2>1, FullRuneForm, SequenceParts DEF n
  <2>3. SubSeq(data, 1, n) = data
    BY <1>1
  <2>4. t.state = "ground"
    <3>1. t.pending # <<>>
      BY <2>1
    <3> QED BY <3>1 DEF Settled
  <2>5. f[1] = Round([t |-> q, skip |-> 0], data)
    <3>1. 1 \in 1..n /\ 1 - 1 = 0
      BY <2>1
    <3>2. f[1] = Round(f[0], SubSeq(data, 1, n))
      BY <1>3, <3>1
    <3> QED BY <1>3, <1>4, <2>3, <3>2
  <2>6. f[1] = [t |-> t, skip |-> n - 1]
    BY <1>4, <1>5, <2>2, <2>4, <2>5 DEF Round, RuneRound
  <2>7. CASE n = 1
    BY <1>2, <2>6, <2>7
  <2>8. CASE n = 2
    <3>1. f[2] = Round(f[1], SubSeq(data, 2, n))
      BY <1>3, <2>8
    <3>2. f[1] = [t |-> t, skip |-> 1]
      BY <2>6, <2>8
    <3>3. f[2].t = t
      BY <3>1, <3>2 DEF Round
    <3> QED BY <1>2, <2>8, <3>3
  <2> QED BY <2>1, <2>7, <2>8
<1> QED BY <1>6, <1>7 DEF Settled, Beginnings

LEMMA OneLonger ==
    ASSUME NEW T, NEW s \in Seq(T), NEW i \in 1..Len(s)
    PROVE  /\ SubSeq(s, 1, i) = Append(SubSeq(s, 1, i - 1), s[i])
           /\ SubSeq(s, 1, i - 1) \in Seq(T) /\ s[i] \in T
<1> DEFINE u == SubSeq(s, 1, i)
           p == SubSeq(s, 1, i - 1)
           v == Append(p, s[i])
<1>1. i \in Nat /\ i - 1 \in Nat /\ s[i] \in T
  OBVIOUS
<1>2. u \in Seq(T) /\ Len(u) = i /\ \A j \in 1..i : u[j] = s[j]
  OBVIOUS
<1>3. p \in Seq(T) /\ Len(p) = i - 1 /\ \A j \in 1..(i - 1) : p[j] = s[j]
  OBVIOUS
<1> HIDE DEF u, p
<1>4. v \in Seq(T) /\ Len(v) = i /\ v[i] = s[i] /\ \A j \in 1..(i - 1) : v[j] = s[j]
  BY <1>1, <1>3
<1> HIDE DEF v
<1>5. \A j \in 1..i : j \in 1..(i - 1) \/ j = i
  OBVIOUS
<1>6. \A j \in 1..i : u[j] = v[j]
  BY <1>2, <1>4, <1>5
<1>7. u = v
  BY <1>2, <1>4, <1>6, SameSequence
<1> QED BY <1>1, <1>3, <1>7 DEF u, v, p

\* How what is written is cut into writes makes no difference.
LEMMA BytewiseIsWrite ==
    ASSUME NEW t, Settled(t), NEW p \in Seq(Bytes)
    PROVE  Bytewise(t, p) = Write(t, p)
<1> DEFINE n == Len(p)
           after[i \in 0..Len(p)] == IF i = 0 THEN t ELSE Write(after[i - 1], <<p[i]>>)
           S == {i \in 0..n : after[i] = Write(t, SubSeq(p, 1, i))}
<1>1. n \in Nat
  OBVIOUS
<1>2. Bytewise(t, p) = after[n]
  BY DEF Bytewise
<1>3. PICK f : Steps("bytes", p, t, n, f)
  BY <1>1, StepsExist
<1>4. f = [i \in 0..n |-> IF i = 0 THEN t ELSE Write(f[i - 1], <<p[i]>>)]
  BY <1>3 DEF Steps, Step
<1>5. after = [i \in 0..n |-> IF i = 0 THEN t ELSE Write(after[i - 1], <<p[i]>>)]
  BY <1>4
<1> HIDE DEF after
<1>6. 0 \in S
  <2>1. after[0] = t
    BY <1>1, <1>5
  <2>2. SubSeq(p, 1, 0) = <<>>
    OBVIOUS
  <2>3. Write(t, SubSeq(p, 1, 0)) = t
    BY <2>2, WriteNothing
  <2> QED BY <1>1, <2>1, <2>3
<1>7. ASSUME NEW i \in 1..n, i - 1 \in S PROVE i \in S
  <2>1. i \in 0..n /\ i # 0
    BY <1>1
  <2>2. after[i] = Write(after[i - 1], <<p[i]>>)
    BY <1>5, <2>1
  <2>3. /\ SubSeq(p, 1, i) = Append(SubSeq(p, 1, i - 1), p[i])
        /\ SubSeq(p, 1, i - 1) \in Seq(Bytes) /\ p[i] \in Bytes
    BY OneLonger
  <2>4. Write(t, Append(SubSeq(p, 1, i - 1), p[i])) = Write(Write(t, SubSeq(p, 1, i - 1)), <<p[i]>>)
    BY <2>3, WriteOneMore
  <2>5. after[i - 1] = Write(t, SubSeq(p, 1, i - 1))
    BY <1>7
  <2> QED BY <2>1, <2>2, <2>3, <2>4, <2>5
<1>8. 0..n \subseteq S
  <2> HIDE DEF S
  <2> QED BY <1>1, <1>6, <1>7, UpTo
<1>9. after[n] = Write(t, SubSeq(p, 1, n)) /\ SubSeq(p, 1, n) = p
  BY <1>1, <1>8
<1> QED BY <1>2, <1>9

-----------------------------------------------------------------------------
(* The session.                                                            *)

LEMMA MessagesTyped ==
    {Greeting, Failure, Goodbye} \subseteq Seq(Bytes)
<1>1. {"g", "f", "e", "CR", "LF"} \subseteq Bytes
  BY LetterAssumption DEF Bytes, Controls
<1>2. Greeting \in Seq(Bytes)
  BY <1>1 DEF Greeting
<1>3. Failure \in Seq(Bytes)
  BY <1>1 DEF Failure
<1>4. Goodbye \in Seq(Bytes)
  BY <1>1 DEF Goodbye
<1> QED BY <1>2, <1>3, <1>4

LEMMA SettledOK ==
    ASSUME NEW t, Settled(t)
    PROVE  TerminalOK(t)
<1>1. \A s \in Beginnings : Len(s) <= 2
  <2>1. Lead \in Bytes /\ More \in Bytes
    BY DEF Bytes
  <2>2. Len(<<>>) = 0 /\ Len(<<Lead>>) = 1 /\ Len(<<Lead, More>>) = 2
    BY <2>1
  <2> SUFFICES ASSUME NEW s \in Beginnings PROVE Len(s) <= 2
    OBVIOUS
  <2>3. s = <<>> \/ s = <<Lead>> \/ s = <<Lead, More>>
    BY DEF Beginnings
  <2>4. Len(s) \in {0, 1, 2}
    BY ONLY <2>2, <2>3
  <2>5. \A l \in {0, 1, 2} : l <= 2
    OBVIOUS
  <2> QED BY <2>4, <2>5
<1> QED BY <1>1 DEF Settled, TerminalOK, Region

LEMMA CleanSettled ==
    ASSUME NEW t, Settled(t)
    PROVE  /\ Settled(Clean(t)) /\ Clean(t).dirty = {}
           /\ \A r \in Rows : RowView(Clean(t), r) = RowView(t, r)
BY DEF Settled, Clean, Terminals, Region, RowView

LEMMA ViewTyped ==
    ASSUME NEW t, Settled(t), NEW r \in Rows
    PROVE  RowView(t, r) \in RowViews
<1>1. t.cells[r] \in [Cols -> Glyphs]
  BY DEF Settled, Terminals, Grids
<1>2. (IF r = t.y THEN t.x ELSE -1) \in -2..(NumCols - 1)
  BY Sizes DEF Settled, Terminals, Cols
<1> QED BY <1>1, <1>2 DEF RowView, RowViews

\* Every row that is not marked is in the picture as the terminal has it, and
\* every row that nobody is about to deliver is on the screen as in the picture.
PictureFollows == \A r \in Rows \ term.dirty : frame[r] = RowView(term, r)
Delivered      == ~broken => \A r \in Rows \ (hand["run"] \cup hand["loop"]) : screen[r] = frame[r]

\* Who has rows to deliver is about to deliver them.
HandsHold ==
    /\ hand["run"] # {} => pc \in {"showGreeting", "showLast"}
    /\ hand["loop"] # {} => loop = "show"

\* Who writes and paints, by where Run is: nobody else before it serves, nor
\* from its last words on.
Phases ==
    /\ pc \in {"greet", "showGreeting", "dial", "handshake", "setup", "failed"}
         => loop = "off" /\ shell = "none"
    /\ pc = "drain" => shell = "exited"
    /\ pc \in {"showLast", "returned"} /\ outcome \in {"failed", "ended"}
         => term.dirty = {} /\ loop \in {"off", "stopped", "failed"} /\ shell # "running"

ControlTyped ==
    /\ pc \in {"greet", "showGreeting", "dial", "handshake", "setup", "failed", "serve",
              "drain", "showLast", "returned"}
    /\ outcome \in {"none", "refused", "failed", "cancelled", "ended"}
    /\ loop \in {"off", "wait", "show", "stopped", "failed"}
    /\ shell \in {"none", "running", "exited"}
    /\ {broken, current, cancelled} \subseteq BOOLEAN
    /\ writes \in 0..MaxWrites

Rendered ==
    /\ frame \in [Rows -> RowViews] /\ screen \in [Rows -> RowViews]
    /\ hand \in [{"run", "loop"} -> SUBSET Rows]
    /\ PictureFollows
    /\ Delivered

IInv ==
    /\ Settled(term) /\ SplitIndependent
    /\ ControlTyped
    /\ Rendered
    /\ HandsHold
    /\ Phases

LEMMA Consequences == IInv => TypeOK /\ SplitIndependent /\ ScreenFollows /\ OutputShown
<1> SUFFICES ASSUME IInv PROVE TypeOK /\ SplitIndependent /\ ScreenFollows /\ OutputShown
  OBVIOUS
<1>1. TypeOK
  BY SettledOK DEF IInv, ControlTyped, Rendered, TypeOK
<1>2. ScreenFollows
  BY DEF IInv, Rendered, PictureFollows, Delivered, ScreenFollows
<1>3. OutputShown
  <2> SUFFICES ASSUME pc = "returned", outcome \in {"failed", "ended"}, ~broken, NEW r \in Rows
               PROVE  screen[r] = RowView(term, r)
    BY DEF OutputShown
  <2>1. term.dirty = {} /\ loop # "show"
    BY DEF IInv, Phases
  <2>2. hand["run"] = {} /\ hand["loop"] = {}
    BY <2>1 DEF IInv, HandsHold
  <2> QED BY <2>1, <2>2 DEF IInv, Rendered, PictureFollows, Delivered
<1> QED BY <1>1, <1>2, <1>3 DEF IInv

LEMMA Starts == Init => IInv
<1> SUFFICES ASSUME Init PROVE IInv
  OBVIOUS
<1>1. Settled(term) /\ SplitIndependent /\ term.dirty = Rows
  <2>1. term = NewTerminal /\ bytewise = term
    BY DEF Init
  <2>2. /\ NewTerminal.csi = <<>> /\ NewTerminal.pending = <<>> /\ NewTerminal.dirty = Rows
        /\ Len(<<>>) = 0
    BY DEF NewTerminal
  <2> QED BY <2>1, <2>2, NewTerminalTyped DEF Settled, Beginnings, SplitIndependent
<1>2. Other \in RowViews
  <2>1. [c \in Cols |-> Bad] \in [Cols -> Glyphs]
    BY BlankTyped
  <2>2. -2 \in -2..(NumCols - 1)
    BY Sizes
  <2> QED BY <2>1, <2>2 DEF Other, RowViews
<1>3. Rendered
  BY <1>1, <1>2 DEF Init, Rendered, PictureFollows, Delivered
<1>4. ControlTyped
  <2>1. {broken, current, cancelled} \subseteq BOOLEAN
    BY Zenon DEF Init
  <2>2. writes \in 0..MaxWrites
    BY WritesAssumption DEF Init
  <2> QED BY <2>1, <2>2 DEF Init, ControlTyped
<1> QED BY <1>1, <1>3, <1>4 DEF Init, IInv, HandsHold, Phases

\* Painting brings the picture up to date with the terminal.
LEMMA PaintedRendered ==
    ASSUME Rendered, NEW who \in {"run", "loop"}, hand[who] = {},
           NEW t, Settled(t), Follows(term, t), Painted(who, t), term' = Clean(t),
           UNCHANGED display
    PROVE  /\ Rendered' /\ Settled(term)' /\ term'.dirty = {}
           /\ \A other \in {"run", "loop"} \ {who} : hand'[other] = hand[other]
<1>1. Settled(term') /\ term'.dirty = {} /\ \A r \in Rows : RowView(term', r) = RowView(t, r)
  BY CleanSettled
<1>2. /\ frame' = [r \in Rows |-> IF r \in t.dirty THEN RowView(t, r) ELSE frame[r]]
      /\ hand' = [hand EXCEPT ![who] = t.dirty]
      /\ UNCHANGED <<screen, broken>>
  BY DEF Painted, display
<1>3. t.dirty \subseteq Rows
  BY DEF Settled, Terminals
<1>4. frame' \in [Rows -> RowViews] /\ screen' \in [Rows -> RowViews]
  BY <1>2, ViewTyped DEF Rendered
<1>5. /\ hand' \in [{"run", "loop"} -> SUBSET Rows] /\ hand'[who] = t.dirty
      /\ \A other \in {"run", "loop"} \ {who} : hand'[other] = hand[other]
  BY <1>2, <1>3 DEF Rendered
<1>6. ASSUME NEW r \in Rows PROVE frame'[r] = RowView(t, r)
  <2>1. CASE r \in t.dirty
    BY <1>2, <2>1
  <2>2. CASE r \notin t.dirty
    <3>1. r \notin term.dirty /\ RowView(t, r) = RowView(term, r)
      BY <2>2 DEF Follows
    <3> QED BY <1>2, <2>2, <3>1 DEF Rendered, PictureFollows
  <2> QED BY <2>1, <2>2
<1>7. PictureFollows'
  BY <1>1, <1>6 DEF PictureFollows, RowView
<1>8. Delivered'
  <2> SUFFICES ASSUME ~broken', NEW r \in Rows \ (hand'["run"] \cup hand'["loop"])
               PROVE  screen'[r] = frame'[r]
    BY DEF Delivered
  <2>1. r \notin t.dirty /\ r \notin hand["run"] \cup hand["loop"]
    BY <1>5
  <2> QED BY <1>2, <2>1 DEF Rendered, Delivered
<1> QED BY <1>1, <1>4, <1>5, <1>7, <1>8 DEF Rendered, Settled, Region

LEMMA SaysRendered ==
    ASSUME IInv, hand["run"] = {}, NEW message \in Seq(Bytes), Says(message), UNCHANGED display
    PROVE  /\ Rendered' /\ Settled(term)' /\ term'.dirty = {} /\ SplitIndependent'
           /\ hand'["loop"] = hand["loop"]
<1> DEFINE after == Write(term, message)
<1>1. Settled(after) /\ Follows(term, after)
  BY WriteFollows DEF IInv
<1>2. Bytewise(bytewise, message) = after
  BY BytewiseIsWrite DEF IInv, SplitIndependent
<1>3. Painted("run", after) /\ term' = Clean(after) /\ bytewise' = Clean(after)
  BY <1>2 DEF Says
<1> HIDE DEF after
<1> QED BY <1>1, <1>3, PaintedRendered DEF IInv, SplitIndependent

\* A delivery brings the screen up to date with the picture, or it fails.
LEMMA ShownRendered ==
    ASSUME Rendered, NEW who \in {"run", "loop"}, Emptied(who), Shown(who) \/ Refused,
           UNCHANGED <<term, frame>>
    PROVE  /\ Rendered' /\ hand'[who] = {}
           /\ \A other \in {"run", "loop"} \ {who} : hand'[other] = hand[other]
<1>1. /\ hand' \in [{"run", "loop"} -> SUBSET Rows] /\ hand'[who] = {}
      /\ \A other \in {"run", "loop"} \ {who} : hand'[other] = hand[other]
  BY DEF Emptied, Rendered
<1>2. PictureFollows' /\ frame' \in [Rows -> RowViews]
  BY DEF Rendered, PictureFollows, RowView
<1>3. CASE Shown(who)
  <2>1. screen' \in [Rows -> RowViews]
    BY <1>3 DEF Shown, Rendered
  <2>2. Delivered'
    <3> SUFFICES ASSUME ~broken', NEW r \in Rows \ (hand'["run"] \cup hand'["loop"])
                 PROVE  screen'[r] = frame'[r]
      BY DEF Delivered
    <3>1. r \in hand[who] \/ r \notin hand["run"] \cup hand["loop"]
      BY <1>1
    <3> QED BY <1>3, <3>1 DEF Shown, Rendered, Delivered
  <2> QED BY <1>1, <1>2, <2>1, <2>2 DEF Rendered
<1>4. CASE Refused
  BY <1>1, <1>2, <1>4 DEF Refused, Rendered, Delivered
<1> QED BY <1>3, <1>4

LEMMA SameRendered ==
    ASSUME Settled(term), SplitIndependent, Rendered, HandsHold, UNCHANGED <<text, picture, display>>
    PROVE  /\ Settled(term)' /\ SplitIndependent' /\ Rendered'
           /\ UNCHANGED <<term, hand, broken>>
BY DEF text, picture, display, Settled, Region, SplitIndependent, Rendered, PictureFollows, Delivered, RowView

\* A step of Run, or of the server it waits for, that neither writes nor delivers.
LEMMA ControlStep ==
    ASSUME IInv,
           \/ NoFont \/ Dial \/ Handshake \/ HandshakeBroken \/ Setup
           \/ ServeCancelled \/ ServeRefused \/ ServeEnds \/ LoopStops
           \/ ShellExits \/ Supersede \/ Cancel
    PROVE  IInv'
<1>1. UNCHANGED <<text, picture, display, writes>>
  BY DEF NoFont, Dial, Handshake, HandshakeBroken, Setup, ServeCancelled, ServeRefused, ServeEnds,
     LoopStops, ShellExits, Supersede, Cancel
<1>2. Settled(term)' /\ SplitIndependent' /\ Rendered' /\ UNCHANGED <<term, hand, broken>>
  BY <1>1, SameRendered DEF IInv
<1>3. {current', cancelled'} \subseteq BOOLEAN
  BY Zenon DEF NoFont, Dial, Handshake, HandshakeBroken, Setup, ServeCancelled, ServeRefused,
     ServeEnds, LoopStops, ShellExits, Supersede, Cancel, outside, IInv, ControlTyped
<1>4. ControlTyped'
  <2>1. writes' \in 0..MaxWrites /\ broken' \in BOOLEAN
    BY <1>1, <1>2 DEF IInv, ControlTyped
  <2>2. /\ pc' \in {"greet", "showGreeting", "dial", "handshake", "setup", "failed", "serve",
                   "drain", "showLast", "returned"}
        /\ outcome' \in {"none", "refused", "failed", "cancelled", "ended"}
        /\ loop' \in {"off", "wait", "show", "stopped", "failed"}
        /\ shell' \in {"none", "running", "exited"}
    BY DEF NoFont, Dial, Handshake, HandshakeBroken, Setup, ServeCancelled, ServeRefused,
       ServeEnds, LoopStops, ShellExits, Supersede, Cancel, IInv, ControlTyped
  <2> QED BY <1>3, <2>1, <2>2 DEF ControlTyped
<1>5. HandsHold'
  BY <1>2 DEF NoFont, Dial, Handshake, HandshakeBroken, Setup, ServeCancelled, ServeRefused,
     ServeEnds, LoopStops, ShellExits, Supersede, Cancel, IInv, HandsHold, Phases
<1>6. Phases'
  BY <1>2 DEF NoFont, Dial, Handshake, HandshakeBroken, Setup, ServeCancelled, ServeRefused,
     ServeEnds, LoopStops, ShellExits, Supersede, Cancel, IInv, Phases
<1> QED BY <1>2, <1>4, <1>5, <1>6 DEF IInv

\* What Run prints is painted in the same step, while nobody else writes or paints.
LEMMA SayStep ==
    ASSUME IInv, Greet \/ Fail \/ SayGoodbye
    PROVE  IInv'
<1>1. hand["run"] = {} /\ loop # "show" /\ hand["loop"] = {}
  BY DEF Greet, Fail, SayGoodbye, RenderDone, IInv, HandsHold, Phases
<1>2. PICK message \in Seq(Bytes) : Says(message)
  BY MessagesTyped DEF Greet, Fail, SayGoodbye
<1>3. UNCHANGED <<loop, shell, broken, screen, current, cancelled, writes>>
  BY DEF Greet, Fail, SayGoodbye, display, outside
<1>4. /\ Rendered' /\ Settled(term)' /\ term'.dirty = {} /\ SplitIndependent'
      /\ hand'["loop"] = {}
  BY <1>1, <1>2, <1>3, SaysRendered DEF display
<1>5. ControlTyped'
  BY <1>3 DEF Greet, Fail, SayGoodbye, IInv, ControlTyped
<1>6. HandsHold'
  BY <1>4 DEF Greet, Fail, SayGoodbye, HandsHold
<1>7. Phases'
  BY <1>1, <1>3, <1>4 DEF Greet, Fail, SayGoodbye, RenderDone, IInv, Phases
<1> QED BY <1>4, <1>5, <1>6, <1>7 DEF IInv

LEMMA ShowStep ==
    ASSUME IInv, ShowGreeting \/ ShowLast
    PROVE  IInv'
<1>1. /\ Emptied("run") /\ (Shown("run") \/ Refused)
      /\ UNCHANGED <<term, bytewise, loop, shell, frame, current, cancelled, writes>>
  BY DEF ShowGreeting, ShowLast, text, outside
<1>2. Rendered' /\ hand'["run"] = {} /\ hand'["loop"] = hand["loop"]
  BY <1>1, ShownRendered DEF IInv
<1>3. Settled(term)' /\ SplitIndependent'
  BY <1>1 DEF IInv, Settled, Region, SplitIndependent
<1>4. broken' \in BOOLEAN
  BY <1>1 DEF Shown, Refused, IInv, ControlTyped
<1>5. ControlTyped'
  BY <1>1, <1>4 DEF ShowGreeting, ShowLast, IInv, ControlTyped
<1>6. HandsHold'
  BY <1>1, <1>2 DEF IInv, HandsHold
<1>7. Phases'
  BY <1>1 DEF ShowGreeting, ShowLast, IInv, Phases
<1> QED BY <1>2, <1>3, <1>5, <1>6, <1>7 DEF IInv

\* A tick paints what the terminal has marked; the delivery comes later.
LEMMA TickStep ==
    ASSUME IInv, Tick
    PROVE  IInv'
<1>1. /\ Painted("loop", term) /\ term' = Clean(term) /\ bytewise' = Clean(bytewise)
      /\ loop = "wait" /\ loop' = "show" /\ UNCHANGED display
      /\ UNCHANGED <<pc, outcome, shell, broken, current, cancelled, writes>>
  BY DEF Tick, display, outside
<1>2. hand["loop"] = {}
  BY <1>1 DEF IInv, HandsHold
<1>3. Settled(term) /\ Follows(term, term)
  BY DEF IInv, Follows
<1>4. Rendered' /\ Settled(term)' /\ term'.dirty = {} /\ hand'["run"] = hand["run"]
  BY <1>1, <1>2, <1>3, PaintedRendered DEF IInv
<1>5. SplitIndependent'
  BY <1>1 DEF IInv, SplitIndependent
<1>6. ControlTyped'
  BY <1>1 DEF IInv, ControlTyped
<1>7. HandsHold'
  BY <1>1, <1>4 DEF IInv, HandsHold
<1>8. Phases'
  BY <1>1, <1>4 DEF IInv, Phases
<1> QED BY <1>4, <1>5, <1>6, <1>7, <1>8 DEF IInv

LEMMA LoopShowsStep ==
    ASSUME IInv, LoopShows
    PROVE  IInv'
<1>1. /\ Emptied("loop") /\ (Shown("loop") \/ Refused)
      /\ loop = "show" /\ loop' \in {"wait", "failed"}
      /\ UNCHANGED <<term, bytewise, pc, outcome, shell, frame, current, cancelled, writes>>
  BY DEF LoopShows, text, outside
<1>2. Rendered' /\ hand'["loop"] = {} /\ hand'["run"] = hand["run"]
  BY <1>1, ShownRendered DEF IInv
<1>3. Settled(term)' /\ SplitIndependent'
  BY <1>1 DEF IInv, Settled, Region, SplitIndependent
<1>4. broken' \in BOOLEAN
  BY <1>1 DEF Shown, Refused, IInv, ControlTyped
<1>5. ControlTyped'
  BY <1>1, <1>4 DEF IInv, ControlTyped
<1>6. HandsHold'
  BY <1>1, <1>2 DEF IInv, HandsHold
<1>7. Phases'
  BY <1>1 DEF IInv, Phases
<1> QED BY <1>2, <1>3, <1>5, <1>6, <1>7 DEF IInv

\* The shell writes whenever it likes, between a painting and its delivery too.
LEMMA ShellStep ==
    ASSUME IInv, writes > 0, NEW chunk \in Chunks[writes], ShellWrites(chunk)
    PROVE  IInv'
<1>1. chunk \in Seq(Bytes)
  <2>1. writes \in 1..MaxWrites
    BY WritesAssumption DEF IInv, ControlTyped
  <2> QED BY <2>1, WritesAssumption
<1>2. /\ term' = Write(term, chunk) /\ bytewise' = Bytewise(bytewise, chunk)
      /\ shell = "running" /\ writes' = writes - 1
      /\ UNCHANGED <<pc, outcome, loop, shell, frame, hand, screen, broken, current, cancelled>>
  BY DEF ShellWrites, picture, display, outside
<1>3. Settled(term') /\ Follows(term, term')
  BY <1>1, <1>2, WriteFollows DEF IInv
<1>4. SplitIndependent'
  <2>1. Bytewise(term, chunk) = Write(term, chunk)
    BY <1>1, BytewiseIsWrite DEF IInv
  <2> QED BY <1>2, <2>1 DEF IInv, SplitIndependent
<1>5. Rendered'
  <2>1. PictureFollows'
    BY <1>2, <1>3 DEF IInv, Rendered, PictureFollows, Follows, RowView
  <2> QED BY <1>2, <2>1 DEF IInv, Rendered, Delivered
<1>6. ControlTyped'
  <2>1. writes' \in 0..MaxWrites
    BY <1>2, WritesAssumption DEF IInv, ControlTyped
  <2> QED BY <1>2, <2>1 DEF IInv, ControlTyped
<1>7. HandsHold'
  BY <1>2 DEF IInv, HandsHold
<1>8. Phases'
  BY <1>2 DEF IInv, Phases
<1> QED BY <1>3, <1>4, <1>5, <1>6, <1>7, <1>8 DEF IInv, Settled, Region

LEMMA Steady == IInv /\ [Next]_vars => IInv'
<1> SUFFICES ASSUME IInv, [Next]_vars PROVE IInv'
  OBVIOUS
<1>1. CASE Greet \/ Fail \/ SayGoodbye
  BY <1>1, SayStep
<1>2. CASE ShowGreeting \/ ShowLast
  BY <1>2, ShowStep
<1>3. CASE \/ NoFont \/ Dial \/ Handshake \/ HandshakeBroken \/ Setup
           \/ ServeCancelled \/ ServeRefused \/ ServeEnds \/ LoopStops
           \/ ShellExits \/ Supersede \/ Cancel
  BY <1>3, ControlStep
<1>4. CASE Tick
  BY <1>4, TickStep
<1>5. CASE LoopShows
  BY <1>5, LoopShowsStep
<1>6. ASSUME writes > 0, NEW chunk \in Chunks[writes], ShellWrites(chunk) PROVE IInv'
  BY <1>6, ShellStep
<1>7. CASE UNCHANGED vars
  <2>1. UNCHANGED <<text, picture, display, pc, outcome, loop, shell, current, cancelled, writes>>
    BY <1>7 DEF vars, outside
  <2>2. Settled(term)' /\ SplitIndependent' /\ Rendered' /\ UNCHANGED <<term, hand, broken>>
    BY <2>1, SameRendered DEF IInv
  <2> QED BY <2>1, <2>2 DEF IInv, ControlTyped, HandsHold, Phases
<1> QED BY <1>1, <1>2, <1>3, <1>4, <1>5, <1>6, <1>7 DEF Next, Run, Loop

\* Run, renderLoop and the shell keep the invariant: the terminal is between two
\* writes, and the picture, the screen and the rows in hand account for its rows.
THEOREM Invariance == Spec => []IInv
<1>1. Init => IInv
  BY Starts
<1>2. IInv /\ [Next]_vars => IInv'
  BY Steady
<1> QED BY <1>1, <1>2, PTL DEF Spec

\* Every variable keeps its type, whatever the shell writes: no sequence of bytes
\* moves the cursor, a saved cursor or the scroll region off the screen, puts a
\* glyph elsewhere, or has the terminal hold back more than two bytes of a rune.
THEOREM TypeCorrect == Spec => []TypeOK
<1>1. IInv => TypeOK
  BY Consequences
<1> QED BY <1>1, Invariance, PTL

\* What the shell writes may be cut into writes anywhere, within a rune or a
\* control sequence too: the terminal becomes what it becomes byte by byte.
THEOREM SplitIndependentCorrect == Spec => []SplitIndependent
<1>1. IInv => SplitIndependent
  BY Consequences
<1> QED BY <1>1, Invariance, PTL

\* A row that is not marked and in nobody's hand is on the screen as the terminal
\* has it, wherever Run and renderLoop are and whatever is written meanwhile.
THEOREM ScreenFollowsCorrect == Spec => []ScreenFollows
<1>1. IInv => ScreenFollows
  BY Consequences
<1> QED BY <1>1, Invariance, PTL

\* Once Run has said its last words and returned, all that was printed is on the
\* screen, unless a delivery failed.
THEOREM OutputShownCorrect == Spec => []OutputShown
<1>1. IInv => OutputShown
  BY Consequences
<1> QED BY <1>1, Invariance, PTL
=============================================================================
