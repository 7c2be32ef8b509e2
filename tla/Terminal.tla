------------------------------ MODULE Terminal ------------------------------
(***************************************************************************)
(* The xterm-compatible terminal of an SSH session: terminal.go as         *)
(* operators on a record.  Write consumes what the remote shell prints; it *)
(* decodes UTF-8 that may be split between two writes, runs escape and     *)
(* control sequences, and marks every row whose picture it changes.        *)
(*                                                                         *)
(* Abstracted: colours and attributes (the pen), runes of no width, and    *)
(* the other runes but for one representative of each width: a printable   *)
(* ASCII byte is narrow and stands for itself, the rune Lead More More is  *)
(* wide, and a malformed one becomes Bad, which is narrow.                 *)
(***************************************************************************)
EXTENDS Integers, SequencesExt, FiniteSetsExt

CONSTANTS
    NumRows, NumCols,   \* dimensions
    MaxInt,             \* largest value of an int
    Printable           \* the printable ASCII bytes

ASSUME SizeAssumption ==
    /\ NumRows \in Nat \ {0}
    /\ NumCols \in Nat \ {0}
    /\ MaxInt \in Nat
    /\ MaxInt >= NumRows /\ MaxInt >= NumCols

Rows == 0..(NumRows - 1)
Cols == 0..(NumCols - 1)

\* What a cell can show.  Cont is the right half of a wide rune.
Blank == "blank"
Cont  == "cont"
Wide  == "wide"
Bad   == "bad"

\* Bytes: a character or the name of one, "(" for each that selects a character
\* set.  Lead begins a rune of three bytes, and More continues it.
Lead     == "lead"
More     == "more"
Controls == {"ESC", "BEL", "CR", "LF", "BS", "TAB"}
Bytes    == Printable \cup Controls \cup {Lead, More}
Glyphs   == Bytes \cup {Blank, Cont, Wide, Bad}

\* What the next byte continues.
States == {"ground", "escape", "csi", "osc", "oscEscape", "charset"}

Grids == [Rows -> [Cols -> Glyphs]]

Terminals ==
    [cells : Grids, x : Cols, y : Rows, savedX : Cols, savedY : Rows,
     top : Rows, bottom : Rows, state : States, csi : Seq(Bytes), pending : Seq(Bytes),
     dirty : SUBSET Rows]

IsWide(r) == r = Wide

BlankRow == [c \in Cols |-> Blank]

NewTerminal ==
    [cells |-> [r \in Rows |-> BlankRow], x |-> 0, y |-> 0, savedX |-> 0, savedY |-> 0,
     top |-> 0, bottom |-> NumRows - 1, state |-> "ground", csi |-> <<>>, pending |-> <<>>,
     dirty |-> Rows]

Clamp(v, hi) == Max({0, Min({v, hi})})

Mark(t, rows) == [t EXCEPT !.dirty = @ \cup (rows \cap Rows)]

-----------------------------------------------------------------------------
\* The cursor and the scroll region.

MoveCursorUnmarked(t, row, col) ==
    LET m == [t EXCEPT !.y = Clamp(row, NumRows - 1), !.x = Clamp(col, NumCols - 1)]
    IN  Mark(m, {m.y})
MoveCursor(t, row, col) ==
    LET m == [t EXCEPT !.y = Clamp(row, NumRows - 1), !.x = Clamp(col, NumCols - 1)]
    IN  Mark(m, {t.y, m.y})

\* Rows from..to move up or down by one; the row that is left becomes blank.
ShiftUp(t, from, to) ==
    Mark([t EXCEPT !.cells = [r \in Rows |->
            CASE r = to -> BlankRow [] r \in from..(to - 1) -> @[r + 1] [] OTHER -> @[r]]],
         from..to)
ShiftDown(t, from, to) ==
    Mark([t EXCEPT !.cells = [r \in Rows |->
            CASE r = from -> BlankRow [] r \in (from + 1)..to -> @[r - 1] [] OTHER -> @[r]]],
         from..to)

ScrollUp(t)   == ShiftUp(t, t.top, t.bottom)
ScrollDown(t) == ShiftDown(t, t.top, t.bottom)

InRegion(t)   == t.y \in t.top..t.bottom
InsertLine(t) == IF InRegion(t) THEN ShiftDown(t, t.y, t.bottom) ELSE t
DeleteLine(t) == IF InRegion(t) THEN ShiftUp(t, t.y, t.bottom) ELSE t

\* The sequences that move whole rows, by their final bytes, n times over.
MoveRows(t, final) ==
    CASE final = "S" -> ScrollUp(t)
      [] final = "T" -> ScrollDown(t)
      [] final = "L" -> InsertLine(t)
      [] final = "M" -> DeleteLine(t)

Repeated(t, final, n) ==
    LET times == Max({0, n})
        after[i \in 0..times] == IF i = 0 THEN t ELSE MoveRows(after[i - 1], final)
    IN  after[times]

LineFeed(t) ==
    IF t.y = t.bottom
    THEN ScrollUp(Mark(t, {t.y}))
    ELSE MoveCursor(t, t.y + 1, t.x)

NewLine(t) == LineFeed([t EXCEPT !.x = 0])

ReverseIndex(t) ==
    IF t.y = t.top THEN ScrollDown(t) ELSE MoveCursor(t, t.y - 1, t.x)

SetRegion(t, top, bottom) ==
    IF top >= 0 /\ bottom < NumRows /\ top < bottom
    THEN MoveCursor([t EXCEPT !.top = top, !.bottom = bottom], 0, 0)
    ELSE t

-----------------------------------------------------------------------------
\* Cells.

PutCell(t, row, col, r) == [t EXCEPT !.cells[row][col] = r]

\* The other half of a wide rune goes with the cell that is overwritten.
ClearWideCell(t, row, col) ==
    IF row \notin Rows \/ col \notin Cols THEN t
    ELSE LET r    == t.cells[row][col]
             left == IF r = Cont /\ col > 0 THEN {col - 1} ELSE {}
             next == IF IsWide(r) /\ col + 1 \in Cols THEN {col + 1} ELSE {}
         IN  [t EXCEPT !.cells[row] = [c \in Cols |->
                 IF c \in {col} \cup left \cup next THEN Blank ELSE @[c]]]

PutNarrow(t, r) == PutCell(ClearWideCell(t, t.y, t.x), t.y, t.x, r)

PutWide(t) ==
    LET cleared == ClearWideCell(ClearWideCell(t, t.y, t.x), t.y, t.x + 1)
        half    == PutCell(cleared, t.y, t.x, Wide)
    IN  IF t.x + 1 \in Cols THEN PutCell(half, t.y, t.x + 1, Cont) ELSE half

LineFullLate(col) == col > NumCols
LineFull(col)     == col >= NumCols

\* putRune: a wide rune does not start in the last column, and the cursor wraps
\* as soon as the line is full.
PutRune(t, r) ==
    LET width == IF IsWide(r) THEN 2 ELSE 1
        room  == IF IsWide(r) /\ t.x = NumCols - 1 THEN NewLine(t) ELSE t
        drawn == Mark(IF IsWide(r) THEN PutWide(room) ELSE PutNarrow(room, r), {room.y})
        next  == room.x + width
    IN  IF LineFull(next) THEN NewLine(drawn) ELSE [drawn EXCEPT !.x = next]

EraseCells(t, row, cols) ==
    Mark([t EXCEPT !.cells[row] = [c \in Cols |-> IF c \in cols THEN Blank ELSE @[c]]], {row})

EraseLine(t, mode) ==
    EraseCells(t, t.y, CASE mode = 0 -> t.x..(NumCols - 1) [] mode = 1 -> 0..t.x [] OTHER -> Cols)

EraseRows(t, rows) ==
    Mark([t EXCEPT !.cells = [r \in Rows |-> IF r \in rows THEN BlankRow ELSE @[r]]], rows)

EraseDisplay(t, mode) ==
    CASE mode = 0 -> EraseLine(EraseRows(t, (t.y + 1)..(NumRows - 1)), 0)
      [] mode = 1 -> EraseLine(EraseRows(t, 0..(t.y - 1)), 1)
      [] mode \in {2, 3} -> EraseRows(t, Rows)
      [] OTHER -> t

\* Characters of the cursor's row to the right of the cursor.
Fitting(t, count) == Min({Max({count, 1}), NumCols - t.x})

InsertChars(t, count) ==
    LET n == Fitting(t, count)
    IN  Mark([t EXCEPT !.cells[t.y] = [c \in Cols |->
            IF c < t.x THEN @[c] ELSE IF c < t.x + n THEN Blank ELSE @[c - n]]], {t.y})

DeleteChars(t, count) ==
    LET n == Fitting(t, count)
    IN  Mark([t EXCEPT !.cells[t.y] = [c \in Cols |->
            IF c < t.x THEN @[c] ELSE IF c + n \in Cols THEN @[c + n] ELSE Blank]], {t.y})

EraseChars(t, count) == EraseCells(t, t.y, t.x..(t.x + Fitting(t, count) - 1))

ResetAll(t) ==
    [NewTerminal EXCEPT !.dirty = Rows, !.state = t.state, !.csi = t.csi, !.pending = t.pending]

-----------------------------------------------------------------------------
\* Sequences.

DigitSeq == <<"0", "1", "2", "3", "4", "5", "6", "7", "8", "9">>
Digits   == ToSet(DigitSeq)
Digit(d) == CHOOSE v \in 0..9 : DigitSeq[v + 1] = d

\* Atoi: what is no number is zero, what is too large or too small is the
\* largest or the smallest int.
Magnitude(part) ==
    LET value[i \in 0..Len(part)] ==
            IF i = 0 THEN 0 ELSE Min({MaxInt + 1, 10 * value[i - 1] + Digit(part[i])})
    IN  IF ToSet(part) \subseteq Digits THEN value[Len(part)] ELSE 0

Signs == {"+", "-"}
Number(part) ==
    LET digits == IF part # <<>> /\ Head(part) \in Signs THEN Tail(part) ELSE part
    IN  IF part # <<>> /\ Head(part) = "-" THEN -Magnitude(digits)
        ELSE Min({MaxInt, Magnitude(digits)})

\* The sum or the difference of two ints wraps.
Wrap(v) ==
    CASE v > MaxInt         -> v - 2 * (MaxInt + 1)
      [] v < -(MaxInt + 1)  -> v + 2 * (MaxInt + 1)
      [] OTHER              -> v

\* Parameter index, from 1, of a control sequence; zero and nothing mean the default.
Param(csi, index, default) ==
    LET marks == {i \in DOMAIN csi : csi[i] = ";"}
        part  == {i \in DOMAIN csi \ marks : Cardinality({j \in marks : j < i}) = index - 1}
        value == IF part = {} THEN 0 ELSE Number(SubSeq(csi, Min(part), Max(part)))
    IN  IF value = 0 THEN default ELSE value

Private == {"?", ">", "<", "!"}
Trimmed(csi) ==
    LET keep == {i \in DOMAIN csi : csi[i] \notin Private}
    IN  IF keep = {} THEN <<>> ELSE SubSeq(csi, Min(keep), Len(csi))

ExecuteCSI(t, final) ==
    LET csi == Trimmed(t.csi)
        n   == Param(csi, 1, 1)
        z   == Param(csi, 1, 0)
    IN  CASE final = "A" -> MoveCursor(t, Wrap(t.y - n), t.x)
          [] final \in {"B", "e"} -> MoveCursor(t, Wrap(t.y + n), t.x)
          [] final \in {"C", "a"} -> MoveCursor(t, t.y, Wrap(t.x + n))
          [] final = "D" -> MoveCursor(t, t.y, Wrap(t.x - n))
          [] final = "E" -> MoveCursor(t, Wrap(t.y + n), 0)
          [] final = "F" -> MoveCursor(t, Wrap(t.y - n), 0)
          [] final \in {"G", "GRAVE"} -> MoveCursor(t, t.y, Wrap(n - 1))
          [] final = "d" -> MoveCursor(t, Wrap(n - 1), t.x)
          [] final \in {"H", "f"} -> MoveCursor(t, Wrap(n - 1), Wrap(Param(csi, 2, 1) - 1))
          [] final = "J" -> EraseDisplay(t, z)
          [] final = "K" -> EraseLine(t, z)
          [] final = "s" -> [t EXCEPT !.savedX = t.x, !.savedY = t.y]
          [] final = "u" -> MoveCursor(t, t.savedY, t.savedX)
          [] final = "r" -> SetRegion(t, Wrap(n - 1), Wrap(Param(csi, 2, NumRows) - 1))
          [] final \in {"S", "T", "L", "M"} -> Repeated(t, final, n)
          [] final = "@" -> InsertChars(t, n)
          [] final = "P" -> DeleteChars(t, n)
          [] final = "X" -> EraseChars(t, n)
          [] OTHER -> t

Escape(t, b) ==
    LET g == [t EXCEPT !.state = "ground"]
    IN  CASE b = "[" -> [t EXCEPT !.state = "csi", !.csi = <<>>]
          [] b = "]" -> [t EXCEPT !.state = "osc"]
          [] b = "(" -> [t EXCEPT !.state = "charset"]
          [] b = "7" -> [g EXCEPT !.savedX = t.x, !.savedY = t.y]
          [] b = "8" -> MoveCursor(g, t.savedY, t.savedX)
          [] b = "D" -> LineFeed(g)
          [] b = "E" -> NewLine(g)
          [] b = "M" -> ReverseIndex(g)
          [] b = "c" -> ResetAll(g)
          [] OTHER -> g

Control(t, b) ==
    CASE b = "CR"  -> MoveCursor(t, t.y, 0)
      [] b = "LF"  -> NewLine(t)
      [] b = "BS"  -> MoveCursor(t, t.y, t.x - 1)
      [] b = "TAB" -> MoveCursor(t, t.y, (t.x \div 8 + 1) * 8)
      [] OTHER     -> t

\* The final bytes of a control sequence; the others are collected, escape and
\* the bytes of runes among them.
Final(b) == b \notin Controls \cup {Lead, More, ";", "("} \cup Private \cup Digits \cup Signs

Collected(t, b) == IF Len(t.csi) < 128 THEN [t EXCEPT !.csi = Append(@, b)] ELSE t

-----------------------------------------------------------------------------
\* Write.

\* utf8.FullRune and DecodeRune at the head of rest.
FullRune(rest) ==
    ~(Head(rest) = Lead /\ Len(rest) < 3 /\ ToSet(Tail(rest)) \subseteq {More})
WellFormed(rest) == Len(rest) >= 3 /\ SubSeq(rest, 1, 3) = <<Lead, More, More>>

\* One round of the loop at rest: the new terminal and the bytes it consumed.
RuneRound(t, rest) ==
    IF ~FullRune(rest)
    THEN [t |-> [t EXCEPT !.pending = rest], used |-> Len(rest)]
    ELSE IF WellFormed(rest)
         THEN [t |-> PutRune(t, Wide), used |-> 3]
         ELSE [t |-> PutRune(t, Bad), used |-> 1]

ByteRound(t, b) ==
    CASE t.state = "ground" /\ b = "ESC" -> [t EXCEPT !.state = "escape"]
      [] t.state = "ground" /\ b # "ESC" -> IF b \in Controls THEN Control(t, b) ELSE PutRune(t, b)
      [] t.state = "escape"  -> Escape(t, b)
      [] t.state = "csi"     -> IF Final(b)
                                THEN [ExecuteCSI(t, b) EXCEPT !.state = "ground", !.csi = <<>>]
                                ELSE Collected(t, b)
      [] t.state = "osc"     -> CASE b = "BEL" -> [t EXCEPT !.state = "ground"]
                                  [] b = "ESC" -> [t EXCEPT !.state = "oscEscape"]
                                  [] OTHER     -> t
      [] t.state = "oscEscape" -> [t EXCEPT !.state = IF b = "\\" THEN "ground" ELSE "osc"]
      [] t.state = "charset" -> [t EXCEPT !.state = "ground"]

Round(acc, rest) ==
    IF acc.skip > 0 THEN [acc EXCEPT !.skip = @ - 1]
    ELSE IF acc.t.state = "ground" /\ Head(rest) \in {Lead, More}
         THEN LET r == RuneRound(acc.t, rest) IN [t |-> r.t, skip |-> r.used - 1]
         ELSE [t |-> ByteRound(acc.t, Head(rest)), skip |-> 0]

\* What a write left undecoded comes before the next one.
DataForgetting(t, p) == p
Data(t, p) == t.pending \o p

Write(t, p) ==
    LET data == Data(t, p)
        after[i \in 0..Len(data)] ==
            IF i = 0 THEN [t |-> [t EXCEPT !.pending = <<>>], skip |-> 0]
            ELSE Round(after[i - 1], SubSeq(data, i, Len(data)))
    IN  after[Len(data)].t

-----------------------------------------------------------------------------
\* What a row looks like: its cells, and the cursor when it is on it.

RowView(t, row) == [cells |-> t.cells[row], cursor |-> IF row = t.y THEN t.x ELSE -1]
=============================================================================
