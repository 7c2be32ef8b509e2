-------------------------- MODULE GeometrySession --------------------------
(***************************************************************************)
(* The geometry test (internal/geometry/session.go) with the drawing of    *)
(* its target (ShowCalibrationTarget of internal/display/render.go): the   *)
(* operator changes a size with the arrow keys until the coloured edges of *)
(* the target coincide with those of the monitor.  readLoop queues the     *)
(* keys, Run takes them and draws.                                         *)
(*                                                                         *)
(* A picture has one cell per pixel.  Abstracted: the grid and the cross,  *)
(* which have the background's colour here, the edges' thickness, and the  *)
(* label's text; a picture is drawn without losses (see DisplayChannel).   *)
(***************************************************************************)
EXTENDS Integers, Sequences, SequencesExt

CONSTANTS
    Initial,    \* the size of the display when the session starts
    Minimum,    \* minimumGeometry, 64 in the code
    Maximum,    \* maximumGeometry, 8192 in the code
    Steps,      \* pixels per arrow key: 10, with Shift 1, with Control 100
    InputSize,  \* capacity of the input channel, 32 in the code
    Label,      \* size of the label's bitmap
    Modulus,    \* coordinates on the wire are 16 bits wide
    MaxKeys     \* bound: keys handled

ASSUME TestAssumption ==
    /\ {Initial, Label} \subseteq [width : Nat, height : Nat]
    /\ Minimum \in Nat \ {0} /\ Maximum \in Nat /\ Minimum <= Maximum /\ Steps \subseteq Int

Size(w, h) == [width |-> w, height |-> h]

\* The pixels of the largest target, and those a label may draw beside it.
Extent == Maximum + Label.width
Pixels == (0..Extent - 1) \X (0..Extent - 1)

VARIABLES
    typed,    \* Session.input
    taken,    \* keys handled so far
    test,     \* Run: "new", "drawing", "waiting", "ended"
    size,     \* width and height
    cleared,  \* clearWidth and clearHeight
    picture,  \* the terminal: what each pixel shows
    revoked   \* the session's context is cancelled

testVars == <<typed, taken, test, size, cleared, picture, revoked>>

-----------------------------------------------------------------------------
(* Keys *)

Arrows       == {"left", "right", "up", "down"}
GeometryKeys == Arrows \cup {"r", "enter"}

Key(name, step) == [name |-> name, step |-> step]

\* HandleInput: readLoop never waits; a full channel drops the key.
HandleInput(key) ==
    /\ taken < MaxKeys
    /\ taken' = taken + 1
    /\ test # "ended"
    /\ typed' = IF key.name \in GeometryKeys /\ Len(typed) < InputSize
                THEN Append(typed, key) ELSE typed
    /\ UNCHANGED <<test, size, cleared, picture, revoked>>

Least(a, b)   == IF a < b THEN a ELSE b
Most(a, b)    == IF a > b THEN a ELSE b
Bounded(length) == Least(Most(length, Minimum), Maximum)

Moved(name, less, more, step) ==
    CASE name = less -> -step [] name = more -> step [] OTHER -> 0

\* adjustGeometry.
Adjusted(s, key) ==
    IF key.name = "r"
    THEN Size(Bounded(Initial.width), Bounded(Initial.height))
    ELSE Size(Bounded(s.width + Moved(key.name, "left", "right", key.step)),
              Bounded(s.height + Moved(key.name, "up", "down", key.step)))

\* The clearing follows the current size only.
ClearedCurrent(c, s) == s

\* The largest size visited.
Cleared(c, s) == Size(Most(c.width, s.width), Most(c.height, s.height))

-----------------------------------------------------------------------------
(* The target *)

Fill(x, y, w, h, colour) ==
    [x |-> x, y |-> y, w |-> w, h |-> h, colour |-> colour]

\* Go divides towards zero.
Halved(n) == IF n < 0 THEN -((-n) \div 2) ELSE n \div 2

\* The label is a bitmap; each piece of it is placed by its own coordinates,
\* which wrap.
LabelPieces(s) ==
    LET x == Halved(s.width - Label.width)
        y == Halved(s.height - Label.height)
    IN  SetToSeq({Fill((x + i) % Modulus, (y + j) % Modulus, 1, 1, "label") :
                     i \in 0..Label.width - 1, j \in 0..Label.height - 1})

\* ShowCalibrationTarget: black over everything drawn before, the background,
\* the four edges, the label.
Target(s, c) ==
    <<Fill(0, 0, c.width, c.height, "black"),
      Fill(0, 0, s.width, s.height, "background"),
      Fill(0, 0, s.width, 1, "top"),
      Fill(s.width - 1, 0, 1, s.height, "right"),
      Fill(0, s.height - 1, s.width, 1, "bottom"),
      Fill(0, 0, 1, s.height, "left")>> \o LabelPieces(s)

Paints(op, p) == p[1] \in op.x..op.x + op.w - 1 /\ p[2] \in op.y..op.y + op.h - 1

\* The latest operation on a pixel is the one it shows.
Painted(old, ops) ==
    [p \in Pixels |->
        LET layers == {i \in 1..Len(ops) : Paints(ops[i], p)}
        IN  IF layers = {} THEN old[p] ELSE ops[Max(layers)].colour]

-----------------------------------------------------------------------------
(* Run *)

\* An initial size below the minimum is refused.
Begin ==
    /\ test = "new"
    /\ test' = IF Initial.width < Minimum \/ Initial.height < Minimum THEN "ended" ELSE "drawing"
    /\ UNCHANGED <<typed, taken, size, cleared, picture, revoked>>

\* OnFrame of startGeometryTest and ShowCalibrationTarget: a superseded
\* session draws nothing, a failing write leaves the target unfinished.
Draw ==
    /\ test = "drawing"
    /\ LET ops == Target(size, cleared)
       IN  \/ /\ ~revoked
              /\ picture' = Painted(picture, ops)
              /\ test' = "waiting"
           \/ /\ \E sent \in 0..(IF revoked THEN 0 ELSE Len(ops) - 1) :
                     picture' = Painted(picture, SubSeq(ops, 1, sent))
              /\ test' = "ended"
    /\ UNCHANGED <<typed, taken, size, cleared, revoked>>

\* Enter is logged, and a key that changes nothing draws nothing.
TakeKey ==
    /\ test = "waiting" /\ typed # <<>>
    /\ typed' = Tail(typed)
    /\ LET key == Head(typed)
           new == Adjusted(size, key)
       IN  IF key.name = "enter" \/ new = size
           THEN UNCHANGED <<test, size, cleared>>
           ELSE /\ size' = new
                /\ cleared' = Cleared(cleared, new)
                /\ test' = "drawing"
    /\ UNCHANGED <<taken, picture, revoked>>

\* The daemon replaces the session; a waiting Run returns.
Revoke ==
    /\ ~revoked
    /\ revoked' = TRUE
    /\ UNCHANGED <<typed, taken, test, size, cleared, picture>>

Return ==
    /\ test = "waiting" /\ revoked
    /\ test' = "ended"
    /\ UNCHANGED <<typed, taken, size, cleared, picture, revoked>>

TestInit ==
    /\ typed = <<>> /\ taken = 0
    /\ test = "new" /\ size = Initial /\ cleared = Initial
    /\ picture = [p \in Pixels |-> "black"]
    /\ revoked = FALSE

TestNext ==
    \/ \E name \in GeometryKeys \cup {"other"}, step \in Steps : HandleInput(Key(name, step))
    \/ Begin
    \/ Draw
    \/ TakeKey
    \/ Revoke
    \/ Return

TestSpec == TestInit /\ [][TestNext]_testVars

-----------------------------------------------------------------------------
(* Properties *)

EdgeOf(s, p) ==
    IF p[1] = 0 THEN "left"
    ELSE IF p[2] = s.height - 1 THEN "bottom"
    ELSE IF p[1] = s.width - 1 THEN "right"
    ELSE IF p[2] = 0 THEN "top" ELSE "background"

Inside(s, p) == p[1] < s.width /\ p[2] < s.height

\* The target on the monitor is the target of the size that Enter would log:
\* whatever sizes were visited before, in whatever steps, no edge of a larger
\* one is left ("This prevents old edge markers from remaining visible when
\* the candidate geometry is reduced", src/internal/display/render.go).
TargetIsCurrent ==
    test = "waiting" => \A p \in Pixels :
        picture[p] # "label"
            => picture[p] = IF Inside(size, p) THEN EdgeOf(size, p) ELSE "black"
=============================================================================
