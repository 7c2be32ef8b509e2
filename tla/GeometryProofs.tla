--------------------------- MODULE GeometryProofs ---------------------------
(***************************************************************************)
(* The geometry test leaves nothing of a larger target on the monitor, for *)
(* any sizes, steps and label; and every terminal is served by the session *)
(* that the documented precedence names, which can start unless it is a    *)
(* geometry test on too small a display, for any configuration that        *)
(* Validate accepts.                                                       *)
(***************************************************************************)
EXTENDS GeometrySession, ConfigRouting, FiniteSetTheorems, SequenceTheorems,
        NaturalsInduction, TLAPS

-----------------------------------------------------------------------------
(* GeometrySession: the operations of a target, and which is the last.      *)

Keys == [name : GeometryKeys \cup {"other"}, step : Int]
TestSizes == [width : Nat, height : Nat]

Positive(s)  == s.width > 0 /\ s.height > 0
Within(s, c) == s.width <= c.width /\ s.height <= c.height

LEMMA LargestExists ==
    ASSUME NEW n \in Nat, NEW I \in SUBSET (1..n), I # {}
    PROVE  Max(I) \in I /\ \A i \in I : Max(I) >= i
<1> DEFINE less == OpToRel(<, Nat)
           T == {n - i : i \in I}
<1>1. \A x, y \in Nat : <<y, x>> \in less <=> y < x
  BY DEF OpToRel
<1>2. IsWellFoundedOn(less, Nat)
  BY NatLessThanWellFounded
<1>3. T \subseteq Nat /\ T # {}
  <2>1. \A i \in I : n - i \in Nat
    OBVIOUS
  <2>2. PICK i \in I : TRUE
    OBVIOUS
  <2>3. n - i \in T
    OBVIOUS
  <2> QED
    BY <2>1, <2>3
<1> HIDE DEF less, T
<1>4. \E x \in T : \A y \in T : ~(<<y, x>> \in less)
  BY <1>2, <1>3, WFMin
<1>5. PICK x \in T : \A y \in T : ~(y < x)
  BY <1>1, <1>3, <1>4
<1>6. PICK m \in I : x = n - m
  BY DEF T
<1>7. \A i \in I : n - i \in T
  BY DEF T
<1>8. \A i \in I : m >= i
  BY <1>5, <1>6, <1>7
<1> QED
  BY <1>8 DEF Max

LEMMA PiecesOfLabel ==
    ASSUME NEW s
    PROVE  \E n \in Nat : /\ DOMAIN LabelPieces(s) = 1..n
                          /\ \E S : /\ LabelPieces(s) \in [1..n -> S]
                                    /\ \A op \in S : op.colour = "label"
<1> DEFINE x == Halved(s.width - Label.width)
           y == Halved(s.height - Label.height)
           Piece(i, j) == Fill((x + i) % Modulus, (y + j) % Modulus, 1, 1, "label")
           I == 0..Label.width - 1
           J == 0..Label.height - 1
           S == {Piece(i, j) : i \in I, j \in J}
           f == [q \in I \X J |-> Piece(q[1], q[2])]
<1>1. LabelPieces(s) = SetToSeq(S)
  BY DEF LabelPieces
<1>2. \A op \in S : op.colour = "label"
  BY DEF Fill
<1> HIDE DEF x, y, Piece
<1>3. IsFiniteSet(I) /\ IsFiniteSet(J)
  <2>1. Label.width - 1 \in Int /\ Label.height - 1 \in Int
    BY TestAssumption
  <2> QED
    BY <2>1, FS_Interval
<1>4. IsFiniteSet(I \X J)
  BY <1>3, FS_Product
<1> HIDE DEF I, J
<1>5. f \in Surjection(I \X J, S)
  <2>1. f \in [I \X J -> S]
    OBVIOUS
  <2>2. ASSUME NEW op \in S
        PROVE  \E q \in I \X J : f[q] = op
    <3>1. PICK i \in I, j \in J : op = Piece(i, j)
      OBVIOUS
    <3>2. <<i, j>> \in I \X J /\ f[<<i, j>>] = Piece(i, j)
      OBVIOUS
    <3> QED
      BY <3>1, <3>2
  <2> QED
    BY <2>1, <2>2 DEF Surjection
<1>6. IsFiniteSet(S)
  BY <1>4, <1>5, FS_Surjection
<1> HIDE DEF S, f
<1>7. Cardinality(S) \in Nat /\ Bijection(1..Cardinality(S), S) # {}
  BY <1>6, FS_CardinalityType DEF ExistsBijection
<1>8. \E g \in [1..Cardinality(S) -> S] : IsInjective(g)
  BY <1>7 DEF Bijection, Injection
<1>9. SetToSeq(S) \in [1..Cardinality(S) -> S]
  BY <1>8 DEF SetToSeq
<1> QED
  BY <1>1, <1>2, <1>7, <1>9

LEMMA Layers ==
    ASSUME NEW s, NEW c
    PROVE  LET ops == Target(s, c)
           IN  /\ Len(ops) \in Nat /\ Len(ops) >= 6
               /\ ops[1] = Fill(0, 0, c.width, c.height, "black")
               /\ ops[2] = Fill(0, 0, s.width, s.height, "background")
               /\ ops[3] = Fill(0, 0, s.width, 1, "top")
               /\ ops[4] = Fill(s.width - 1, 0, 1, s.height, "right")
               /\ ops[5] = Fill(0, s.height - 1, s.width, 1, "bottom")
               /\ ops[6] = Fill(0, 0, 1, s.height, "left")
               /\ \A i \in 7..Len(ops) : ops[i].colour = "label"
<1> DEFINE a == Fill(0, 0, c.width, c.height, "black")
           b == Fill(0, 0, s.width, s.height, "background")
           d == Fill(0, 0, s.width, 1, "top")
           e == Fill(s.width - 1, 0, 1, s.height, "right")
           f == Fill(0, s.height - 1, s.width, 1, "bottom")
           g == Fill(0, 0, 1, s.height, "left")
           fills == <<a, b, d, e, f, g>>
           pieces == LabelPieces(s)
<1>1. Target(s, c) = fills \o pieces
  BY DEF Target
<1>1a. PICK n \in Nat : \E S : pieces \in [1..n -> S] /\ \A op \in S : op.colour = "label"
  BY PiecesOfLabel
<1>2. PICK S : pieces \in [1..n -> S] /\ \A op \in S : op.colour = "label"
  BY <1>1a
<1> HIDE DEF a, b, d, e, f, g, pieces
<1> DEFINE X == {a, b, d, e, f, g} \cup S
<1>3. fills \in Seq(X) /\ Len(fills) = 6
  OBVIOUS
<1>4. pieces \in Seq(X) /\ Len(pieces) = n
  BY <1>2
<1>5. /\ fills[1] = a /\ fills[2] = b /\ fills[3] = d
      /\ fills[4] = e /\ fills[5] = f /\ fills[6] = g
  OBVIOUS
<1> HIDE DEF fills, X
<1> HIDE DEF X
<1>6. /\ Len(fills \o pieces) = 6 + n
      /\ \A i \in 1..6 + n : (fills \o pieces)[i] = IF i <= 6 THEN fills[i] ELSE pieces[i - 6]
  <2> HIDE DEF fills
  <2>1. /\ Len(fills \o pieces) = Len(fills) + Len(pieces)
        /\ \A i \in 1..Len(fills) + Len(pieces) : (fills \o pieces)[i] =
              IF i <= Len(fills) THEN fills[i] ELSE pieces[i - Len(fills)]
    BY <1>3, <1>4, ConcatProperties
  <2> QED
    BY <2>1, <1>3, <1>4
<1>7. \A i \in 7..6 + n : (fills \o pieces)[i].colour = "label"
  <2> TAKE i \in 7..6 + n
  <2>1. i - 6 \in 1..n /\ (fills \o pieces)[i] = pieces[i - 6]
    BY <1>6
  <2> QED
    BY <2>1, <1>2
<1>8. \A i \in 1..6 : (fills \o pieces)[i] = fills[i]
  BY <1>6
<1> HIDE DEF fills
<1>9. Target(s, c) = fills \o pieces /\ 6 + n \in Nat /\ 6 + n >= 6
  BY <1>1
<1> DEFINE ops == fills \o pieces
<1>10. Len(ops) = 6 + n /\ \A i \in 7..Len(ops) : ops[i].colour = "label"
  BY <1>6, <1>7, Zenon
<1>11. /\ ops[1] = fills[1] /\ ops[2] = fills[2] /\ ops[3] = fills[3]
       /\ ops[4] = fills[4] /\ ops[5] = fills[5] /\ ops[6] = fills[6]
  <2> HIDE DEF ops
  <2>1. \A i \in 1..6 : ops[i] = fills[i]
    BY <1>8 DEF ops
  <2> QED
    BY <2>1
<1> HIDE DEF ops
<1> QED
  BY <1>5, <1>9, <1>10, <1>11 DEF a, b, d, e, f, g, ops

\* What a pixel shows after a target was drawn over an older picture.
LEMMA PixelDrawn ==
    ASSUME NEW s \in TestSizes, Positive(s), NEW c \in TestSizes, Within(s, c),
           NEW old, NEW p \in Pixels
    PROVE  LET shown == Painted(old, Target(s, c))[p]
           IN  \/ shown = "label"
               \/ Inside(s, p) /\ shown = EdgeOf(s, p)
               \/ ~Inside(s, p) /\ Inside(c, p) /\ shown = "black"
               \/ ~Inside(c, p) /\ shown = old[p]
<1> DEFINE ops == Target(s, c)
           n == Len(ops)
           I == {i \in 1..n : Paints(ops[i], p)}
           m == Max(I)
<1>1. Painted(old, ops)[p] = IF I = {} THEN old[p] ELSE ops[m].colour
  BY DEF Painted
<1>2. n \in Nat /\ n >= 6
  BY Layers
<1>3. /\ ops[1] = Fill(0, 0, c.width, c.height, "black")
      /\ ops[2] = Fill(0, 0, s.width, s.height, "background")
      /\ ops[3] = Fill(0, 0, s.width, 1, "top")
      /\ ops[4] = Fill(s.width - 1, 0, 1, s.height, "right")
      /\ ops[5] = Fill(0, s.height - 1, s.width, 1, "bottom")
      /\ ops[6] = Fill(0, 0, 1, s.height, "left")
      /\ \A i \in 7..n : ops[i].colour = "label"
  BY Layers
<1> HIDE DEF ops, n
<1>4. /\ p[1] \in Nat /\ p[2] \in Nat /\ s.width \in Nat /\ s.height \in Nat
      /\ c.width \in Nat /\ c.height \in Nat /\ s.width > 0 /\ s.height > 0
  BY TestAssumption DEF Positive, Pixels, Extent, TestSizes
<1>5. /\ Paints(ops[1], p) <=> Inside(c, p)
      /\ Paints(ops[2], p) <=> Inside(s, p)
      /\ Paints(ops[3], p) <=> p[1] < s.width /\ p[2] = 0
      /\ Paints(ops[4], p) <=> p[1] = s.width - 1 /\ p[2] < s.height
      /\ Paints(ops[5], p) <=> p[1] < s.width /\ p[2] = s.height - 1
      /\ Paints(ops[6], p) <=> p[1] = 0 /\ p[2] < s.height
  BY <1>3, <1>4 DEF Paints, Fill, Inside
<1>6. /\ ops[1].colour = "black" /\ ops[2].colour = "background" /\ ops[3].colour = "top"
      /\ ops[4].colour = "right" /\ ops[5].colour = "bottom" /\ ops[6].colour = "left"
  BY <1>3 DEF Fill
<1>7. CASE I = {}
  <2>1. ~Inside(c, p)
    BY <1>2, <1>5, <1>7
  <2> QED
    BY <2>1, <1>1, <1>7 DEF ops
<1>8. CASE I # {}
  <2>1. m \in I /\ \A i \in I : m >= i
    BY <1>2, <1>8, LargestExists
  <2>2. CASE m > 6
    <3>1. ops[m].colour = "label"
      BY <1>2, <1>3, <2>1, <2>2
    <3> QED
      BY <3>1, <1>1, <1>8 DEF ops
  <2>3. CASE m <= 6
    <3> HIDE DEF m
    <3>1. m \in 1..6 /\ Paints(ops[m], p)
      BY <1>2, <2>1, <2>3
    <3>2. \A i \in 1..6 : Paints(ops[i], p) => i <= m
      BY <1>2, <2>1
    <3>3. \/ Inside(s, p) /\ ops[m].colour = EdgeOf(s, p)
          \/ ~Inside(s, p) /\ Inside(c, p) /\ ops[m].colour = "black"
      <4>1. CASE ~Inside(s, p)
        <5>1. /\ ~Paints(ops[2], p) /\ ~Paints(ops[3], p) /\ ~Paints(ops[4], p)
              /\ ~Paints(ops[5], p) /\ ~Paints(ops[6], p)
          BY <1>4, <1>5, <4>1 DEF Inside
        <5>2. \A i \in 2..6 : ~Paints(ops[i], p)
          BY <5>1
        <5>3. m = 1
          BY <3>1, <5>2
        <5> QED
          BY <5>3, <3>1, <1>5, <1>6, <4>1
      <4>2. CASE Inside(s, p)
        <5>1. p[1] = 0 => m = 6
          BY <3>1, <3>2, <1>4, <1>5, <4>2 DEF Inside
        <5>2. p[1] # 0 /\ p[2] = s.height - 1 => m = 5
          BY <3>1, <3>2, <1>4, <1>5, <4>2 DEF Inside
        <5>3. p[1] # 0 /\ p[2] # s.height - 1 /\ p[1] = s.width - 1 => m = 4
          BY <3>1, <3>2, <1>4, <1>5, <4>2 DEF Inside
        <5>4. p[1] # 0 /\ p[2] # s.height - 1 /\ p[1] # s.width - 1 /\ p[2] = 0 => m = 3
          BY <3>1, <3>2, <1>4, <1>5, <4>2 DEF Inside
        <5>5. p[1] # 0 /\ p[2] # s.height - 1 /\ p[1] # s.width - 1 /\ p[2] # 0 => m = 2
          BY <3>1, <3>2, <1>4, <1>5, <4>2 DEF Inside
        <5> QED
          BY <5>1, <5>2, <5>3, <5>4, <5>5, <1>6, <4>2 DEF EdgeOf
      <4> QED
        BY <4>1, <4>2
    <3> QED
      BY <3>3, <1>1, <1>8 DEF ops, m
  <2>4. m \in Nat
    BY <1>2, <2>1
  <2> QED
    BY <2>2, <2>3, <2>4
<1> QED
  BY <1>7, <1>8

-----------------------------------------------------------------------------
\* Everything drawn so far is in what the next target clears, but for labels.
TestInv ==
    /\ size \in TestSizes /\ cleared \in TestSizes /\ Within(size, cleared)
    /\ typed \in Seq(Keys)
    /\ test = "new" => size = Initial
    /\ test \in {"drawing", "waiting"} => Positive(size)
    /\ test # "ended" => \A p \in Pixels : ~Inside(cleared, p) => picture[p] \in {"black", "label"}
    /\ TargetIsCurrent

LEMMA TestStarts == TestInit => TestInv
<1> SUFFICES ASSUME TestInit PROVE TestInv
  OBVIOUS
<1>1. size \in TestSizes /\ cleared \in TestSizes /\ Within(size, cleared)
  BY TestAssumption DEF TestInit, TestSizes, Within
<1>2. typed \in Seq(Keys) /\ test = "new" /\ size = Initial /\ \A p \in Pixels : picture[p] = "black"
  BY DEF TestInit
<1> QED
  BY <1>1, <1>2 DEF TestInv, TargetIsCurrent

LEMMA AdjustedSize ==
    ASSUME NEW s \in TestSizes, NEW key \in Keys
    PROVE  Adjusted(s, key) \in TestSizes /\ Positive(Adjusted(s, key))
<1>1. \A n \in Int : Bounded(n) \in Nat /\ Bounded(n) > 0
  BY TestAssumption DEF Bounded, Least, Most
<1>2. \A less, more : Moved(key.name, less, more, key.step) \in Int
  BY DEF Moved, Keys
<1>3. s.width \in Int /\ s.height \in Int /\ Initial.width \in Int /\ Initial.height \in Int
  BY TestAssumption DEF TestSizes
<1> QED
  BY <1>1, <1>2, <1>3 DEF Adjusted, Size, TestSizes, Positive

LEMMA ClearedGrows ==
    ASSUME NEW c \in TestSizes, NEW s \in TestSizes
    PROVE  Cleared(c, s) \in TestSizes /\ Within(s, Cleared(c, s)) /\ Within(c, Cleared(c, s))
BY DEF Cleared, TestSizes, Within, Most, Size

LEMMA TestStep == TestInv /\ [TestNext]_testVars => TestInv'
<1> SUFFICES ASSUME TestInv, [TestNext]_testVars
             PROVE  TestInv'
  OBVIOUS
<1> USE DEF TestInv
<1>1. ASSUME NEW name \in GeometryKeys \cup {"other"}, NEW step \in Steps,
             HandleInput(Key(name, step))
      PROVE  TestInv'
  <2>1. Key(name, step) \in Keys
    BY TestAssumption DEF Key, Keys
  <2>2. typed' \in Seq(Keys)
    BY <1>1, <2>1 DEF HandleInput
  <2>3. UNCHANGED <<test, size, cleared, picture>>
    BY <1>1 DEF HandleInput
  <2> QED
    BY <2>2, <2>3 DEF TargetIsCurrent, Positive
<1>2. CASE Begin
  <2>1. test' = "ended" \/ (test' = "drawing" /\ Positive(size))
    BY <1>2, TestAssumption DEF Begin, Positive
  <2>2. test = "new" /\ UNCHANGED <<typed, size, cleared, picture>>
    BY <1>2 DEF Begin
  <2> QED
    BY <2>1, <2>2 DEF TargetIsCurrent, Positive
<1>3. CASE Draw
  <2>1. /\ test = "drawing" /\ UNCHANGED <<typed, size, cleared>>
        /\ \/ test' = "waiting" /\ picture' = Painted(picture, Target(size, cleared))
           \/ test' = "ended"
    BY <1>3 DEF Draw
  <2>2. CASE test' = "ended"
    BY <2>1, <2>2 DEF TargetIsCurrent
  <2>3. CASE test' = "waiting" /\ picture' = Painted(picture, Target(size, cleared))
    <3>1. ASSUME NEW p \in Pixels
          PROVE  /\ ~Inside(cleared, p) => picture'[p] \in {"black", "label"}
                 /\ picture'[p] # "label"
                      => picture'[p] = IF Inside(size, p) THEN EdgeOf(size, p) ELSE "black"
      <4>1. \/ picture'[p] = "label"
            \/ Inside(size, p) /\ picture'[p] = EdgeOf(size, p)
            \/ ~Inside(size, p) /\ Inside(cleared, p) /\ picture'[p] = "black"
            \/ ~Inside(cleared, p) /\ picture'[p] = picture[p]
        BY <2>1, <2>3, PixelDrawn
      <4>2. ~Inside(cleared, p) => picture[p] \in {"black", "label"}
        BY <2>1
      <4>3. Inside(size, p) => Inside(cleared, p)
        BY TestAssumption DEF Inside, Within, TestSizes, Pixels, Extent
      <4> QED
        BY <4>1, <4>2, <4>3
    <3> QED
      BY <2>1, <2>3, <3>1 DEF TargetIsCurrent, Positive
  <2> QED
    BY <2>1, <2>2, <2>3
<1>4. CASE TakeKey
  <2> DEFINE key == Head(typed)
             new == Adjusted(size, key)
  <2>1. test = "waiting" /\ typed # <<>> /\ typed' = Tail(typed) /\ picture' = picture
    BY <1>4 DEF TakeKey
  <2>2. key \in Keys /\ typed' \in Seq(Keys)
    BY <2>1
  <2>3. CASE UNCHANGED <<test, size, cleared>>
    BY <2>1, <2>2, <2>3 DEF TargetIsCurrent, Positive
  <2>4. CASE size' = new /\ cleared' = Cleared(cleared, new) /\ test' = "drawing"
    <3>1. new \in TestSizes /\ Positive(new)
      BY <2>2, AdjustedSize
    <3> HIDE DEF new
    <3>2. cleared' \in TestSizes /\ Within(size', cleared') /\ Within(cleared, cleared')
      BY <3>1, <2>4, ClearedGrows
    <3>3. \A p \in Pixels : ~Inside(cleared', p) => ~Inside(cleared, p)
      BY <3>2, TestAssumption, SMTT(30) DEF Inside, Within, TestSizes, Pixels, Extent
    <3> QED
      BY <2>1, <2>2, <2>4, <3>1, <3>2, <3>3 DEF TargetIsCurrent, Positive
  <2> QED
    BY <1>4, <2>3, <2>4 DEF TakeKey
<1>5. CASE Revoke
  BY <1>5 DEF Revoke, TargetIsCurrent, Positive
<1>6. CASE Return
  BY <1>6 DEF Return, TargetIsCurrent, Positive
<1>7. CASE UNCHANGED testVars
  BY <1>7 DEF testVars, TargetIsCurrent, Positive
<1> QED
  BY <1>1, <1>2, <1>3, <1>4, <1>5, <1>6, <1>7 DEF TestNext

\* No edge of a larger target is left on the monitor, whatever sizes were
\* visited in whatever steps.
THEOREM TargetIsCurrentCorrect == TestSpec => []TargetIsCurrent
<1>1. TestInv => TargetIsCurrent
  BY DEF TestInv
<1> QED
  BY <1>1, TestStarts, TestStep, PTL DEF TestSpec

-----------------------------------------------------------------------------
(* ConfigRouting *)

\* A display is connected with a valid configuration and has a usable size.
ConfiguredAs(c, d) ==
    \/ c = NoConfig /\ d = NoDisplay
    \/ /\ c.loaded /\ Valid(c)
       /\ d # NoDisplay => Usable(d.reported) /\ Usable(d.size)

Configured == ConfiguredAs(config, display)

LEMMA ConfiguredInit == ConfigInit => Configured
BY DEF ConfigInit, Configured, ConfiguredAs

LEMMA ConfiguredStep == Configured /\ [ConfigNext]_configVars => Configured'
<1> SUFFICES ASSUME Configured, [ConfigNext]_configVars
             PROVE  Configured'
  OBVIOUS
<1>1. ASSUME NEW c \in Configs, ~config.loaded, Load(c)
      PROVE  ConfiguredAs(config', display')
  <2>1. config = NoConfig /\ display = NoDisplay
    BY <1>1 DEF Configured, ConfiguredAs
  <2>2. config'.loaded /\ Valid(config')
    BY <1>1 DEF Load, WithDefaults
  <2>3. display' = NoDisplay
    BY <1>1, <2>1 DEF Load
  <2> QED
    BY <2>2, <2>3 DEF ConfiguredAs
<1>2. ASSUME NEW report, Connect(report)
      PROVE  ConfiguredAs(config', display')
  <2>1. config.loaded /\ Valid(config) /\ config' = config
    BY <1>2 DEF Configured, ConfiguredAs, Connect, NoConfig
  <2> DEFINE reported == IF Usable(report) THEN report ELSE config.fallback
             given == IF Usable(config.override) THEN config.override ELSE reported
  <2>2. Usable(reported) /\ Usable(given)
    BY <2>1 DEF Valid
  <2>3. display' = [reported |-> reported, size |-> given]
    BY <1>2 DEF Connect
  <2> HIDE DEF reported, given
  <2>4. display'.reported = reported /\ display'.size = given
    BY <2>3
  <2> QED
    BY <2>1, <2>2, <2>4 DEF ConfiguredAs
<1>3. CASE UNCHANGED configVars
  BY <1>3 DEF configVars, Configured
<1>4. ConfiguredAs(config', display') => Configured'
  BY DEF Configured
<1> QED
  BY <1>1, <1>2, <1>3, <1>4 DEF ConfigNext

-----------------------------------------------------------------------------
LEMMA UsableIsPositive ==
    ASSUME NEW area, Usable(area)
    PROVE  AtLeast(1, area)
<1>1. \A side \in Sides : side >= 1
  BY DEF Sides
<1> QED
  BY <1>1, Zenon DEF Usable, AtLeast

\* What Validate lets through can start, but a geometry test on too small a
\* display.
LEMMA ValidStarts ==
    ASSUME NEW session, ValidSession(session),
           Usable(display.reported), Usable(display.size)
    PROVE  Startable(session) \/ TooSmallToTest(session)
<1>1. session.type = "ssh" => session.hostKeys # {}
  BY FS_EmptySet DEF ValidSession
<1>2. session.type \notin Graphical => Geometry(session) = display.size
  BY DEF Geometry
<1>3. ASSUME session.type \in Graphical
      PROVE  Usable(Geometry(session)) \/ (session.type = "vnc" /\ session.mode = "vnc")
  <2>1. ValidMode(session)
    BY <1>3 DEF ValidSession
  <2>2. CASE session.mode = "manual"
    BY <1>3, <2>1, <2>2 DEF ValidMode, Geometry
  <2>3. CASE session.mode = "terminal"
    BY <1>3, <2>3 DEF Geometry
  <2>4. CASE session.mode = "current"
    BY <1>3, <2>4 DEF Geometry
  <2>5. session.mode = "vnc" => session.type = "vnc"
    BY <2>1 DEF ValidMode
  <2> QED
    BY <2>1, <2>2, <2>3, <2>4, <2>5 DEF ValidMode
<1>4. session.type \in Known /\ (session.type = "ssh" => session.secrets # {})
  BY DEF ValidSession
<1>5. CASE session.type = "geometry-test"
  <2>1. session.type \notin Graphical
    BY <1>5 DEF Graphical
  <2> QED
    BY <1>1, <1>2, <1>4, <1>5, <2>1 DEF Startable, TooSmallToTest
<1>6. CASE session.type # "geometry-test"
  <2>1. Usable(Geometry(session)) \/ (session.type = "vnc" /\ session.mode = "vnc")
    BY <1>2, <1>3
  <2>2. AtLeast(1, Geometry(session)) \/ (session.type = "vnc" /\ session.mode = "vnc")
    BY <2>1, UsableIsPositive
  <2> QED
    BY <1>1, <1>4, <1>6, <2>2, Zenon DEF Startable
<1> QED
  BY <1>5, <1>6

\* A lookup finds what matches when case is ignored, all of it when the keys
\* stay distinct.
LEMMA LookupMatches ==
    ASSUME NEW values, NEW key
    PROVE  /\ Lookup(values, key) \subseteq {values[k] : k \in DOMAIN values}
           /\ Unambiguous(values) => Lookup(values, key) = Matching(values, key)
BY DEF Lookup, Matching, Unambiguous

LEMMA OneMatch ==
    ASSUME NEW values, NEW key, Unambiguous(values)
    PROVE  Matching(values, key) = {} \/ \E k \in DOMAIN values : Matching(values, key) = {values[k]}
BY DEF Matching, Unambiguous

\* What the terminal's route and the default route say, in the order of Resolve.
Chosen(terminal, card, present) ==
    IF ~present THEN {IF terminal.noCard # Unset THEN terminal.noCard ELSE config.default.noCard}
    ELSE IF Lookup(terminal.cards, card) # {} THEN Lookup(terminal.cards, card)
    ELSE IF Lookup(config.default.cards, card) # {} THEN Lookup(config.default.cards, card)
    ELSE {IF terminal.cardPresent # Unset THEN terminal.cardPresent
          ELSE config.default.cardPresent}

RoutesOf(serial) ==
    IF Lookup(config.terminals, serial) = {} THEN {NoRoute} ELSE Lookup(config.terminals, serial)

LEMMA ResolveChooses ==
    \A serial, card, present :
       Resolve(config, serial, card, present) =
           UNION {Chosen(t, card, present) : t \in RoutesOf(serial)}
BY DEF Resolve, Chosen, RoutesOf

LEMMA ResolveOne ==
    ASSUME NEW serial, NEW card, NEW present, NEW t, RoutesOf(serial) = {t}
    PROVE  Resolve(config, serial, card, present) = Chosen(t, card, present)
<1>1. Resolve(config, serial, card, present) = UNION {Chosen(r, card, present) : r \in {t}}
  BY ResolveChooses
<1> QED
  BY <1>1

LEMMA NoRouteValid == ValidRoute(config, NoRoute)
BY DEF ValidRoute, NoRoute

\* Whatever a valid route chooses is a session of the configuration.
LEMMA ChosenDefined ==
    ASSUME Valid(config), NEW t, ValidRoute(config, t), NEW card, NEW present \in BOOLEAN
    PROVE  Chosen(t, card, present) # {} /\ Chosen(t, card, present) \subseteq DOMAIN config.sessions
<1>1. ValidRoute(config, config.default) /\ config.default.noCard # Unset
      /\ config.default.cardPresent # Unset
  BY DEF Valid
<1>2. Lookup(t.cards, card) \subseteq DOMAIN config.sessions
  BY LookupMatches DEF ValidRoute
<1>3. Lookup(config.default.cards, card) \subseteq DOMAIN config.sessions
  BY <1>1, LookupMatches DEF ValidRoute
<1>4. {t.noCard, t.cardPresent} \subseteq DOMAIN config.sessions \cup {Unset}
  BY DEF ValidRoute
<1>5. {config.default.noCard, config.default.cardPresent} \subseteq DOMAIN config.sessions
  BY <1>1 DEF ValidRoute
<1> QED
  BY <1>2, <1>3, <1>4, <1>5 DEF Chosen

LEMMA Defined ==
    ASSUME Valid(config), NEW serial, NEW card, NEW present \in BOOLEAN
    PROVE  /\ Resolve(config, serial, card, present) # {}
           /\ Resolve(config, serial, card, present) \subseteq DOMAIN config.sessions
<1>1. \A t \in RoutesOf(serial) : ValidRoute(config, t)
  BY NoRouteValid, LookupMatches DEF Valid, RoutesOf
<1>2. RoutesOf(serial) # {}
  BY DEF RoutesOf
<1>3. \A t \in RoutesOf(serial) : /\ Chosen(t, card, present) # {}
                        /\ Chosen(t, card, present) \subseteq DOMAIN config.sessions
  BY <1>1, ChosenDefined
<1>4. PICK t \in RoutesOf(serial) : TRUE
  BY <1>2
<1>5. PICK name : name \in Chosen(t, card, present)
  BY <1>3, <1>4
<1>6. name \in Resolve(config, serial, card, present)
  BY <1>4, <1>5, ResolveChooses
<1>7. \A x \in Resolve(config, serial, card, present) : x \in DOMAIN config.sessions
  BY <1>3, ResolveChooses
<1> QED
  BY <1>6, <1>7

\* The least candidate is the one with which the list begins.
First(list) == CHOOSE i \in 1..4 : list[i] # {} /\ \A j \in 1..i - 1 : list[j] = {}

LEMMA FirstOf ==
    ASSUME NEW list, list[4] # {}
    PROVE  list[First(list)] = IF list[1] # {} THEN list[1] ELSE IF list[2] # {} THEN list[2]
                               ELSE IF list[3] # {} THEN list[3] ELSE list[4]
<1> DEFINE Leads(i) == list[i] # {} /\ \A j \in 1..i - 1 : list[j] = {}
<1>1. \E i \in 1..4 : Leads(i)
  <2>1. list[1] # {} => Leads(1)
    OBVIOUS
  <2>2. list[1] = {} /\ list[2] # {} => Leads(2)
    OBVIOUS
  <2>3. list[1] = {} /\ list[2] = {} /\ list[3] # {} => Leads(3)
    OBVIOUS
  <2>4. list[1] = {} /\ list[2] = {} /\ list[3] = {} => Leads(4)
    OBVIOUS
  <2> HIDE DEF Leads
  <2> QED
    BY <2>1, <2>2, <2>3, <2>4
<1>2. First(list) \in 1..4 /\ Leads(First(list))
  BY <1>1 DEF First
<1> QED
  BY <1>2

\* Resolve follows the documented precedence.
LEMMA Precedence ==
    ASSUME Valid(config), NEW serial, NEW card, NEW present \in BOOLEAN,
           Unambiguous(config.terminals), Unambiguous(config.default.cards),
           \A t \in DOMAIN config.terminals : Unambiguous(config.terminals[t].cards)
    PROVE  LET list == Candidates(serial, card, present)
           IN  Resolve(config, serial, card, present) = list[First(list)]
<1> DEFINE routes == Matching(config.terminals, serial)
           State(r) == (IF present THEN {r.cardPresent} ELSE {r.noCard}) \ {Unset}
           a == IF present THEN UNION {Matching(r.cards, card) : r \in routes} ELSE {}
           b == IF present THEN Matching(config.default.cards, card) ELSE {}
           c == UNION {State(r) : r \in routes}
           d == State(config.default)
           Best == IF a # {} THEN a ELSE IF b # {} THEN b ELSE IF c # {} THEN c ELSE d
<1>1. Candidates(serial, card, present) = <<a, b, c, d>>
  BY DEF Candidates
<1>2. d # {}
  BY DEF Valid
<1>3. Lookup(config.terminals, serial) = routes
  BY LookupMatches
<1>4. Lookup(config.default.cards, card) = Matching(config.default.cards, card)
  BY LookupMatches
<1>5. Resolve(config, serial, card, present) = Best
  <2>1. CASE routes = {}
    <3>1. Resolve(config, serial, card, present) = Chosen(NoRoute, card, present)
      BY <2>1, <1>3, ResolveOne DEF RoutesOf
    <3>2. Lookup(NoRoute.cards, card) = {} /\ NoRoute.noCard = Unset /\ NoRoute.cardPresent = Unset
      BY DEF NoRoute, Lookup
    <3>3. a = {} /\ c = {}
      BY <2>1
    <3>4. CASE present
      <4>1. b = Matching(config.default.cards, card) /\ d = {config.default.cardPresent}
        BY <3>4 DEF Valid
      <4> QED
        BY <3>1, <3>2, <3>3, <3>4, <4>1, <1>4 DEF Chosen
    <3>5. CASE ~present
      <4>1. b = {} /\ d = {config.default.noCard}
        BY <3>5 DEF Valid
      <4> QED
        BY <3>1, <3>2, <3>3, <3>5, <4>1 DEF Chosen
    <3> QED
      BY <3>4, <3>5
  <2>2. ASSUME NEW k \in DOMAIN config.terminals, routes = {config.terminals[k]}
        PROVE  Resolve(config, serial, card, present) = Best
    <3> DEFINE r == config.terminals[k]
    <3>1. Resolve(config, serial, card, present) = Chosen(r, card, present)
      BY <2>2, <1>3, ResolveOne DEF RoutesOf
    <3>2. Lookup(r.cards, card) = Matching(r.cards, card)
      BY LookupMatches
    <3>3. c = State(r) /\ a = (IF present THEN Matching(r.cards, card) ELSE {})
      BY <2>2
    <3> HIDE DEF r
    <3>4. CASE present
      <4>1. /\ a = Matching(r.cards, card) /\ b = Matching(config.default.cards, card)
            /\ c = {r.cardPresent} \ {Unset} /\ d = {config.default.cardPresent}
        BY <3>3, <3>4 DEF Valid
      <4> QED
        BY <3>1, <3>2, <3>4, <4>1, <1>4 DEF Chosen
    <3>5. CASE ~present
      <4>1. a = {} /\ b = {} /\ c = {r.noCard} \ {Unset} /\ d = {config.default.noCard}
        BY <3>3, <3>5 DEF Valid
      <4> QED
        BY <3>1, <3>5, <4>1 DEF Chosen
    <3> QED
      BY <3>4, <3>5
  <2> QED
    BY <2>1, <2>2, OneMatch
<1>6. <<a, b, c, d>>[1] = a /\ <<a, b, c, d>>[2] = b /\ <<a, b, c, d>>[3] = c /\ <<a, b, c, d>>[4] = d
  OBVIOUS
<1> HIDE DEF a, b, c, d
<1>7. <<a, b, c, d>>[First(<<a, b, c, d>>)] = Best
  BY <1>2, <1>6, FirstOf
<1> QED
  BY <1>1, <1>5, <1>7

\* Every terminal is routed to a defined session that can start, but for a
\* geometry test on too small a display, for any sessions, routes and keys.
THEOREM TerminalsAreServedCorrect == ConfigSpec => []TerminalsAreServed
<1>1. Configured => TerminalsAreServed
  <2> SUFFICES ASSUME Configured, display # NoDisplay
               PROVE  TerminalsAreServed
    BY DEF TerminalsAreServed
  <2>1. Valid(config) /\ Usable(display.reported) /\ Usable(display.size)
    BY DEF Configured, ConfiguredAs
  <2>2. \A name \in DOMAIN config.sessions :
            Startable(config.sessions[name]) \/ TooSmallToTest(config.sessions[name])
    BY <2>1, ValidStarts DEF Valid
  <2> QED
    BY <2>1, <2>2, Defined, Precedence DEF TerminalsAreServed, First
<1> QED
  BY <1>1, ConfiguredInit, ConfiguredStep, PTL DEF ConfigSpec
=============================================================================
