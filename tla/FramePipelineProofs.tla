------------------------ MODULE FramePipelineProofs ------------------------
(***************************************************************************)
(* Proofs that the frame queue of internal/vnc/session.go loses no wakeup, *)
(* leaves no hole in a complete image and forgets no cell, for every row   *)
(* of cells, every bound and every interleaving.                           *)
(***************************************************************************)
EXTENDS FramePipeline, FiniteSetTheorems, WellFoundedInduction, TLAPS

\* NoLostWakeup is not inductive: frameLoop may go back to wait without taking
\* anything because latestFrame is nil.  It holds because nothing is pending
\* then, which in turn needs every framebuffer to have a cell.
FrameExists   == 0 \in DOMAIN frame
NothingBefore == latest = NoFrame => pending = <<>>
WInv          == FrameExists /\ NothingBefore /\ NoLostWakeup

LEMMA BlankExists ==
    ASSUME NEW w \in Widths
    PROVE  0 \in DOMAIN Blank(w)
BY WidthAssumption DEF Blank

LEMMA NoFrameEmpty ==
    ASSUME NEW f, 0 \in DOMAIN f
    PROVE  f # NoFrame
BY DEF NoFrame

LEMMA InitWakeup == Init => WInv
BY BlankExists DEF Init, WInv, FrameExists, NothingBefore, NoLostWakeup

LEMMA StepWakeup == WInv /\ [Next]_vars => WInv'
<1> SUFFICES ASSUME WInv, [Next]_vars PROVE WInv'
    OBVIOUS
<1> USE DEF WInv
<1>1. CASE UNCHANGED vars
    BY <1>1 DEF vars, reader, queue, display, FrameExists, NothingBefore, NoLostWakeup
<1>2. CASE Read
    <2>1. UNCHANGED <<readerPc, queue, frameWake, requestPc, display>>
        BY <1>2 DEF Read, ReadRaw, ReadCopy, ReadDesktopSize, Reconnect
    <2>2. NothingBefore' /\ NoLostWakeup'
        BY <2>1 DEF queue, display, NothingBefore, NoLostWakeup
    <2>3. FrameExists'
        <3>1. CASE \E lo, hi \in Row, color \in Palette[Plain] : lo <= hi /\ ReadRaw(lo, hi, color)
            BY <3>1 DEF ReadRaw, FrameExists
        <3>2. CASE \E lo, hi, src \in Row : lo <= hi /\ ReadCopy(lo, hi, src)
            BY <3>2 DEF ReadCopy, FrameExists
        <3>3. CASE \E w \in Widths : ReadDesktopSize(w) \/ Reconnect(w)
            BY <3>3, BlankExists DEF ReadDesktopSize, Reconnect, FrameExists
        <3> QED BY <1>2, <3>1, <3>2, <3>3 DEF Read
    <2> QED BY <2>2, <2>3
<1>3. CASE EnqueueFrame
    <2>1. readerPc' = "wake" /\ frame' = frame
        BY <1>3 DEF EnqueueFrame
    <2>2. 0 \in DOMAIN latest'
        BY <1>3 DEF EnqueueFrame, Redrawn, FrameExists
    <2>3. latest' # NoFrame
        BY <2>2, NoFrameEmpty
    <2> QED BY <2>1, <2>3 DEF FrameExists, NothingBefore, NoLostWakeup
<1>4. CASE ReaderWakes
    BY <1>4 DEF ReaderWakes, Woken, queue, display, FrameExists, NothingBefore, NoLostWakeup
<1>5. CASE ReaderStops
    BY <1>5 DEF ReaderStops, Reading, queue, display, FrameExists, NothingBefore, NoLostWakeup
<1>6. CASE \E c \in Row : Damage(c)
    BY <1>6 DEF Damage, reader, queue, FrameExists, NothingBefore, NoLostWakeup
<1>7. CASE RequestFullFrame
    <2>1. CASE latest = NoFrame
        BY <1>7, <2>1
        DEF RequestFullFrame, reader, queue, display, FrameExists, NothingBefore, NoLostWakeup
    <2>2. CASE latest # NoFrame
        BY <1>7, <2>2
        DEF RequestFullFrame, reader, FrameExists, NothingBefore, NoLostWakeup
    <2> QED BY <2>1, <2>2
<1>8. CASE RequestWakes
    BY <1>8 DEF RequestWakes, Woken, reader, queue, display, FrameExists, NothingBefore, NoLostWakeup
<1>9. CASE Loop
    <2>1. CASE LoopWakes
        BY <2>1 DEF LoopWakes, reader, queue, FrameExists, NothingBefore, NoLostWakeup
    <2>2. CASE TakeNothing
        BY <2>2 DEF TakeNothing, reader, queue, FrameExists, NothingBefore, NoLostWakeup
    <2>3. CASE TakePending
        BY <2>3 DEF TakePending, reader, FrameExists, NothingBefore, NoLostWakeup
    <2>4. CASE Deliver
        BY <2>4 DEF Deliver, reader, queue, FrameExists, NothingBefore, NoLostWakeup
    <2> QED BY <1>9, <2>1, <2>2, <2>3, <2>4 DEF Loop
<1>10. CASE DeliverFails
    BY <1>10 DEF DeliverFails, reader, queue, FrameExists, NothingBefore, NoLostWakeup
<1>11. CASE Cancel
    BY <1>11 DEF Cancel, reader, queue, display, FrameExists, NothingBefore, NoLostWakeup
<1>12. CASE LoopStops
    BY <1>12 DEF LoopStops, reader, queue, FrameExists, NothingBefore, NoLostWakeup
<1> QED
    BY <1>1, <1>2, <1>3, <1>4, <1>5, <1>6, <1>7, <1>8, <1>9, <1>10, <1>11, <1>12 DEF Next

\* Nothing that the reader or a resynchronization queues is left lying: while
\* updates are pending and frameLoop waits or draws, a wakeup is on its way.
THEOREM NoLostWakeupCorrect == Spec => []NoLostWakeup
<1>1. WInv => NoLostWakeup
    BY DEF WInv
<1> QED BY InitWakeup, StepWakeup, <1>1, PTL DEF Spec

-----------------------------------------------------------------------------
(* The invariants: what is in flight fits the framebuffer it belongs to.   *)

Pixels == Colors \cup {Black}

Image(w) == [0..(w - 1) -> Pixels]

\* The updates of a framebuffer of w cells.
RegionsOf(w) ==
    {u \in [lo : 0..(w - 1), hi : 0..(w - 1), copy : BOOLEAN, src : 0..(w - 1)] :
        u.lo <= u.hi /\ (u.copy => ~Plain /\ u.src + (u.hi - u.lo) < w)}

Budgets == [rects : Nat, resizes : Nat, damage : Nat, failures : Nat, plain : DOMAIN Palette]

\* The framebuffer; a message that resized it covers all of it.
FrameFits ==
    \E w \in Widths :
        /\ frame \in Image(w)
        /\ changed \in Seq(RegionsOf(w))
        /\ received \subseteq 0..(w - 1)
        /\ resized => Covered(changed) = 0..(w - 1)

\* The queue; what will be drawn as a complete image covers all of it.
WillBeImage == pendingResized \/ (firstFrame /\ loopPc # "show")

QueueFits ==
    \/ latest = NoFrame /\ pending = <<>> /\ ~pendingResized
    \/ \E w \in Widths :
          /\ latest \in Image(w)
          /\ pending \in Seq(RegionsOf(w)) /\ Len(pending) <= MaxPending
          /\ WillBeImage => Covered(pending) = 0..(w - 1)

\* What is being drawn.
OutputFits ==
    /\ loopPc # "show" => out = NoOutput
    /\ loopPc = "show" => \E w \in Widths :
          /\ out.snapshot \in Image(w)
          /\ out.changed \in Seq(RegionsOf(w))
          /\ ShowsImage => Covered(out.changed) = 0..(w - 1)

Scalars ==
    /\ readerPc \in {"read", "wake", "stopped"}
    /\ frameWake \in BOOLEAN /\ resized \in BOOLEAN /\ pendingResized \in BOOLEAN
    /\ requestPc \in {"idle", "owed", "wake"}
    /\ loopPc \in {"wait", "pace", "show", "stopped"}
    /\ firstFrame \in BOOLEAN /\ cancelled \in BOOLEAN
    /\ screen \in [Row -> Contents]
    /\ budget \in Budgets

Fits == Scalars /\ FrameFits /\ QueueFits /\ OutputFits

\* In a plain session what has been sent is in latestFrame, unless the message
\* is still being read; what is drawn is newest, unless it is queued again; and
\* a new size is queued as a whole.
LatestIsNewest ==
    \A c \in received \ Covered(changed) : c \in DOMAIN latest /\ latest[c] = frame[c]

DrawnIsNewest ==
    loopPc = "show" =>
        \A c \in received \ (Covered(changed) \cup Covered(pending)) :
            c \in Covered(out.changed) => out.snapshot[c] = frame[c]

ResizedIsQueued ==
    loopPc = "show" /\ DOMAIN out.snapshot # DOMAIN latest => Covered(pending) = DOMAIN latest

\* No cell of the framebuffer is forgotten.
NoneForgotten ==
    \A c \in received : Stale(c) =>
        \/ c \in Covered(changed) \/ c \in Covered(pending) \/ c \in Covered(out.changed)
        \/ requestPc = "owed"

Remembered == Plain => LatestIsNewest /\ DrawnIsNewest /\ ResizedIsQueued /\ NoneForgotten

-----------------------------------------------------------------------------
(* Recursion over a sequence.                                              *)

\* Induction, for a set of indices.
LEMMA UpTo ==
    ASSUME NEW n \in Nat, NEW C, 0 \in C, \A i \in 1..n : i - 1 \in C => i \in C
    PROVE  0..n \subseteq C
<1> DEFINE less == OpToRel(<, Nat)
           T == (0..n) \ C
<1>1. \A x, y \in Nat : <<y, x>> \in less <=> y < x
  BY DEF OpToRel
<1>2. IsWellFoundedOn(less, Nat)
  BY NatLessThanWellFounded
<1>3. ASSUME T # {} PROVE FALSE
  <2>1. T \subseteq Nat
    OBVIOUS
  <2> HIDE DEF less
  <2>2. \E x \in T : \A y \in T : ~(<<y, x>> \in less)
    BY <1>2, <1>3, <2>1, WFMin
  <2>3. PICK x \in T : \A y \in T : ~(y < x)
    BY <1>1, <2>1, <2>2
  <2>4. x \in 1..n /\ x - 1 \in 0..n
    BY <2>3
  <2>5. x - 1 \in C
    BY <2>3, <2>4
  <2> QED
    BY <2>3, <2>4, <2>5
<1> QED
  BY <1>3

Steps(n, A)              == [1..n -> [A -> A]]
Results(n, A, base, step) ==
    {g \in [0..n -> A] : g[0] = base /\ \A i \in 1..n : g[i] = step[i][g[i - 1]]}

\* A recursion of n steps has a solution.
LEMMA Iterated ==
    ASSUME NEW n \in Nat, NEW A, NEW base \in A, NEW step \in Steps(n, A)
    PROVE  Results(n, A, base, step) # {}
<1> USE DEF Steps, Results
<1> DEFINE Solves(g, k) == g[0] = base /\ \A i \in 1..k : g[i] = step[i][g[i - 1]]
           C == {k \in 0..n : \E g \in [0..k -> A] : Solves(g, k)}
<1>1. 0 \in C
  <2> DEFINE h == [i \in 0..0 |-> base]
  <2>1. h \in [0..0 -> A] /\ h[0] = base /\ 0 \in 0..n
    OBVIOUS
  <2> HIDE DEF h
  <2>2. Solves(h, 0)
    BY <2>1
  <2> QED
    BY <2>1, <2>2, Zenon
<1>2. ASSUME NEW k \in 1..n, k - 1 \in C PROVE k \in C
  <2>1. PICK g \in [0..(k - 1) -> A] : Solves(g, k - 1)
    BY <1>2
  <2> DEFINE h == [i \in 0..k |-> IF i < k THEN g[i] ELSE step[k][g[k - 1]]]
  <2>2. g[k - 1] \in A /\ step[k] \in [A -> A]
    OBVIOUS
  <2>3. h \in [0..k -> A]
    BY <2>2
  <2>4. \A i \in 0..(k - 1) : h[i] = g[i]
    OBVIOUS
  <2>5. h[k] = step[k][g[k - 1]]
    OBVIOUS
  <2> HIDE DEF h
  <2>6. h[0] = base
    BY <2>1, <2>4
  <2>7. \A i \in 1..k : h[i] = step[i][h[i - 1]]
    <3> TAKE i \in 1..k
    <3>1. CASE i = k
      BY <2>4, <2>5, <3>1
    <3>2. CASE i # k
      <4>1. i \in 1..(k - 1) /\ i \in 0..(k - 1) /\ i - 1 \in 0..(k - 1)
        BY <3>2
      <4> QED
        BY <2>1, <2>4, <4>1
    <3> QED
      BY <3>1, <3>2
  <2>8. Solves(h, k) /\ k \in 0..n
    BY <2>6, <2>7
  <2> QED
    BY <2>3, <2>8, Zenon
<1> HIDE DEF C
<1>3. 0..n \subseteq C
  BY <1>1, <1>2, UpTo
<1>4. n \in C
  BY <1>3
<1> QED
  BY <1>4 DEF C

-----------------------------------------------------------------------------
(* What updates cover.                                                     *)

LEMMA CoveredFew ==
    /\ Covered(<<>>) = {}
    /\ \A u : Covered(<<u>>) = Cells(u)
<1>1. Covered(<<>>) = {}
  BY DEF Covered
<1>2. ASSUME NEW u PROVE Covered(<<u>>) = Cells(u)
  <2>1. DOMAIN <<u>> = {1} /\ <<u>>[1] = u
    OBVIOUS
  <2> QED
    BY <2>1 DEF Covered
<1> QED
  BY <1>1, <1>2

LEMMA CoveredConcat ==
    ASSUME NEW S, NEW s \in Seq(S), NEW t \in Seq(S)
    PROVE  Covered(s \o t) = Covered(s) \cup Covered(t)
<1>1. /\ Len(s) \in Nat /\ Len(t) \in Nat
      /\ DOMAIN s = 1..Len(s) /\ DOMAIN t = 1..Len(t) /\ DOMAIN (s \o t) = 1..(Len(s) + Len(t))
      /\ \A i \in 1..Len(s) : (s \o t)[i] = s[i]
      /\ \A i \in 1..Len(t) : (s \o t)[Len(s) + i] = t[i]
  OBVIOUS
<1>2. ASSUME NEW i \in DOMAIN (s \o t) PROVE Cells((s \o t)[i]) \subseteq Covered(s) \cup Covered(t)
  <2>1. CASE i <= Len(s)
    <3>1. i \in DOMAIN s /\ (s \o t)[i] = s[i]
      BY <1>1, <1>2, <2>1
    <3> QED
      BY <3>1 DEF Covered
  <2>2. CASE i > Len(s)
    <3>1. i - Len(s) \in 1..Len(t) /\ Len(s) + (i - Len(s)) = i
      BY <1>1, <1>2, <2>2
    <3>2. i - Len(s) \in DOMAIN t /\ (s \o t)[i] = t[i - Len(s)]
      BY <1>1, <3>1
    <3> QED
      BY <3>2 DEF Covered
  <2> QED
    BY <1>1, <1>2, <2>1, <2>2
<1>3. ASSUME NEW i \in DOMAIN s PROVE Cells(s[i]) \subseteq Covered(s \o t)
  <2>1. i \in DOMAIN (s \o t) /\ (s \o t)[i] = s[i]
    BY <1>1, <1>3
  <2> QED
    BY <2>1 DEF Covered
<1>4. ASSUME NEW i \in DOMAIN t PROVE Cells(t[i]) \subseteq Covered(s \o t)
  <2>1. Len(s) + i \in DOMAIN (s \o t) /\ (s \o t)[Len(s) + i] = t[i]
    BY <1>1, <1>4
  <2> QED
    BY <2>1 DEF Covered
<1> QED
  BY <1>2, <1>3, <1>4 DEF Covered

LEMMA CoveredAppend ==
    ASSUME NEW S, NEW s \in Seq(S), NEW u \in S
    PROVE  Covered(Append(s, u)) = Covered(s) \cup Cells(u)
<1>1. Append(s, u) = s \o <<u>> /\ <<u>> \in Seq(S)
  OBVIOUS
<1>2. Covered(s \o <<u>>) = Covered(s) \cup Covered(<<u>>)
  BY <1>1, CoveredConcat
<1> QED
  BY <1>1, <1>2, CoveredFew

LEMMA CoveredPush ==
    ASSUME NEW S, NEW s \in Seq(S), NEW u \in S
    PROVE  Covered(<<u>> \o s) = Cells(u) \cup Covered(s)
<1>1. <<u>> \in Seq(S)
  OBVIOUS
<1>2. Covered(<<u>> \o s) = Covered(<<u>>) \cup Covered(s)
  BY <1>1, CoveredConcat
<1> QED
  BY <1>2, CoveredFew

LEMMA SequenceGrows ==
    ASSUME NEW S, NEW s \in Seq(S), NEW u \in S
    PROVE  Append(s, u) \in Seq(S) /\ Len(Append(s, u)) = Len(s) + 1 /\ Len(s) \in Nat
OBVIOUS

LEMMA SingleTyped ==
    ASSUME NEW S, NEW u \in S
    PROVE  <<u>> \in Seq(S) /\ Len(<<u>>) = 1
OBVIOUS

LEMMA CoveredWithin ==
    ASSUME NEW w \in Nat \ {0}, NEW s \in Seq(RegionsOf(w))
    PROVE  Covered(s) \subseteq 0..(w - 1)
<1>1. DOMAIN s = 1..Len(s)
  OBVIOUS
<1>2. ASSUME NEW i \in DOMAIN s PROVE Cells(s[i]) \subseteq 0..(w - 1)
  <2>1. s[i] \in RegionsOf(w)
    BY <1>1, <1>2
  <2>2. s[i].lo \in 0..(w - 1) /\ s[i].hi \in 0..(w - 1)
    BY <2>1 DEF RegionsOf
  <2> QED
    BY <2>2 DEF Cells
<1> QED
  BY <1>2 DEF Covered

-----------------------------------------------------------------------------
(* The merge loop.                                                         *)

Accumulators(w) == [kept : Seq(RegionsOf(w)), new : RegionsOf(w)]
Gathered(acc)   == Covered(acc.kept) \cup Cells(acc.new)

LEMMA RegionBounds ==
    ASSUME NEW w \in Nat \ {0}, NEW u \in RegionsOf(w)
    PROVE  /\ u.lo \in 0..(w - 1) /\ u.hi \in 0..(w - 1) /\ u.src \in 0..(w - 1)
           /\ u.lo <= u.hi /\ u.copy \in BOOLEAN
           /\ u.copy => ~Plain /\ u.src + (u.hi - u.lo) < w
BY DEF RegionsOf

LEMMA RawFits ==
    ASSUME NEW w \in Nat \ {0}, NEW lo \in 0..(w - 1), NEW hi \in 0..(w - 1), lo <= hi
    PROVE  Raw(lo, hi) \in RegionsOf(w) /\ Cells(Raw(lo, hi)) = lo..hi
BY DEF Raw, RegionsOf, Cells

LEMMA HullFits ==
    ASSUME NEW w \in Nat \ {0}, NEW u \in RegionsOf(w), NEW v \in RegionsOf(w)
    PROVE  Hull(u, v) \in RegionsOf(w) /\ Cells(u) \cup Cells(v) \subseteq Cells(Hull(u, v))
<1> DEFINE lo == Lesser(u.lo, v.lo)
           hi == Greater(u.hi, v.hi)
<1>1. /\ lo \in 0..(w - 1) /\ hi \in 0..(w - 1) /\ lo <= hi
      /\ lo <= u.lo /\ lo <= v.lo /\ u.hi <= hi /\ v.hi <= hi
  BY RegionBounds DEF Lesser, Greater
<1>2. Hull(u, v) = Raw(lo, hi)
  BY DEF Hull
<1> HIDE DEF lo, hi
<1>3. Hull(u, v) \in RegionsOf(w) /\ Cells(Hull(u, v)) = lo..hi
  BY <1>1, <1>2, RawFits
<1>4. Cells(u) \subseteq lo..hi /\ Cells(v) \subseteq lo..hi
  BY <1>1, RegionBounds DEF Cells
<1> QED
  BY <1>3, <1>4

LEMMA AbsorbGathers ==
    ASSUME NEW w \in Nat \ {0}, NEW updates \in Seq(RegionsOf(w)), NEW i \in DOMAIN updates,
           NEW acc \in Accumulators(w)
    PROVE  /\ Absorb(updates, acc, i) \in Accumulators(w)
           /\ Len(Absorb(updates, acc, i).kept) <= Len(acc.kept) + 1
           /\ Gathered(acc) \cup Cells(updates[i]) \subseteq Gathered(Absorb(updates, acc, i))
<1> DEFINE R == RegionsOf(w)
<1>1. updates[i] \in R /\ acc.kept \in Seq(R) /\ acc.new \in R /\ Len(acc.kept) \in Nat
  BY DEF Accumulators
<1>2. CASE i \in RawTail(updates) /\ Nearby(updates[i], acc.new)
  <2> DEFINE h == Hull(acc.new, updates[i])
  <2>1. Absorb(updates, acc, i) = [kept |-> acc.kept, new |-> h]
    BY <1>2 DEF Absorb
  <2>2. h \in R /\ Cells(acc.new) \cup Cells(updates[i]) \subseteq Cells(h)
    BY <1>1, HullFits
  <2> HIDE DEF h, R
  <2> QED
    BY <1>1, <2>1, <2>2 DEF Accumulators, Gathered, R
<1>3. CASE ~(i \in RawTail(updates) /\ Nearby(updates[i], acc.new))
  <2> DEFINE k == <<updates[i]>> \o acc.kept
  <2>1. Absorb(updates, acc, i) = [kept |-> k, new |-> acc.new]
    BY <1>3, Zenon DEF Absorb
  <2> HIDE DEF R
  <2>2. k \in Seq(R) /\ Len(k) = Len(acc.kept) + 1
    BY <1>1
  <2>3. Covered(k) = Cells(updates[i]) \cup Covered(acc.kept)
    BY <1>1, CoveredPush
  <2> HIDE DEF k
  <2> QED
    BY <1>1, <2>1, <2>2, <2>3 DEF Accumulators, Gathered, R
<1> QED
  BY <1>2, <1>3, Zenon

LEMMA MergedGathers ==
    ASSUME NEW w \in Nat \ {0}, NEW updates \in Seq(RegionsOf(w)), NEW u \in RegionsOf(w)
    PROVE  /\ Merged(updates, u) \in Accumulators(w)
           /\ Len(Merged(updates, u).kept) <= Len(updates)
           /\ Covered(updates) \cup Cells(u) \subseteq Gathered(Merged(updates, u))
<1> DEFINE n == Len(updates)
           A == Accumulators(w)
           base == [kept |-> <<>>, new |-> u]
           step == [i \in 1..n |-> [acc \in A |-> Absorb(updates, acc, n + 1 - i)]]
           F(g) == [i \in 0..n |-> IF i = 0 THEN base ELSE Absorb(updates, g[i - 1], n + 1 - i)]
           a == CHOOSE g : g = F(g)
<1>1. Merged(updates, u) = a[n]
  BY Zenon DEF Merged
<1>2. n \in Nat /\ base \in A
  BY DEF Accumulators
<1>3. \A i \in 1..n : n + 1 - i \in DOMAIN updates
  OBVIOUS
<1>4. step \in Steps(n, A)
  BY <1>3, AbsorbGathers DEF Steps
<1>5. PICK g \in Results(n, A, base, step) : TRUE
  <2> HIDE DEF n, A, base, step, F, a
  <2> QED BY <1>2, <1>4, Iterated, Zenon
<1>6. \A i \in 0..n : g[i] = IF i = 0 THEN base ELSE Absorb(updates, g[i - 1], n + 1 - i)
  <2> TAKE i \in 0..n
  <2> HIDE DEF base, A, a
  <2>1. CASE i = 0
    BY <1>5, <2>1 DEF Results
  <2>2. CASE i # 0
    <3>1. i \in 1..n /\ i - 1 \in 0..n
      BY <1>2, <2>2
    <3>2. g[i - 1] \in A
      BY <1>5, <3>1 DEF Results
    <3> QED
      BY <1>5, <2>2, <3>1, <3>2 DEF Results
  <2> QED
    BY <2>1, <2>2
<1>7. g = F(g)
  <2> HIDE DEF base, A, a, n, step
  <2> QED BY <1>5, <1>6 DEF Results
<1>8. a = F(a)
  BY <1>7, Zenon
<1> HIDE DEF a
<1>9. a[0] = base /\ \A i \in 1..n : a[i] = Absorb(updates, a[i - 1], n + 1 - i)
  <2> HIDE DEF base, n
  <2>1. 0 \in 0..n /\ \A i \in 1..n : i \in 0..n /\ i # 0
    BY <1>2
  <2> QED BY <1>8, <2>1, Zenon
<1> DEFINE C == {i \in 0..n :
                   /\ a[i] \in A /\ Len(a[i].kept) <= i
                   /\ Cells(u) \subseteq Gathered(a[i])
                   /\ \A k \in (n + 1 - i)..n : Cells(updates[k]) \subseteq Gathered(a[i])}
<1>10. 0 \in C
  <2>1. base.kept = <<>> /\ base.new = u /\ Len(base.kept) = 0
    OBVIOUS
  <2>2. Gathered(base) = Cells(u)
    BY <2>1, CoveredFew DEF Gathered
  <2> HIDE DEF base, A
  <2> QED
    BY <1>2, <1>9, <2>1, <2>2
<1>11. ASSUME NEW i \in 1..n, i - 1 \in C PROVE i \in C
  <2>1. /\ a[i - 1] \in A /\ Len(a[i - 1].kept) <= i - 1
        /\ Cells(u) \subseteq Gathered(a[i - 1])
        /\ \A k \in (n + 1 - (i - 1))..n : Cells(updates[k]) \subseteq Gathered(a[i - 1])
    BY <1>11
  <2>2. /\ a[i] \in A /\ Len(a[i].kept) <= Len(a[i - 1].kept) + 1
        /\ Gathered(a[i - 1]) \cup Cells(updates[n + 1 - i]) \subseteq Gathered(a[i])
    BY <1>3, <1>9, <2>1, AbsorbGathers
  <2>3. Len(a[i].kept) \in Nat /\ Len(a[i - 1].kept) \in Nat
    BY <2>1, <2>2 DEF Accumulators
  <2> HIDE DEF A
  <2>4. Len(a[i].kept) <= i
    BY <2>1, <2>2, <2>3
  <2>5. ASSUME NEW k \in (n + 1 - i)..n PROVE Cells(updates[k]) \subseteq Gathered(a[i])
    <3>1. k = n + 1 - i \/ k \in (n + 1 - (i - 1))..n
      <4> HIDE DEF n
      <4> QED BY <1>2, <2>5
    <3> QED
      BY <2>1, <2>2, <3>1
  <2>6. Cells(u) \subseteq Gathered(a[i])
    BY <2>1, <2>2
  <2>7. i \in 0..n
    BY <1>2
  <2> QED
    BY <2>2, <2>4, <2>5, <2>6, <2>7
<1>12. n \in C
  <2> HIDE DEF C
  <2>1. 0..n \subseteq C
    BY <1>2, <1>10, <1>11, UpTo
  <2> QED
    BY <1>2, <2>1
<1>13. /\ a[n] \in A /\ Len(a[n].kept) <= n
       /\ Cells(u) \subseteq Gathered(a[n])
       /\ \A k \in (n + 1 - n)..n : Cells(updates[k]) \subseteq Gathered(a[n])
  BY <1>12
<1>14. n + 1 - n = 1 /\ DOMAIN updates = 1..n
  BY <1>2
<1>15. Covered(updates) \subseteq Gathered(a[n])
  BY <1>13, <1>14 DEF Covered
<1> QED
  BY <1>1, <1>13, <1>15

LEMMA AppendCovers ==
    ASSUME NEW w \in Nat \ {0}, NEW updates \in Seq(RegionsOf(w)), NEW u \in RegionsOf(w),
           NEW result, result = AppendChanged(updates, u, Raw(0, w - 1))
    PROVE  /\ result \in Seq(RegionsOf(w)) /\ Len(result) <= MaxPending
           /\ Covered(updates) \cup Cells(u) \subseteq Covered(result)
<1> DEFINE m == IF u.copy THEN [kept |-> updates, new |-> u] ELSE Merged(updates, u)
           R == RegionsOf(w)
<1>1. /\ m.kept \in Seq(R) /\ m.new \in R
      /\ Covered(updates) \cup Cells(u) \subseteq Covered(m.kept) \cup Cells(m.new)
  <2>1. CASE u.copy
    <3>1. m = [kept |-> updates, new |-> u]
      BY <2>1
    <3> HIDE DEF m
    <3> QED BY <3>1
  <2>2. CASE ~u.copy
    <3>1. m = Merged(updates, u)
      BY <2>2
    <3> HIDE DEF m
    <3> QED BY <3>1, MergedGathers DEF Gathered, Accumulators
  <2> QED BY <2>1, <2>2
<1>2. result = IF Len(m.kept) >= MaxPending THEN <<Raw(0, w - 1)>> ELSE Append(m.kept, m.new)
  BY Zenon DEF AppendChanged
<1>3. MaxPending \in Nat /\ MaxPending >= 1
  BY LimitAssumption
<1> HIDE DEF m, R
<1>4. CASE Len(m.kept) >= MaxPending
  <2>1. result = <<Raw(0, w - 1)>>
    BY <1>2, <1>4
  <2>2. Raw(0, w - 1) \in RegionsOf(w) /\ Cells(Raw(0, w - 1)) = 0..(w - 1)
    <3>1. 0 \in 0..(w - 1) /\ w - 1 \in 0..(w - 1) /\ 0 <= w - 1
      OBVIOUS
    <3> QED BY <3>1, RawFits
  <2>3. result \in Seq(RegionsOf(w)) /\ Len(result) = 1
    BY <2>1, <2>2, SingleTyped, Zenon
  <2>4. Covered(result) = 0..(w - 1)
    BY <2>1, <2>2, CoveredFew
  <2>5. Covered(updates) \subseteq 0..(w - 1) /\ Cells(u) \subseteq 0..(w - 1)
    <3>1. Covered(updates) \subseteq 0..(w - 1)
      BY CoveredWithin
    <3>2. Cells(u) \subseteq 0..(w - 1)
      BY RegionBounds DEF Cells
    <3> QED BY <3>1, <3>2
  <2> QED
    BY <1>3, <2>3, <2>4, <2>5
<1>5. CASE ~(Len(m.kept) >= MaxPending)
  <2>1. result = Append(m.kept, m.new)
    BY <1>2, <1>5
  <2>2. result \in Seq(R) /\ Len(result) = Len(m.kept) + 1 /\ Len(m.kept) \in Nat
    <3> HIDE DEF R
    <3>1. m.kept \in Seq(R) /\ m.new \in R
      BY <1>1
    <3>2. /\ Append(m.kept, m.new) \in Seq(R) /\ Len(m.kept) \in Nat
          /\ Len(Append(m.kept, m.new)) = Len(m.kept) + 1
      BY <3>1, SequenceGrows
    <3> QED BY <2>1, <3>2
  <2>3. Covered(result) = Covered(m.kept) \cup Cells(m.new)
    BY <1>1, <2>1, CoveredAppend
  <2> QED
    BY <1>1, <1>3, <1>5, <2>2, <2>3 DEF R
<1> QED
  BY <1>4, <1>5

\* The queue of a framebuffer of w cells.
Queues(w) == {q \in Seq(RegionsOf(w)) : Len(q) <= MaxPending}

LEMMA QueuedCovers ==
    ASSUME NEW w \in Nat \ {0}, NEW base \in Queues(w), NEW updates \in Seq(RegionsOf(w)),
           Full(frame) = Raw(0, w - 1)
    PROVE  /\ QueuedUpdates(base, updates) \in Queues(w)
           /\ Covered(base) \cup Covered(updates) \subseteq Covered(QueuedUpdates(base, updates))
<1> DEFINE n == Len(updates)
           A == Queues(w)
           step == [i \in 1..n |-> [q \in A |-> AppendChanged(q, updates[i], Full(frame))]]
           F(g) == [i \in 0..n |-> IF i = 0 THEN base
                                   ELSE AppendChanged(g[i - 1], updates[i], Full(frame))]
           a == CHOOSE g : g = F(g)
<1>1. QueuedUpdates(base, updates) = a[n]
  BY Zenon DEF QueuedUpdates
<1>2. n \in Nat /\ base \in A /\ DOMAIN updates = 1..n
  OBVIOUS
<1>3. ASSUME NEW q \in A, NEW i \in 1..n
      PROVE  /\ AppendChanged(q, updates[i], Full(frame)) \in A
             /\ Covered(q) \cup Cells(updates[i])
                    \subseteq Covered(AppendChanged(q, updates[i], Full(frame)))
  <2>1. q \in Seq(RegionsOf(w)) /\ updates[i] \in RegionsOf(w)
    BY <1>3 DEF Queues
  <2> DEFINE r == AppendChanged(q, updates[i], Full(frame))
  <2>2. r = AppendChanged(q, updates[i], Raw(0, w - 1))
    BY Zenon
  <2> HIDE DEF F, a, step, n, r
  <2>3. /\ r \in Seq(RegionsOf(w)) /\ Len(r) <= MaxPending
        /\ Covered(q) \cup Cells(updates[i]) \subseteq Covered(r)
    <3>1. \A u \in RegionsOf(w) : \A x : x = AppendChanged(q, u, Raw(0, w - 1)) =>
              /\ x \in Seq(RegionsOf(w)) /\ Len(x) <= MaxPending
              /\ Covered(q) \cup Cells(u) \subseteq Covered(x)
      BY <2>1, AppendCovers
    <3> QED BY <2>1, <2>2, <3>1, Zenon
  <2> QED BY <2>3 DEF Queues, r
<1>4. step \in Steps(n, A)
  BY <1>3 DEF Steps
<1>5. PICK g \in Results(n, A, base, step) : TRUE
  <2> HIDE DEF n, A, step, F, a
  <2> QED BY <1>2, <1>4, Iterated, Zenon
<1>6. \A i \in 0..n : g[i] = IF i = 0 THEN base
                              ELSE AppendChanged(g[i - 1], updates[i], Full(frame))
  <2> TAKE i \in 0..n
  <2> HIDE DEF A, a
  <2>1. CASE i = 0
    BY <1>5, <2>1 DEF Results
  <2>2. CASE i # 0
    <3>1. i \in 1..n /\ i - 1 \in 0..n
      BY <1>2, <2>2
    <3>2. g[i - 1] \in A
      BY <1>5, <3>1 DEF Results
    <3> QED
      BY <1>5, <2>2, <3>1, <3>2 DEF Results
  <2> QED
    BY <2>1, <2>2
<1>7. g = F(g)
  <2> HIDE DEF A, a, n, step
  <2> QED BY <1>5, <1>6 DEF Results
<1>8. a = F(a)
  BY <1>7, Zenon
<1> HIDE DEF a
<1>9. a[0] = base /\ \A i \in 1..n : a[i] = AppendChanged(a[i - 1], updates[i], Full(frame))
  <2> HIDE DEF n
  <2>1. 0 \in 0..n /\ \A i \in 1..n : i \in 0..n /\ i # 0
    BY <1>2
  <2> QED BY <1>8, <2>1, Zenon
<1> DEFINE C == {i \in 0..n :
                   /\ a[i] \in A /\ Covered(base) \subseteq Covered(a[i])
                   /\ \A k \in 1..i : Cells(updates[k]) \subseteq Covered(a[i])}
<1> HIDE DEF n, A, step, F
<1>10. 0 \in C
  BY <1>2, <1>9
<1>11. ASSUME NEW i \in 1..n, i - 1 \in C PROVE i \in C
  <2>1. /\ a[i - 1] \in A /\ Covered(base) \subseteq Covered(a[i - 1])
        /\ \A k \in 1..(i - 1) : Cells(updates[k]) \subseteq Covered(a[i - 1])
    BY <1>11
  <2>2. /\ a[i] \in A /\ Covered(a[i - 1]) \cup Cells(updates[i]) \subseteq Covered(a[i])
    BY <1>3, <1>9, <2>1
  <2>3. ASSUME NEW k \in 1..i PROVE Cells(updates[k]) \subseteq Covered(a[i])
    <3>1. k = i \/ k \in 1..(i - 1)
      BY <1>2
    <3> QED BY <2>1, <2>2, <3>1
  <2>4. Covered(base) \subseteq Covered(a[i]) /\ i \in 0..n
    BY <1>2, <2>1, <2>2
  <2> QED
    BY <2>2, <2>3, <2>4
<1>12. n \in C
  <2> HIDE DEF C
  <2>1. 0..n \subseteq C
    BY <1>2, <1>10, <1>11, UpTo
  <2> QED
    BY <1>2, <2>1
<1>13. /\ a[n] \in A /\ Covered(base) \subseteq Covered(a[n])
       /\ \A k \in 1..n : Cells(updates[k]) \subseteq Covered(a[n])
  BY <1>12
<1>14. Covered(updates) \subseteq Covered(a[n])
  BY <1>2, <1>13 DEF Covered
<1> QED
  BY <1>1, <1>13, <1>14 DEF A

-----------------------------------------------------------------------------
(* Drawing the regions of a frame.                                         *)

LEMMA RowIsLargest ==
    \E w \in Nat \ {0} : Row = 0..(w - 1) /\ \A v \in Widths : v <= w
<1>1. \E w : w \in Widths /\ \A v \in Widths : v <= w
  BY WidthAssumption
<1> DEFINE w == CHOOSE w \in Widths : \A v \in Widths : v <= w
<1>2. w \in Widths /\ \A v \in Widths : v <= w
  BY <1>1, Zenon
<1>3. Row = 0..(w - 1)
  BY DEF Row
<1> HIDE DEF w
<1> QED BY <1>2, <1>3, WidthAssumption

LEMMA RowHolds ==
    ASSUME NEW w \in Widths
    PROVE  w \in Nat \ {0} /\ 0..(w - 1) \subseteq Row
BY RowIsLargest, WidthAssumption

LEMMA FullIsWhole ==
    ASSUME NEW w \in Nat \ {0}, NEW f, DOMAIN f = 0..(w - 1)
    PROVE  Full(f) = Raw(0, w - 1)
<1>1. Cardinality(0..(w - 1)) = w
  BY FS_Interval
<1> QED BY <1>1 DEF Full

LEMMA RegionDrawn ==
    ASSUME NEW w \in Widths, out.snapshot \in Image(w),
           NEW s \in [Row -> Contents], NEW u \in RegionsOf(w)
    PROVE  /\ RegionShown(s, u) \in [Row -> Contents]
           /\ Plain => \A c \in Row :
                RegionShown(s, u)[c] = IF c \in Cells(u) THEN out.snapshot[c] ELSE s[c]
<1>1. w \in Nat \ {0} /\ 0..(w - 1) \subseteq Row
  BY RowHolds
<1>2. /\ u.lo \in 0..(w - 1) /\ u.hi \in 0..(w - 1) /\ u.src \in 0..(w - 1)
      /\ u.lo <= u.hi /\ (u.copy => ~Plain /\ u.src + (u.hi - u.lo) < w)
  BY <1>1, RegionBounds
<1> HIDE DEF Row
<1>3. ASSUME NEW c \in Cells(u) PROVE out.snapshot[c] \in Contents
  <2>1. c \in 0..(w - 1)
    BY <1>1, <1>2, <1>3 DEF Cells
  <2> QED BY <2>1 DEF Image, Pixels, Contents
<1>4. ASSUME NEW c \in Cells(u), u.copy PROVE s[u.src + c - u.lo] \in Contents
  <2>1. u.src + c - u.lo \in 0..(w - 1)
    BY <1>1, <1>2, <1>4 DEF Cells
  <2>2. u.src + c - u.lo \in Row
    BY <1>1, <2>1
  <2> QED BY <2>2
<1>5. \A c \in Row : s[c] \in Contents
  OBVIOUS
<1>6. RegionShown(s, u) \in [Row -> Contents]
  <2> HIDE DEF Contents
  <2>1. ASSUME NEW c \in Row
        PROVE  (IF c \notin Cells(u) THEN s[c]
                ELSE IF u.copy THEN s[u.src + c - u.lo] ELSE out.snapshot[c]) \in Contents
    <3>1. CASE c \notin Cells(u)
      BY <1>5, <3>1
    <3>2. CASE c \in Cells(u) /\ u.copy
      BY <1>4, <3>2
    <3>3. CASE c \in Cells(u) /\ ~u.copy
      BY <1>3, <3>3
    <3> QED BY <3>1, <3>2, <3>3
  <2> QED BY <2>1, Zenon DEF RegionShown
<1>7. ASSUME Plain, NEW c \in Row
      PROVE  RegionShown(s, u)[c] = IF c \in Cells(u) THEN out.snapshot[c] ELSE s[c]
  BY <1>2, <1>7 DEF RegionShown
<1> QED BY <1>6, <1>7

\* Drawing regions one after another keeps the type of the screen, and without
\* copies shows the snapshot where a region is and the old screen elsewhere.
LEMMA RegionsDrawn ==
    ASSUME NEW w \in Widths, out.snapshot \in Image(w), out.changed \in Seq(RegionsOf(w)),
           screen \in [Row -> Contents]
    PROVE  /\ RegionsShown \in [Row -> Contents]
           /\ Plain => \A c \in Row :
                RegionsShown[c] = IF c \in Covered(out.changed) THEN out.snapshot[c] ELSE screen[c]
<1> DEFINE updates == out.changed
           n == Len(updates)
           A == [Row -> Contents]
           step == [i \in 1..n |-> [s \in A |-> RegionShown(s, updates[i])]]
           F(g) == [i \in 0..n |-> IF i = 0 THEN screen ELSE RegionShown(g[i - 1], updates[i])]
           a == CHOOSE g : g = F(g)
           Old(s, i) == \A c \in Row : (\A k \in 1..i : c \notin Cells(updates[k])) => s[c] = screen[c]
           New(s, i) == \A c \in Row : (\E k \in 1..i : c \in Cells(updates[k]))
                                            => s[c] = out.snapshot[c]
<1>1. RegionsShown = a[n]
  BY Zenon DEF RegionsShown
<1>2. n \in Nat /\ screen \in A /\ DOMAIN updates = 1..n
  OBVIOUS
<1>3. ASSUME NEW s \in A, NEW i \in 1..n
      PROVE  /\ RegionShown(s, updates[i]) \in A
             /\ Plain => \A c \in Row : RegionShown(s, updates[i])[c] =
                            IF c \in Cells(updates[i]) THEN out.snapshot[c] ELSE s[c]
  <2>1. updates[i] \in RegionsOf(w)
    BY <1>3
  <2> HIDE DEF F, a, step, n, updates
  <2> QED BY <2>1, RegionDrawn
<1>4. step \in Steps(n, A)
  <2> HIDE DEF A, n, a, F, updates
  <2> QED BY <1>3 DEF Steps
<1>5. PICK g \in Results(n, A, screen, step) : TRUE
  <2> HIDE DEF n, A, step, F, a
  <2> QED BY <1>2, <1>4, Iterated, Zenon
<1>6. \A i \in 0..n : g[i] = IF i = 0 THEN screen ELSE RegionShown(g[i - 1], updates[i])
  <2> TAKE i \in 0..n
  <2> HIDE DEF A, a, updates
  <2>1. CASE i = 0
    BY <1>5, <2>1 DEF Results
  <2>2. CASE i # 0
    <3>1. i \in 1..n /\ i - 1 \in 0..n
      BY <1>2, <2>2
    <3>2. g[i - 1] \in A
      BY <1>5, <3>1 DEF Results
    <3> QED
      BY <1>5, <2>2, <3>1, <3>2 DEF Results
  <2> QED
    BY <2>1, <2>2
<1>7. g = F(g)
  <2> HIDE DEF A, a, n, step, updates
  <2> QED BY <1>5, <1>6 DEF Results
<1>8. a = F(a)
  BY <1>7, Zenon
<1> HIDE DEF a
<1>9. a[0] = screen /\ \A i \in 1..n : a[i] = RegionShown(a[i - 1], updates[i])
  <2> HIDE DEF n, updates
  <2>1. 0 \in 0..n /\ \A i \in 1..n : i \in 0..n /\ i # 0
    BY <1>2
  <2> QED BY <1>8, <2>1, Zenon
<1> DEFINE C == {i \in 0..n : a[i] \in A /\ (Plain => Old(a[i], i) /\ New(a[i], i))}
<1> HIDE DEF n, A, step, F, updates
<1>10. 0 \in C
  BY <1>2, <1>9
<1>11. ASSUME NEW i \in 1..n, i - 1 \in C PROVE i \in C
  <2>1. a[i - 1] \in A /\ (Plain => Old(a[i - 1], i - 1) /\ New(a[i - 1], i - 1))
    BY <1>11
  <2>2. /\ a[i] \in A
        /\ Plain => \A c \in Row : a[i][c] =
                        IF c \in Cells(updates[i]) THEN out.snapshot[c] ELSE a[i - 1][c]
    BY <1>3, <1>9, <2>1
  <2>3. i \in 0..n /\ i \in 1..i /\ 1..(i - 1) \subseteq 1..i
        /\ \A k \in 1..i : k = i \/ k \in 1..(i - 1)
    BY <1>2
  <2>4. ASSUME Plain PROVE Old(a[i], i)
    BY <2>1, <2>2, <2>3, <2>4
  <2>5. ASSUME Plain PROVE New(a[i], i)
    <3> SUFFICES ASSUME NEW c \in Row, NEW k \in 1..i, c \in Cells(updates[k])
                 PROVE  a[i][c] = out.snapshot[c]
      OBVIOUS
    <3>1. CASE c \in Cells(updates[i])
      BY <2>2, <2>5, <3>1
    <3>2. CASE c \notin Cells(updates[i])
      <4>1. k \in 1..(i - 1)
        BY <2>3, <3>2
      <4>2. a[i - 1][c] = out.snapshot[c]
        BY <2>1, <2>5, <4>1
      <4> QED BY <2>2, <2>5, <3>2, <4>2
    <3> QED BY <3>1, <3>2
  <2> HIDE DEF Old, New
  <2> QED
    BY <2>2, <2>3, <2>4, <2>5
<1>12. n \in C
  <2> HIDE DEF C
  <2>1. 0..n \subseteq C
    BY <1>2, <1>10, <1>11, UpTo
  <2> QED
    BY <1>2, <2>1
<1>13. a[n] \in A /\ (Plain => Old(a[n], n) /\ New(a[n], n))
  BY <1>12
<1>14. \A c : c \in Covered(updates) <=> \E k \in 1..n : c \in Cells(updates[k])
  BY <1>2 DEF Covered
<1>15. ASSUME Plain, NEW c \in Row
       PROVE  a[n][c] = IF c \in Covered(updates) THEN out.snapshot[c] ELSE screen[c]
  BY <1>13, <1>14, <1>15
<1> QED
  BY <1>1, <1>13, <1>15 DEF A, updates

-----------------------------------------------------------------------------
(* Every step keeps what is in flight fitting.                             *)

LEMMA SpendKeeps ==
    ASSUME budget \in Budgets, NEW name \in {"rects", "resizes", "damage", "failures"}, Spend(name)
    PROVE  budget' \in Budgets /\ Plain' = Plain
<1>1. /\ budget.rects \in Nat /\ budget.resizes \in Nat /\ budget.damage \in Nat
      /\ budget.failures \in Nat
  BY DEF Budgets
<1>2. CASE name = "rects"
  BY <1>1, <1>2 DEF Budgets, Spend, Plain
<1>3. CASE name = "resizes"
  BY <1>1, <1>3 DEF Budgets, Spend, Plain
<1>4. CASE name = "damage"
  BY <1>1, <1>4 DEF Budgets, Spend, Plain
<1>5. CASE name = "failures"
  BY <1>1, <1>5 DEF Budgets, Spend, Plain
<1> QED BY <1>2, <1>3, <1>4, <1>5

LEMMA BudgetStep ==
    ASSUME budget \in Budgets, [Next]_vars
    PROVE  budget' \in Budgets /\ Plain' = Plain
<1>1. CASE Spend("rects") \/ Spend("resizes") \/ Spend("damage") \/ Spend("failures")
  BY <1>1, SpendKeeps
<1>2. CASE budget' = budget
  BY <1>2 DEF Plain
<1>3. \/ Spend("rects") \/ Spend("resizes") \/ Spend("damage") \/ Spend("failures")
      \/ budget' = budget
  <2>1. CASE Read
    BY <2>1 DEF Read, ReadRaw, ReadCopy, ReadDesktopSize, Reconnect
  <2>2. CASE Loop
    BY <2>2 DEF Loop, LoopWakes, TakeNothing, TakePending, Deliver
  <2>3. CASE \E c \in Row : Damage(c)
    BY <2>3 DEF Damage
  <2>4. CASE DeliverFails
    BY <2>4 DEF DeliverFails
  <2>5. CASE \/ EnqueueFrame \/ ReaderWakes \/ ReaderStops \/ RequestFullFrame \/ RequestWakes
             \/ Cancel \/ LoopStops \/ UNCHANGED vars
    BY <2>5 DEF EnqueueFrame, ReaderWakes, ReaderStops, RequestFullFrame, RequestWakes,
                Cancel, LoopStops, vars
  <2> QED BY <2>1, <2>2, <2>3, <2>4, <2>5 DEF Next
<1> QED BY <1>1, <1>2, <1>3

LEMMA RegionsKept ==
    ASSUME Plain' = Plain
    PROVE  \A w : RegionsOf(w)' = RegionsOf(w)
BY DEF RegionsOf

LEMMA BlankFits ==
    ASSUME NEW w \in Nat \ {0}
    PROVE  Blank(w) \in Image(w)
BY DEF Blank, Image, Pixels

LEMMA DomainIsWidth ==
    ASSUME NEW v \in Nat \ {0}, NEW w \in Nat \ {0}, 0..(v - 1) = 0..(w - 1)
    PROVE  v = w
<1>1. v - 1 \in 0..(w - 1) /\ w - 1 \in 0..(v - 1)
  OBVIOUS
<1> QED BY <1>1

\* One whole rectangle is a queue.
LEMMA WholeIsQueue ==
    ASSUME NEW w \in Nat \ {0}
    PROVE  /\ <<Raw(0, w - 1)>> \in Queues(w)
           /\ <<Raw(0, w - 1)>> \in Seq(RegionsOf(w))
           /\ Covered(<<Raw(0, w - 1)>>) = 0..(w - 1)
<1>1. Raw(0, w - 1) \in RegionsOf(w) /\ Cells(Raw(0, w - 1)) = 0..(w - 1)
  <2>1. 0 \in 0..(w - 1) /\ w - 1 \in 0..(w - 1) /\ 0 <= w - 1
    OBVIOUS
  <2> QED BY <2>1, RawFits
<1>2. <<Raw(0, w - 1)>> \in Seq(RegionsOf(w)) /\ Len(<<Raw(0, w - 1)>>) = 1
  BY <1>1, SingleTyped, Zenon
<1>3. 1 <= MaxPending
  BY LimitAssumption
<1> QED BY <1>1, <1>2, <1>3, CoveredFew DEF Queues

\* The reader paints within the framebuffer, with colors of the palette.
LEMMA FramePainted ==
    ASSUME NEW w \in Widths, frame \in Image(w), changed \in Seq(RegionsOf(w)),
           received \subseteq 0..(w - 1), resized => Covered(changed) = 0..(w - 1),
           Plain' = Plain, resized' = resized,
           NEW u \in RegionsOf(w), changed' = Append(changed, u),
           received' = received \cup Cells(u),
           frame' \in Image(w)
    PROVE  FrameFits'
<1>1. w \in Nat \ {0}
  BY RowHolds
<1>2. changed' \in Seq(RegionsOf(w)) /\ Covered(changed') = Covered(changed) \cup Cells(u)
  BY SequenceGrows, CoveredAppend
<1>3. Cells(u) \subseteq 0..(w - 1)
  BY <1>1, RegionBounds DEF Cells
<1>4. RegionsOf(w)' = RegionsOf(w) /\ Covered(changed)' = Covered(changed')
  BY RegionsKept DEF Covered
<1>5. resized' => Covered(changed)' = 0..(w - 1)
  BY <1>2, <1>3, <1>4
<1> QED BY <1>2, <1>3, <1>4, <1>5 DEF FrameFits

LEMMA FrameStep ==
    ASSUME Fits, [Next]_vars
    PROVE  FrameFits'
<1>1. Plain' = Plain
  BY BudgetStep DEF Fits, Scalars
<1>2. PICK w \in Widths :
        /\ frame \in Image(w)
        /\ changed \in Seq(RegionsOf(w))
        /\ received \subseteq 0..(w - 1)
        /\ resized => Covered(changed) = 0..(w - 1)
  BY DEF Fits, FrameFits
<1>3. w \in Nat \ {0} /\ 0..(w - 1) \subseteq Row
  BY RowHolds
<1>4. RegionsOf(w)' = RegionsOf(w)
  BY <1>1, RegionsKept
<1>5. DOMAIN frame = 0..(w - 1) /\ \A c \in 0..(w - 1) : frame[c] \in Pixels
  <2>1. frame \in Image(w)
    BY <1>2
  <2> QED BY <2>1, Zenon DEF Image
<1>6. CASE UNCHANGED <<frame, changed, received, resized>>
  BY <1>2, <1>4, <1>6 DEF FrameFits, Covered, Cells
<1>7. CASE \E lo, hi \in Row, color \in Palette[Plain] : lo <= hi /\ ReadRaw(lo, hi, color)
  <2>1. PICK lo \in Row, hi \in Row, color \in Palette[Plain] : lo <= hi /\ ReadRaw(lo, hi, color)
    BY <1>7
  <2>2. lo \in Nat /\ hi \in Nat
    BY <2>1, RowIsLargest
  <2>3. lo..hi \subseteq 0..(w - 1)
    BY <1>5, <2>1 DEF ReadRaw
  <2>4. lo \in 0..(w - 1) /\ hi \in 0..(w - 1)
    BY <2>1, <2>2, <2>3
  <2>5. Raw(lo, hi) \in RegionsOf(w) /\ Cells(Raw(lo, hi)) = lo..hi
    BY <1>3, <2>1, <2>4, RawFits
  <2>6. color \in Pixels
    BY DEF Pixels, Colors, Fits, Scalars, Budgets, Plain
  <2>7. frame' \in Image(w)
    <3>1. frame' = [c \in 0..(w - 1) |-> IF c \in lo..hi THEN color ELSE frame[c]]
      BY <1>5, <2>1 DEF ReadRaw
    <3> QED BY <1>5, <2>6, <3>1 DEF Image
  <2>8. /\ changed' = Append(changed, Raw(lo, hi)) /\ resized' = resized
        /\ received' = received \cup Cells(Raw(lo, hi))
    BY <2>1, <2>5 DEF ReadRaw
  <2> QED BY <1>1, <1>2, <2>5, <2>7, <2>8, FramePainted
<1>8. CASE \E lo, hi, src \in Row : lo <= hi /\ ReadCopy(lo, hi, src)
  <2>1. PICK lo \in Row, hi \in Row, src \in Row : lo <= hi /\ ReadCopy(lo, hi, src)
    BY <1>8
  <2>2. lo \in Nat /\ hi \in Nat /\ src \in Nat
    BY <2>1, RowIsLargest
  <2>3. lo..hi \subseteq 0..(w - 1) /\ src..(src + hi - lo) \subseteq 0..(w - 1)
    BY <1>2, <1>5, <2>1 DEF ReadCopy
  <2>4. /\ lo \in 0..(w - 1) /\ hi \in 0..(w - 1) /\ src \in 0..(w - 1)
        /\ src + (hi - lo) \in 0..(w - 1)
    BY <2>1, <2>2, <2>3
  <2>5. ~Plain
    BY <2>1 DEF ReadCopy
  <2>6. Copy(lo, hi, src) \in RegionsOf(w) /\ Cells(Copy(lo, hi, src)) = lo..hi
    BY <1>3, <2>1, <2>4, <2>5 DEF Copy, RegionsOf, Cells
  <2>7. frame' \in Image(w)
    <3>1. frame' = [c \in 0..(w - 1) |-> IF c \in lo..hi THEN frame[src + c - lo] ELSE frame[c]]
      BY <1>5, <2>1 DEF ReadCopy
    <3>2. \A c \in lo..hi : src + c - lo \in 0..(w - 1)
      BY <1>3, <2>1, <2>2, <2>4
    <3> QED BY <1>5, <3>1, <3>2 DEF Image
  <2>8. /\ changed' = Append(changed, Copy(lo, hi, src)) /\ resized' = resized
        /\ received' = received \cup Cells(Copy(lo, hi, src))
    BY <2>1, <2>6 DEF ReadCopy
  <2> QED BY <1>1, <1>2, <2>6, <2>7, <2>8, FramePainted
<1>9. ASSUME NEW v \in Widths, ReadDesktopSize(v) \/ Reconnect(v) PROVE FrameFits'
  <2>1. v \in Nat \ {0} /\ RegionsOf(v)' = RegionsOf(v)
    BY <1>1, RegionsKept, WidthAssumption
  <2>2. /\ Blank(v) \in Image(v) /\ <<Raw(0, v - 1)>> \in Seq(RegionsOf(v))
        /\ Covered(<<Raw(0, v - 1)>>) = 0..(v - 1)
    BY <2>1, BlankFits, WholeIsQueue
  <2>3. CASE ReadDesktopSize(v)
    <3>1. frame' = Blank(v) /\ changed' = <<Raw(0, v - 1)>> /\ received' = {}
      BY <2>3 DEF ReadDesktopSize
    <3>2. Covered(changed)' = 0..(v - 1)
      BY <2>2, <3>1 DEF Covered, Cells
    <3> QED BY <2>1, <2>2, <3>1, <3>2 DEF FrameFits
  <2>4. CASE Reconnect(v)
    <3>1. frame' = Blank(v) /\ changed' = <<>> /\ received' = {} /\ resized' = FALSE
      BY <2>4 DEF Reconnect
    <3> QED BY <2>1, <2>2, <3>1 DEF FrameFits
  <2> QED BY <1>9, <2>3, <2>4
<1>10. CASE EnqueueFrame
  <2>1. frame' = frame /\ changed' = <<>> /\ received' = received /\ resized' = FALSE
    BY <1>10 DEF EnqueueFrame
  <2> QED BY <1>2, <1>4, <2>1 DEF FrameFits
<1>11. CASE Read
  BY <1>7, <1>8, <1>9, <1>11 DEF Read
<1>12. Read \/ EnqueueFrame \/ UNCHANGED <<frame, changed, received, resized>>
  BY DEF Next, vars, reader, ReaderWakes, ReaderStops, Damage, RequestFullFrame, RequestWakes,
         Loop, LoopWakes, TakeNothing, TakePending, Deliver, DeliverFails, Cancel, LoopStops
<1> QED BY <1>6, <1>10, <1>11, <1>12

\* A queue that is not empty belongs to a frame.
LEMMA QueueStep ==
    ASSUME Fits, [Next]_vars
    PROVE  QueueFits'
<1>1. Plain' = Plain
  BY BudgetStep DEF Fits, Scalars
<1>2. \A w : RegionsOf(w)' = RegionsOf(w)
  BY <1>1, RegionsKept
<1>3. ASSUME UNCHANGED queue, WillBeImage' => WillBeImage PROVE QueueFits'
  <2>1. QueueFits
    BY DEF Fits
  <2>2. latest' = latest /\ pending' = pending /\ pendingResized' = pendingResized
    BY <1>3 DEF queue
  <2>3. CASE latest = NoFrame /\ pending = <<>> /\ ~pendingResized
    BY <2>2, <2>3 DEF QueueFits
  <2>4. CASE ~(latest = NoFrame /\ pending = <<>> /\ ~pendingResized)
    <3>1. PICK w \in Widths :
            /\ latest \in Image(w)
            /\ pending \in Seq(RegionsOf(w)) /\ Len(pending) <= MaxPending
            /\ WillBeImage => Covered(pending) = 0..(w - 1)
      BY <2>1, <2>4 DEF QueueFits
    <3>2. Covered(pending)' = Covered(pending)
      BY <2>2 DEF Covered
    <3>3. WillBeImage' => Covered(pending)' = 0..(w - 1)
      BY <1>3, <3>1, <3>2
    <3>4. /\ latest' \in Image(w) /\ pending' \in Seq(RegionsOf(w)')
          /\ Len(pending') <= MaxPending
      BY <1>2, <2>2, <3>1
    <3> QED BY <3>3, <3>4 DEF QueueFits
  <2> QED BY <2>3, <2>4
<1>4. CASE EnqueueFrame
  <2>1. PICK w \in Widths :
          /\ frame \in Image(w)
          /\ changed \in Seq(RegionsOf(w))
          /\ resized => Covered(changed) = 0..(w - 1)
    BY DEF Fits, FrameFits
  <2>2. w \in Nat \ {0} /\ DOMAIN frame = 0..(w - 1)
    BY <2>1, RowHolds DEF Image
  <2>3. Full(frame) = Raw(0, w - 1)
    BY <2>2, FullIsWhole
  <2>4. RegionsOf(w)' = RegionsOf(w)
    BY <1>2
  <2>5. CASE ~Sized
    <3>1. latest' = frame /\ pending' = <<Raw(0, w - 1)>>
      BY <1>4, <2>3, <2>5 DEF EnqueueFrame
    <3>2. pending' \in Queues(w) /\ Covered(pending') = 0..(w - 1)
      BY <2>2, <3>1, WholeIsQueue
    <3>3. Covered(pending)' = Covered(pending')
      BY DEF Covered
    <3> QED BY <2>1, <2>4, <3>1, <3>2, <3>3 DEF QueueFits, Queues
  <2>6. CASE Sized
    <3>1. /\ latest' = Redrawn(latest, changed) /\ pending' = QueuedUpdates(pending, changed)
          /\ pendingResized' = (pendingResized \/ resized)
          /\ firstFrame' = firstFrame /\ loopPc' = loopPc
      BY <1>4, <2>6 DEF EnqueueFrame, display, Fits, Scalars
    <3>2. DOMAIN latest = 0..(w - 1)
      BY <2>2, <2>6 DEF Sized
    <3>3. latest # NoFrame
      BY <2>2, <3>2 DEF NoFrame
    <3>4. PICK v \in Widths :
            /\ latest \in Image(v)
            /\ pending \in Seq(RegionsOf(v)) /\ Len(pending) <= MaxPending
            /\ WillBeImage => Covered(pending) = 0..(v - 1)
      BY <3>3 DEF Fits, QueueFits
    <3>5. DOMAIN latest = 0..(v - 1) /\ v \in Nat \ {0}
      BY <3>4, WidthAssumption DEF Image
    <3>6. v = w
      BY <2>2, <3>2, <3>5, DomainIsWidth
    <3>7. latest' \in Image(w)
      BY <2>1, <2>2, <3>1, <3>4, <3>6 DEF Image, Redrawn
    <3>8. pending \in Queues(w)
      BY <3>4, <3>6 DEF Queues
    <3>9. /\ pending' \in Queues(w)
          /\ Covered(pending) \cup Covered(changed) \subseteq Covered(pending')
      BY <2>1, <2>2, <2>3, <3>1, <3>8, QueuedCovers
    <3>10. Covered(pending)' = Covered(pending') /\ Covered(pending') \subseteq 0..(w - 1)
      <4>1. Covered(pending') \subseteq 0..(w - 1)
        BY <2>2, <3>9, CoveredWithin DEF Queues
      <4> QED BY <4>1 DEF Covered
    <3>11. WillBeImage' => WillBeImage \/ resized
      BY <3>1 DEF WillBeImage
    <3>12. WillBeImage' => Covered(pending)' = 0..(w - 1)
      BY <2>1, <3>4, <3>6, <3>9, <3>10, <3>11
    <3> QED BY <2>4, <3>7, <3>9, <3>12 DEF QueueFits, Queues
  <2> QED BY <2>5, <2>6
<1>5. CASE RequestFullFrame
  <2>1. CASE latest = NoFrame
    <3>1. UNCHANGED queue /\ UNCHANGED <<firstFrame, loopPc>>
      BY <1>5, <2>1 DEF RequestFullFrame, display
    <3> QED BY <1>3, <3>1 DEF WillBeImage, queue
  <2>2. CASE latest # NoFrame
    <3>1. PICK w \in Widths : latest \in Image(w)
      BY <2>2 DEF Fits, QueueFits
    <3>2. w \in Nat \ {0} /\ DOMAIN latest = 0..(w - 1)
      BY <3>1, WidthAssumption DEF Image
    <3>3. latest' = latest /\ pending' = <<Raw(0, w - 1)>>
      BY <1>5, <2>2, <3>2, FullIsWhole DEF RequestFullFrame, Requested
    <3>4. pending' \in Queues(w) /\ Covered(pending') = 0..(w - 1)
      BY <3>2, <3>3, WholeIsQueue
    <3>5. Covered(pending)' = Covered(pending')
      BY DEF Covered
    <3> QED BY <1>2, <3>1, <3>3, <3>4, <3>5 DEF QueueFits, Queues
  <2> QED BY <2>1, <2>2
<1>6. CASE TakePending
  <2>1. /\ latest' = latest /\ pending' = <<>> /\ ~pendingResized' /\ ~WillBeImage'
        /\ latest # NoFrame
    BY <1>6 DEF TakePending, WillBeImage
  <2>2. PICK w \in Widths : latest \in Image(w)
    BY <2>1 DEF Fits, QueueFits
  <2>3. pending' \in Seq(RegionsOf(w)') /\ Len(pending') <= MaxPending
    BY <2>1, LimitAssumption
  <2> QED BY <2>1, <2>2, <2>3 DEF QueueFits
<1>7. CASE UNCHANGED queue /\ UNCHANGED <<firstFrame, loopPc>>
  BY <1>3, <1>7 DEF WillBeImage, queue
<1>8. CASE LoopWakes \/ TakeNothing \/ Deliver \/ DeliverFails \/ LoopStops
  <2>1. UNCHANGED queue
    BY <1>8 DEF LoopWakes, TakeNothing, Deliver, DeliverFails, LoopStops
  <2>2. WillBeImage' => WillBeImage
    BY <1>8, <2>1 DEF LoopWakes, TakeNothing, Deliver, DeliverFails, LoopStops, WillBeImage, queue
  <2> QED BY <1>3, <2>1, <2>2
<1>9. \/ EnqueueFrame \/ RequestFullFrame \/ TakePending
      \/ UNCHANGED queue /\ UNCHANGED <<firstFrame, loopPc>>
      \/ LoopWakes \/ TakeNothing \/ Deliver \/ DeliverFails \/ LoopStops
  BY DEF Next, vars, display, Read, ReadRaw, ReadCopy, ReadDesktopSize, Reconnect, ReaderWakes,
         ReaderStops, Damage, RequestWakes, Loop, Cancel
<1> QED BY <1>4, <1>5, <1>6, <1>7, <1>8, <1>9

LEMMA OutputStep ==
    ASSUME Fits, [Next]_vars
    PROVE  OutputFits'
<1>1. Plain' = Plain
  BY BudgetStep DEF Fits, Scalars
<1>2. \A w : RegionsOf(w)' = RegionsOf(w)
  BY <1>1, RegionsKept
<1>3. CASE UNCHANGED <<loopPc, out, firstFrame>>
  <2>1. OutputFits
    BY DEF Fits
  <2>2. CASE loopPc # "show"
    BY <1>3, <2>1, <2>2 DEF OutputFits, NoOutput, NoFrame
  <2>3. CASE loopPc = "show"
    <3>1. PICK w \in Widths :
            /\ out.snapshot \in Image(w)
            /\ out.changed \in Seq(RegionsOf(w))
            /\ ShowsImage => Covered(out.changed) = 0..(w - 1)
      BY <2>1, <2>3 DEF OutputFits
    <3>2. Covered(out.changed)' = Covered(out.changed) /\ ShowsImage' = ShowsImage
      BY <1>3 DEF Covered, ShowsImage
    <3>3. /\ out'.snapshot \in Image(w) /\ out'.changed \in Seq(RegionsOf(w)')
          /\ ShowsImage' => Covered(out.changed)' = 0..(w - 1)
      BY <1>2, <1>3, <3>1, <3>2
    <3> QED BY <1>3, <2>3, <3>3 DEF OutputFits
  <2> QED BY <2>2, <2>3
<1>4. CASE TakePending
  <2>1. /\ out' = [changed |-> pending, resized |-> pendingResized, snapshot |-> Snapshot(pending)]
        /\ latest # NoFrame /\ loopPc = "pace" /\ loopPc' = "show" /\ firstFrame' = firstFrame
    BY <1>4 DEF TakePending
  <2>2. PICK w \in Widths :
          /\ latest \in Image(w)
          /\ pending \in Seq(RegionsOf(w)) /\ Len(pending) <= MaxPending
          /\ WillBeImage => Covered(pending) = 0..(w - 1)
    BY <2>1 DEF Fits, QueueFits
  <2>3. /\ out'.changed = pending /\ out'.resized = pendingResized
        /\ out'.snapshot = Snapshot(pending)
    BY <2>1
  <2>4. Snapshot(pending) \in Image(w)
    BY <2>2 DEF Snapshot, Image, Pixels
  <2>5. Covered(out.changed)' = Covered(pending)
    BY <2>3 DEF Covered
  <2>6. ShowsImage' => WillBeImage
    BY <2>1, <2>3 DEF ShowsImage, WillBeImage
  <2>7. ShowsImage' => Covered(out.changed)' = 0..(w - 1)
    BY <2>2, <2>5, <2>6
  <2>8. out'.snapshot \in Image(w) /\ out'.changed \in Seq(RegionsOf(w)')
    BY <1>2, <2>2, <2>3, <2>4
  <2> QED BY <2>1, <2>7, <2>8 DEF OutputFits
<1>5. CASE LoopWakes \/ TakeNothing \/ LoopStops
  <2>1. loopPc # "show" /\ loopPc' # "show" /\ out' = out
    BY <1>5 DEF LoopWakes, TakeNothing, LoopStops
  <2> QED BY <2>1 DEF Fits, OutputFits, NoOutput, NoFrame
<1>6. CASE Deliver \/ DeliverFails
  <2>1. loopPc' # "show" /\ out' = NoOutput
    BY <1>6 DEF Deliver, DeliverFails
  <2> QED BY <2>1 DEF OutputFits, NoOutput, NoFrame
<1>7. \/ UNCHANGED <<loopPc, out, firstFrame>> \/ TakePending
      \/ LoopWakes \/ TakeNothing \/ LoopStops \/ Deliver \/ DeliverFails
  BY DEF Next, vars, display, Read, ReadRaw, ReadCopy, ReadDesktopSize, Reconnect, EnqueueFrame,
         ReaderWakes, ReaderStops, Damage, RequestFullFrame, RequestWakes, Loop, Cancel
<1> QED BY <1>3, <1>4, <1>5, <1>6, <1>7

LEMMA ScreenStep ==
    ASSUME Fits, [Next]_vars
    PROVE  screen' \in [Row -> Contents]
<1>1. screen \in [Row -> Contents]
  BY DEF Fits, Scalars
<1>2. CASE screen' = screen
  BY <1>1, <1>2
<1>3. ASSUME NEW c \in Row, Damage(c) PROVE screen' \in [Row -> Contents]
  <2>1. screen' = [screen EXCEPT ![c] = Lost] /\ Lost \in Contents
    BY <1>3 DEF Damage, Contents
  <2> HIDE DEF Contents, Row
  <2> QED BY <1>1, <2>1
<1>4. CASE Deliver
  <2>1. PICK w \in Widths : out.snapshot \in Image(w) /\ out.changed \in Seq(RegionsOf(w))
    BY <1>4 DEF Deliver, Fits, OutputFits
  <2>2. RegionsShown \in [Row -> Contents]
    BY <1>1, <2>1, RegionsDrawn
  <2>3. ImageShown \in [Row -> Contents]
    <3>1. out.snapshot \in [0..(w - 1) -> Pixels]
      BY <2>1 DEF Image
    <3>2. Pixels \subseteq Contents /\ Black \in Contents
      BY DEF Pixels, Contents
    <3> HIDE DEF Pixels, Contents, Row
    <3> QED BY <3>1, <3>2 DEF ImageShown
  <2> QED BY <1>4, <2>2, <2>3, Zenon DEF Deliver
<1>5. Deliver \/ (\E c \in Row : Damage(c)) \/ screen' = screen
  BY DEF Next, vars, display, Read, ReadRaw, ReadCopy, ReadDesktopSize, Reconnect, EnqueueFrame,
         ReaderWakes, ReaderStops, RequestFullFrame, RequestWakes, Loop, LoopWakes, TakeNothing,
         TakePending, DeliverFails, Cancel, LoopStops
<1> QED BY <1>2, <1>3, <1>4, <1>5

LEMMA ScalarsStep ==
    ASSUME Fits, [Next]_vars
    PROVE  Scalars'
<1> DEFINE Flags == /\ readerPc \in {"read", "wake", "stopped"}
                    /\ frameWake \in BOOLEAN /\ resized \in BOOLEAN /\ pendingResized \in BOOLEAN
                    /\ requestPc \in {"idle", "owed", "wake"}
                    /\ loopPc \in {"wait", "pace", "show", "stopped"}
                    /\ firstFrame \in BOOLEAN /\ cancelled \in BOOLEAN
<1>1. Flags
  BY DEF Fits, Scalars
<1>2. Flags'
  <2>1. CASE UNCHANGED vars
    BY <1>1, <2>1 DEF vars, reader, queue, display
  <2>2. CASE Read
    <3>1. UNCHANGED <<readerPc, queue, frameWake, requestPc, display, cancelled>>
      BY <2>2 DEF Read, ReadRaw, ReadCopy, ReadDesktopSize, Reconnect
    <3>2. resized' \in BOOLEAN
      <4>1. resized' = resized \/ resized' = TRUE \/ resized' = FALSE
        BY <2>2 DEF Read, ReadRaw, ReadCopy, ReadDesktopSize, Reconnect
      <4> QED BY <1>1, <4>1
    <3> QED BY <1>1, <3>1, <3>2 DEF queue, display
  <2>3. CASE EnqueueFrame \/ ReaderWakes \/ ReaderStops
    BY <1>1, <2>3 DEF EnqueueFrame, ReaderWakes, ReaderStops, Woken, queue, display
  <2>4. CASE (\E c \in Row : Damage(c)) \/ RequestFullFrame \/ RequestWakes
    BY <1>1, <2>4 DEF Damage, RequestFullFrame, RequestWakes, Woken, reader, queue, display
  <2>5. CASE Loop
    BY <1>1, <2>5 DEF Loop, LoopWakes, TakeNothing, TakePending, Deliver, reader, queue
  <2>6. CASE DeliverFails \/ Cancel \/ LoopStops
    BY <1>1, <2>6 DEF DeliverFails, Cancel, LoopStops, reader, queue, display
  <2> QED BY <2>1, <2>2, <2>3, <2>4, <2>5, <2>6 DEF Next
<1>3. screen' \in [Row -> Contents]
  BY ScreenStep
<1>4. budget' \in Budgets
  BY BudgetStep DEF Fits, Scalars
<1>5. Row' = Row
  BY DEF Row
<1>6. Budgets' = Budgets /\ Contents' = Contents
  BY DEF Budgets, Contents, Colors
<1> QED BY <1>2, <1>3, <1>4, <1>5, <1>6 DEF Scalars

LEMMA InitFits == Init => Fits
<1> SUFFICES ASSUME Init PROVE Fits
  OBVIOUS
<1>1. budget \in Budgets
  BY BoundAssumption DEF Init, Budgets
<1>2. screen \in [Row -> Contents]
  BY DEF Init, Contents
<1>3. Scalars
  BY <1>1, <1>2 DEF Init, Scalars
<1>4. FrameFits
  <2>1. PICK w \in Widths : frame = Blank(w)
    BY DEF Init
  <2>2. frame \in Image(w)
    BY <2>1, RowHolds, BlankFits
  <2> QED BY <2>2 DEF Init, FrameFits
<1>5. QueueFits /\ OutputFits
  BY DEF Init, QueueFits, OutputFits
<1> QED BY <1>3, <1>4, <1>5 DEF Fits

LEMMA StepFits == Fits /\ [Next]_vars => Fits'
BY ScalarsStep, FrameStep, QueueStep, OutputStep DEF Fits

LEMMA AlwaysFits == Spec => []Fits
BY InitFits, StepFits, PTL DEF Spec

LEMMA UpdatesTyped ==
    ASSUME NEW w \in Widths
    PROVE  Seq(RegionsOf(w)) \subseteq Seq(Updates) /\ Image(w) \in {Image(v) : v \in Widths}
<1>1. 0..(w - 1) \subseteq Row
  BY RowHolds
<1> HIDE DEF Row
<1>2. RegionsOf(w) \subseteq Updates
  BY <1>1 DEF RegionsOf, Updates
<1> HIDE DEF RegionsOf, Updates
<1> QED BY <1>2

\* Whatever the server, the transport and the context do, every variable keeps its
\* type, no region leaves the framebuffer it belongs to and the queue never grows
\* over its limit.
THEOREM TypeCorrect == Spec => []TypeOK
<1>1. Fits => TypeOK
  <2> SUFFICES ASSUME Fits PROVE TypeOK
    OBVIOUS
  <2>1. \A w \in Widths : Image(w) \subseteq Frames
    BY DEF Image, Pixels, Frames
  <2>2. frame \in Frames /\ changed \in Seq(Updates) /\ received \subseteq DOMAIN frame
    <3>1. PICK w \in Widths :
            /\ frame \in Image(w)
            /\ changed \in Seq(RegionsOf(w))
            /\ received \subseteq 0..(w - 1)
      BY DEF Fits, FrameFits
    <3>2. DOMAIN frame = 0..(w - 1)
      BY <3>1 DEF Image
    <3> QED BY <2>1, <3>1, <3>2, UpdatesTyped
  <2>3. latest \in Frames \cup {NoFrame} /\ pending \in Seq(Updates) /\ Len(pending) <= MaxPending
    <3>1. CASE latest = NoFrame /\ pending = <<>>
      BY <3>1, LimitAssumption
    <3>2. CASE ~(latest = NoFrame /\ pending = <<>>)
      <4>1. PICK w \in Widths :
              /\ latest \in Image(w)
              /\ pending \in Seq(RegionsOf(w)) /\ Len(pending) <= MaxPending
        BY <3>2 DEF Fits, QueueFits
      <4> QED BY <2>1, <4>1, UpdatesTyped
    <3> QED BY <3>1, <3>2
  <2>4. out.changed \in Seq(Updates)
    <3>1. CASE loopPc = "show"
      <4>1. PICK w \in Widths : out.changed \in Seq(RegionsOf(w))
        BY <3>1 DEF Fits, OutputFits
      <4> QED BY <4>1, UpdatesTyped
    <3>2. CASE loopPc # "show"
      <4>1. out = NoOutput
        BY <3>2 DEF Fits, OutputFits
      <4>2. out.changed = <<>>
        BY <4>1 DEF NoOutput
      <4> QED BY <4>2
    <3> QED BY <3>1, <3>2
  <2> QED BY <2>2, <2>3, <2>4 DEF Fits, Scalars, TypeOK
<1> QED BY <1>1, AlwaysFits, PTL

\* What frameLoop draws as a complete image covers all of its framebuffer, for
\* every way of merging, collapsing, resizing, reconnecting and resynchronizing.
THEOREM NoHoleInImageCorrect == Spec => []NoHoleInImage
<1>1. Fits => NoHoleInImage
  <2> SUFFICES ASSUME Fits, loopPc = "show", ShowsImage
               PROVE  Covered(out.changed) = DOMAIN out.snapshot
    BY DEF NoHoleInImage
  <2>1. PICK w \in Widths :
          out.snapshot \in Image(w) /\ (ShowsImage => Covered(out.changed) = 0..(w - 1))
    BY DEF Fits, OutputFits
  <2>2. DOMAIN out.snapshot = 0..(w - 1)
    BY <2>1 DEF Image
  <2> QED BY <2>1, <2>2
<1> QED BY <1>1, AlwaysFits, PTL

-----------------------------------------------------------------------------
(* No step of a plain session forgets a cell.                              *)

Memory == LatestIsNewest /\ DrawnIsNewest /\ ResizedIsQueued /\ NoneForgotten

LEMMA CoveredNext ==
    /\ Covered(changed)' = Covered(changed')
    /\ Covered(pending)' = Covered(pending')
    /\ Covered(out.changed)' = Covered(out'.changed)
BY DEF Covered

\* Steps that touch neither the frames nor what is in flight.
LEMMA IdleRemembers ==
    ASSUME Memory, UNCHANGED <<frame, changed, received, latest, pending, out, screen>>,
           loopPc' = "show" => loopPc = "show", requestPc = "owed" => requestPc' = "owed"
    PROVE  Memory'
<1>1. /\ Covered(changed)' = Covered(changed) /\ Covered(pending)' = Covered(pending)
      /\ Covered(out.changed)' = Covered(out.changed)
  BY CoveredNext
<1>2. LatestIsNewest'
  BY <1>1 DEF Memory, LatestIsNewest
<1>3. DrawnIsNewest'
  BY <1>1 DEF Memory, DrawnIsNewest
<1>4. ResizedIsQueued'
  BY <1>1 DEF Memory, ResizedIsQueued
<1>5. NoneForgotten'
  BY <1>1 DEF Memory, NoneForgotten, Stale
<1> QED BY <1>2, <1>3, <1>4, <1>5 DEF Memory

LEMMA ReadRemembers ==
    ASSUME Fits, Memory, Plain, Read
    PROVE  Memory'
<1>1. PICK w \in Widths :
        /\ frame \in Image(w)
        /\ changed \in Seq(RegionsOf(w))
        /\ received \subseteq 0..(w - 1)
  BY DEF Fits, FrameFits
<1>2. /\ UNCHANGED <<latest, pending, out, screen, loopPc, requestPc>>
      /\ Covered(pending)' = Covered(pending) /\ Covered(out.changed)' = Covered(out.changed)
  BY CoveredNext DEF Read, ReadRaw, ReadCopy, ReadDesktopSize, Reconnect, queue, display
<1>3. ResizedIsQueued'
  BY <1>2 DEF Memory, ResizedIsQueued
<1>4. CASE received' = {}
  BY <1>3, <1>4 DEF Memory, LatestIsNewest, DrawnIsNewest, NoneForgotten
<1>5. ASSUME NEW lo \in Row, NEW hi \in Row, NEW color, lo <= hi, ReadRaw(lo, hi, color)
      PROVE  Memory'
  <2>1. /\ lo..hi \subseteq 0..(w - 1) /\ DOMAIN frame = 0..(w - 1)
        /\ frame' = [c \in DOMAIN frame |-> IF c \in lo..hi THEN color ELSE frame[c]]
        /\ changed' = Append(changed, Raw(lo, hi))
        /\ received' = received \cup (lo..hi)
    BY <1>1, <1>5 DEF ReadRaw, Image
  <2>2. lo \in 0..(w - 1) /\ hi \in 0..(w - 1) /\ w \in Nat \ {0}
    BY <1>5, <2>1, RowIsLargest, RowHolds
  <2>3. Raw(lo, hi) \in RegionsOf(w) /\ Cells(Raw(lo, hi)) = lo..hi
    BY <1>5, <2>2, RawFits
  <2>4. Covered(changed)' = Covered(changed) \cup (lo..hi)
    <3>1. Covered(Append(changed, Raw(lo, hi))) = Covered(changed) \cup Cells(Raw(lo, hi))
      BY <1>1, <2>3, CoveredAppend
    <3> QED BY <2>1, <2>3, <3>1, CoveredNext
  <2>5. \A c \in received' \ Covered(changed)' :
            c \in received \ Covered(changed) /\ frame'[c] = frame[c]
    BY <1>1, <2>1, <2>4
  <2>6. LatestIsNewest'
    BY <1>2, <2>5 DEF Memory, LatestIsNewest
  <2>7. DrawnIsNewest'
    BY <1>2, <2>5 DEF Memory, DrawnIsNewest
  <2>8. NoneForgotten'
    BY <1>2, <2>5 DEF Memory, NoneForgotten, Stale
  <2> QED BY <1>3, <2>6, <2>7, <2>8 DEF Memory
<1>6. (\E lo, hi \in Row, color \in Palette[Plain] : lo <= hi /\ ReadRaw(lo, hi, color))
      \/ received' = {}
  BY DEF Read, ReadCopy, ReadDesktopSize, Reconnect
<1> QED BY <1>4, <1>5, <1>6

LEMMA EnqueueRemembers ==
    ASSUME Fits, Memory, EnqueueFrame
    PROVE  Memory'
<1>1. PICK w \in Widths :
        /\ frame \in Image(w)
        /\ changed \in Seq(RegionsOf(w))
        /\ received \subseteq 0..(w - 1)
  BY DEF Fits, FrameFits
<1>2. w \in Nat \ {0} /\ DOMAIN frame = 0..(w - 1) /\ Full(frame) = Raw(0, w - 1)
  BY <1>1, RowHolds, FullIsWhole DEF Image
<1>3. /\ changed' = <<>> /\ UNCHANGED <<frame, received, out, screen, loopPc, requestPc>>
      /\ Covered(changed)' = {} /\ Covered(out.changed)' = Covered(out.changed)
  BY CoveredNext, CoveredFew DEF EnqueueFrame, display
<1>4. DOMAIN latest' = 0..(w - 1) /\ \A c \in received : latest'[c] = frame[c]
  <2>1. CASE ~Sized
    BY <1>2, <2>1 DEF EnqueueFrame
  <2>2. CASE Sized
    BY <1>1, <1>2, <2>2 DEF EnqueueFrame, Redrawn, Memory, LatestIsNewest
  <2> QED BY <2>1, <2>2
<1>5. /\ \/ Covered(pending)' = 0..(w - 1)
         \/ Covered(pending) \cup Covered(changed) \subseteq Covered(pending)'
      /\ loopPc = "show" /\ DOMAIN out.snapshot # DOMAIN latest' => Covered(pending)' = 0..(w - 1)
  <2>1. CASE ~Sized
    <3>1. pending' = <<Raw(0, w - 1)>>
      BY <1>2, <2>1 DEF EnqueueFrame
    <3> QED BY <1>2, <3>1, WholeIsQueue, CoveredNext
  <2>2. CASE Sized
    <3>1. pending' = QueuedUpdates(pending, changed) /\ DOMAIN latest = 0..(w - 1)
      BY <1>2, <2>2 DEF EnqueueFrame, Sized
    <3>2. latest # NoFrame
      BY <1>2, <3>1 DEF NoFrame
    <3>3. PICK v \in Widths :
            latest \in Image(v) /\ pending \in Seq(RegionsOf(v)) /\ Len(pending) <= MaxPending
      BY <3>2 DEF Fits, QueueFits
    <3>4. DOMAIN latest = 0..(v - 1) /\ v \in Nat \ {0}
      BY <3>3, WidthAssumption DEF Image
    <3>5. v = w
      BY <1>2, <3>1, <3>4, DomainIsWidth
    <3>6. pending \in Queues(w)
      BY <3>3, <3>5 DEF Queues
    <3>7. /\ pending' \in Queues(w)
          /\ Covered(pending) \cup Covered(changed) \subseteq Covered(pending')
      BY <1>1, <1>2, <3>1, <3>6, QueuedCovers
    <3>8. Covered(pending') \subseteq 0..(w - 1)
      BY <1>2, <3>7, CoveredWithin DEF Queues
    <3>9. ASSUME loopPc = "show", DOMAIN out.snapshot # DOMAIN latest'
          PROVE  Covered(pending)' = 0..(w - 1)
      <4>1. Covered(pending) = 0..(w - 1)
        BY <1>4, <3>1, <3>9 DEF Memory, ResizedIsQueued
      <4> QED BY <3>7, <3>8, <4>1, CoveredNext
    <3> QED BY <3>7, <3>9, CoveredNext
  <2> QED BY <2>1, <2>2
<1>6. \A c \in received \ Covered(pending)' :
        c \in received \ (Covered(changed) \cup Covered(pending))
  BY <1>1, <1>5
<1>7. LatestIsNewest'
  BY <1>1, <1>3, <1>4 DEF LatestIsNewest
<1>8. DrawnIsNewest'
  BY <1>3, <1>6 DEF Memory, DrawnIsNewest
<1>9. ResizedIsQueued'
  BY <1>3, <1>4, <1>5 DEF ResizedIsQueued
<1>10. NoneForgotten'
  BY <1>3, <1>6 DEF Memory, NoneForgotten, Stale
<1> QED BY <1>7, <1>8, <1>9, <1>10 DEF Memory

LEMMA RequestRemembers ==
    ASSUME Fits, Memory, RequestFullFrame
    PROVE  Memory'
<1>1. UNCHANGED <<frame, changed, received, latest, loopPc, out, screen>>
  BY DEF RequestFullFrame, reader, queue, display
<1>2. Covered(changed)' = Covered(changed) /\ Covered(out.changed)' = Covered(out.changed)
  BY <1>1, CoveredNext
<1>3. CASE latest = NoFrame
  <2>1. pending' = pending /\ Covered(pending)' = Covered(pending)
    BY <1>3, CoveredNext DEF RequestFullFrame, queue
  <2>2. received \subseteq Covered(changed)
    <3>1. DOMAIN latest = {}
      BY <1>3 DEF NoFrame
    <3> QED BY <3>1 DEF Memory, LatestIsNewest
  <2>3. NoneForgotten'
    BY <1>1, <1>2, <2>2 DEF NoneForgotten
  <2>4. LatestIsNewest' /\ DrawnIsNewest' /\ ResizedIsQueued'
    BY <1>1, <1>2, <2>1 DEF Memory, LatestIsNewest, DrawnIsNewest, ResizedIsQueued
  <2> QED BY <2>3, <2>4 DEF Memory
<1>4. CASE latest # NoFrame
  <2>1. PICK w \in Widths : latest \in Image(w)
    BY <1>4 DEF Fits, QueueFits
  <2>2. w \in Nat \ {0} /\ DOMAIN latest = 0..(w - 1)
    BY <2>1, WidthAssumption DEF Image
  <2>3. pending' = <<Raw(0, w - 1)>>
    BY <1>4, <2>2, FullIsWhole DEF RequestFullFrame, Requested
  <2>4. Covered(pending)' = DOMAIN latest
    BY <2>2, <2>3, WholeIsQueue, CoveredNext
  <2>5. \A c \in received \ Covered(changed) : c \in Covered(pending)'
    BY <2>4 DEF Memory, LatestIsNewest
  <2>6. LatestIsNewest'
    BY <1>1, <1>2 DEF Memory, LatestIsNewest
  <2>7. DrawnIsNewest' /\ NoneForgotten'
    BY <1>1, <1>2, <2>5 DEF DrawnIsNewest, NoneForgotten
  <2>8. ResizedIsQueued'
    BY <1>1, <2>4 DEF ResizedIsQueued
  <2> QED BY <2>6, <2>7, <2>8 DEF Memory
<1> QED BY <1>3, <1>4

LEMMA TakeRemembers ==
    ASSUME Fits, Memory, TakePending
    PROVE  Memory'
<1>1. /\ UNCHANGED <<frame, changed, received, latest, screen, requestPc>>
      /\ out'.changed = pending /\ out'.snapshot = Snapshot(pending)
  BY DEF TakePending, reader
<1>2. /\ Covered(changed)' = Covered(changed) /\ Covered(out.changed)' = Covered(pending)
  BY <1>1, CoveredNext
<1>3. Covered(out.changed) = {}
  <2>1. out = NoOutput
    BY DEF TakePending, Fits, OutputFits
  <2>2. out.changed = <<>>
    BY <2>1 DEF NoOutput
  <2> QED BY <2>2, CoveredFew
<1>4. DOMAIN out'.snapshot = DOMAIN latest
  BY <1>1 DEF Snapshot
<1>5. LatestIsNewest'
  BY <1>1, <1>2 DEF Memory, LatestIsNewest
<1>6. DrawnIsNewest'
  <2> SUFFICES ASSUME NEW c \in received \ Covered(changed), c \in Covered(pending)
               PROVE  out'.snapshot[c] = frame[c]
    BY <1>1, <1>2 DEF DrawnIsNewest
  <2>1. c \in DOMAIN latest /\ latest[c] = frame[c]
    BY DEF Memory, LatestIsNewest
  <2> QED BY <1>1, <2>1 DEF Snapshot
<1>7. ResizedIsQueued'
  BY <1>1, <1>4 DEF ResizedIsQueued
<1>8. NoneForgotten'
  BY <1>1, <1>2, <1>3 DEF Memory, NoneForgotten, Stale
<1> QED BY <1>5, <1>6, <1>7, <1>8 DEF Memory

LEMMA DeliverRemembers ==
    ASSUME Fits, Memory, Plain, Deliver
    PROVE  Memory'
<1>1. /\ UNCHANGED <<frame, changed, received, latest, pending, requestPc>>
      /\ loopPc = "show" /\ loopPc' = "wait"
  BY DEF Deliver, reader, queue
<1>2. Covered(changed)' = Covered(changed) /\ Covered(pending)' = Covered(pending)
  BY <1>1, CoveredNext
<1>3. LatestIsNewest' /\ DrawnIsNewest' /\ ResizedIsQueued'
  BY <1>1, <1>2 DEF Memory, LatestIsNewest, DrawnIsNewest, ResizedIsQueued
<1>4. PICK w \in Widths :
        /\ out.snapshot \in Image(w)
        /\ out.changed \in Seq(RegionsOf(w))
        /\ ShowsImage => Covered(out.changed) = 0..(w - 1)
  BY <1>1 DEF Fits, OutputFits
<1>5. DOMAIN out.snapshot = 0..(w - 1) /\ 0..(w - 1) \subseteq Row
  BY <1>4, RowHolds DEF Image
<1>6. received \subseteq Row
  BY RowHolds DEF Fits, FrameFits
<1>7. NoneForgotten'
  <2> SUFFICES ASSUME NEW c \in received, c \notin Covered(changed), c \notin Covered(pending),
                      requestPc # "owed"
               PROVE  screen'[c] = frame[c]
    BY <1>1, <1>2 DEF NoneForgotten, Stale
  <2>1. c \in Row
    BY <1>6
  <2>2. c \in DOMAIN latest /\ latest[c] = frame[c]
    BY DEF Memory, LatestIsNewest
  <2>3. c \in Covered(out.changed) => out.snapshot[c] = frame[c]
    BY <1>1 DEF Memory, DrawnIsNewest
  <2>4. c \notin Covered(out.changed) => screen[c] = frame[c]
    BY DEF Memory, NoneForgotten, Stale
  <2>5. CASE ShowsImage
    <3>1. screen' = ImageShown
      BY <2>5 DEF Deliver
    <3>2. c \in DOMAIN out.snapshot
      BY <1>1, <2>2 DEF Memory, ResizedIsQueued
    <3>3. c \in Covered(out.changed)
      BY <1>4, <1>5, <2>5, <3>2
    <3> QED BY <2>1, <2>3, <3>1, <3>2, <3>3 DEF ImageShown
  <2>6. CASE ~ShowsImage
    <3>1. screen' = RegionsShown
      BY <2>6 DEF Deliver
    <3>2. screen \in [Row -> Contents]
      BY DEF Fits, Scalars
    <3>3. RegionsShown[c] = IF c \in Covered(out.changed) THEN out.snapshot[c] ELSE screen[c]
      BY <1>4, <2>1, <3>2, RegionsDrawn
    <3> QED BY <2>3, <2>4, <3>1, <3>3
  <2> QED BY <2>5, <2>6
<1> QED BY <1>3, <1>7 DEF Memory

LEMMA StepRemembers == Fits /\ Remembered /\ [Next]_vars => Remembered'
<1> SUFFICES ASSUME Fits, Remembered, [Next]_vars, Plain' PROVE Memory'
  BY DEF Remembered, Memory
<1>1. Plain /\ Memory
  BY BudgetStep DEF Remembered, Memory, Fits, Scalars
<1>2. CASE Read
  BY <1>1, <1>2, ReadRemembers
<1>3. CASE EnqueueFrame
  BY <1>1, <1>3, EnqueueRemembers
<1>4. CASE \E c \in Row : Damage(c)
  <2>1. /\ UNCHANGED <<frame, changed, received, latest, pending, out, loopPc>>
        /\ requestPc' = "owed"
    BY <1>4 DEF Damage, reader, queue
  <2>2. /\ Covered(changed)' = Covered(changed) /\ Covered(pending)' = Covered(pending)
        /\ Covered(out.changed)' = Covered(out.changed)
    BY <2>1, CoveredNext
  <2>3. LatestIsNewest' /\ DrawnIsNewest' /\ ResizedIsQueued'
    BY <1>1, <2>1, <2>2 DEF Memory, LatestIsNewest, DrawnIsNewest, ResizedIsQueued
  <2>4. NoneForgotten'
    BY <2>1 DEF NoneForgotten
  <2> QED BY <2>3, <2>4 DEF Memory
<1>5. CASE RequestFullFrame
  BY <1>1, <1>5, RequestRemembers
<1>6. CASE TakePending
  BY <1>1, <1>6, TakeRemembers
<1>7. CASE Deliver
  BY <1>1, <1>7, DeliverRemembers
<1>8. CASE DeliverFails
  BY <1>1, <1>8 DEF DeliverFails
<1>9. CASE \/ ReaderWakes \/ ReaderStops \/ RequestWakes \/ LoopWakes \/ TakeNothing \/ Cancel
           \/ LoopStops \/ UNCHANGED vars
  <2>1. /\ UNCHANGED <<frame, changed, received, latest, pending, out, screen>>
        /\ loopPc' = "show" => loopPc = "show"
        /\ requestPc = "owed" => requestPc' = "owed"
    BY <1>9 DEF ReaderWakes, ReaderStops, RequestWakes, LoopWakes, TakeNothing, Cancel, LoopStops,
                vars, reader, queue, display
  <2> QED BY <1>1, <2>1, IdleRemembers
<1> QED BY <1>2, <1>3, <1>4, <1>5, <1>6, <1>7, <1>8, <1>9 DEF Next, Loop

\* Coalescing, collapsing a full queue, resizing, reconnecting and redrawing lose
\* no cell of a plain session: while the terminal shows something else than the
\* framebuffer somewhere, somebody still holds an update that repairs it.
THEOREM NothingForgottenCorrect == Spec => []NothingForgotten
<1>1. Init => Remembered
  BY DEF Init, Remembered, LatestIsNewest, DrawnIsNewest, ResizedIsQueued, NoneForgotten
<1>2. Remembered => NothingForgotten
  BY DEF Remembered, NoneForgotten, NothingForgotten
<1> QED BY <1>1, <1>2, AlwaysFits, StepRemembers, PTL DEF Spec

\* What the comment on frameLoop says of it, for a session whose server sends no
\* CopyRect: once everything is drawn, the terminal shows the newest framebuffer.
THEOREM PlainNewestShown == Spec => [](Plain => NewestShown)
<1>1. Fits /\ NothingForgotten => (Plain => NewestShown)
  <2> SUFFICES ASSUME Fits, NothingForgotten, Plain, Settled, NEW c \in received
               PROVE  ~Stale(c)
    BY DEF NewestShown
  <2>1. out = NoOutput
    BY DEF Settled, Fits, OutputFits
  <2>2. out.changed = <<>> /\ changed = <<>> /\ pending = <<>> /\ requestPc # "owed"
    BY <2>1 DEF Settled, NoOutput
  <2>3. c \notin Covered(out.changed) /\ c \notin Covered(changed) /\ c \notin Covered(pending)
    BY <2>2, CoveredFew
  <2> QED BY <2>2, <2>3 DEF NothingForgotten
<1> QED BY <1>1, AlwaysFits, NothingForgottenCorrect, PTL
=============================================================================
