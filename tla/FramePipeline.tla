--------------------------- MODULE FramePipeline ---------------------------
(***************************************************************************)
(* From an RFB server to one terminal screen: the reader of                *)
(* internal/vnc/protocol.go, the coalescing frame queue of                 *)
(* internal/vnc/session.go, the OnFrame closure of internal/server and     *)
(* ShowImage and ShowImageRegions of internal/display/render.go.  The      *)
(* screen is one row of cells and a rectangle an interval of cells.        *)
(***************************************************************************)
EXTENDS Integers, Sequences, FiniteSets

CONSTANTS
    Widths,        \* framebuffer widths of the RFB server, in cells
    Palette,       \* contents the server gives a cell, by kind of session
    MergeDistance, \* mergeDistance, in cells
    MaxPending,    \* 127 in the code: a longer queue becomes one rectangle
    MaxRects,      \* rectangles the server sends              (bound)
    MaxResizes,    \* DesktopSize rectangles and reconnections (bound)
    MaxDamage,     \* resynchronizations the transport asks for (bound)
    MaxFailures    \* OnFrame calls that return an error       (bound)

\* RFB has 16 bits for a width: one of them is the largest.
ASSUME WidthAssumption ==
    Widths \subseteq Nat \ {0} /\ \E w \in Widths : \A v \in Widths : v <= w
ASSUME LimitAssumption == MergeDistance \in Nat /\ MaxPending \in Nat \ {0}
ASSUME BoundAssumption == {MaxRects, MaxResizes, MaxDamage, MaxFailures} \subseteq Nat
ASSUME KindAssumption  == DOMAIN Palette \subseteq BOOLEAN

VARIABLES
    frame,          \* connection.frame
    changed,        \* changed of readFramebufferUpdate
    resized,        \* resized of readFramebufferUpdate
    readerPc,       \* the connection's goroutine
    latest,         \* Session.latestFrame
    pending,        \* Session.pendingChanged
    pendingResized, \* Session.pendingResized
    frameWake,      \* a token is in Session.frameWake, capacity 1
    requestPc,      \* the goroutine that calls RequestFullFrame
    loopPc,         \* frameLoop
    out,            \* what frameLoop hands to OnFrame
    firstFrame,     \* firstFrame of the OnFrame closure
    screen,         \* what the terminal shows (external)
    received,       \* cells this connection's server has sent (auxiliary)
    cancelled,      \* the session context is cancelled
    budget          \* what is left of the bounds, and whether the session is plain

reader  == <<frame, changed, resized, readerPc, received>>
queue   == <<latest, pending, pendingResized>>
display == <<loopPc, out, firstFrame, screen>>
vars    == <<reader, queue, frameWake, requestPc, display, cancelled, budget>>

Black == "black"       \* a cell nobody has drawn
Lost  == "lost"        \* a cell whose drawing operations were given up
Blank(w) == [c \in 0..(w - 1) |-> Black]
NoFrame == <<>>        \* latestFrame is nil

Row == 0..(CHOOSE w \in Widths : \A v \in Widths : v <= w) - 1

\* In a plain session the server sends no CopyRect, every delivery succeeds and
\* nobody cancels.
Plain == budget.plain
Colors == UNION {Palette[kind] : kind \in DOMAIN Palette}

Spend(name) == budget[name] > 0 /\ budget' = [budget EXCEPT ![name] = @ - 1]

-----------------------------------------------------------------------------
\* Regions.

Raw(lo, hi)       == [lo |-> lo, hi |-> hi, copy |-> FALSE, src |-> 0]
Copy(lo, hi, src) == [lo |-> lo, hi |-> hi, copy |-> TRUE, src |-> src]
Cells(u)          == u.lo..u.hi
Covered(updates)  == UNION {Cells(updates[i]) : i \in DOMAIN updates}
Full(f)           == Raw(0, Cardinality(DOMAIN f) - 1)

Lesser(a, b)  == IF a <= b THEN a ELSE b
Greater(a, b) == IF a <= b THEN b ELSE a
Hull(u, v)    == Raw(Lesser(u.lo, v.lo), Greater(u.hi, v.hi))

\* Rectangles closer than mergeDistance overlap once one of them is outset.
Nearby(u, v) == u.lo <= v.hi + MergeDistance /\ v.lo <= u.hi + MergeDistance

\* The last updates of a queue that are all raw.
LastCopy(updates) == {i \in DOMAIN updates : updates[i].copy}
RawTail(updates) ==
    {i \in DOMAIN updates : \A k \in LastCopy(updates) : k < i}

\* One step of the merge loop at entry i: it is absorbed, or kept before those
\* behind it.
Absorb(updates, acc, i) ==
    IF i \in RawTail(updates) /\ Nearby(updates[i], acc.new)
    THEN [kept |-> acc.kept, new |-> Hull(acc.new, updates[i])]
    ELSE [kept |-> <<updates[i]>> \o acc.kept, new |-> acc.new]

\* From the last entry down.
Merged(updates, u) ==
    LET n == Len(updates)
        acc[i \in 0..n] == IF i = 0 THEN [kept |-> <<>>, new |-> u]
                           ELSE Absorb(updates, acc[i - 1], n + 1 - i)
    IN  acc[n]

\* appendChangedUpdate: a raw update absorbs what is near it in the trailing raw
\* run, a copy never merges, and a queue that is full becomes one update.
AppendUnlimited(updates, u, full) ==
    LET m == IF u.copy THEN [kept |-> updates, new |-> u] ELSE Merged(updates, u)
    IN  Append(m.kept, m.new)

AppendDropping(updates, u, full) ==
    LET m == IF u.copy THEN [kept |-> updates, new |-> u] ELSE Merged(updates, u)
    IN  IF Len(m.kept) >= MaxPending THEN m.kept ELSE Append(m.kept, m.new)

AppendChanged(updates, u, full) ==
    LET m == IF u.copy THEN [kept |-> updates, new |-> u] ELSE Merged(updates, u)
    IN  IF Len(m.kept) >= MaxPending THEN <<full>> ELSE Append(m.kept, m.new)

-----------------------------------------------------------------------------
\* The reader.

Reading == readerPc = "read"

ReadRaw(lo, hi, color) ==
    /\ Reading
    /\ Spend("rects")
    /\ lo..hi \subseteq DOMAIN frame
    /\ frame' = [c \in DOMAIN frame |-> IF c \in lo..hi THEN color ELSE frame[c]]
    /\ changed' = Append(changed, Raw(lo, hi))
    /\ received' = received \cup (lo..hi)
    /\ UNCHANGED <<resized, readerPc, queue, frameWake, requestPc, display, cancelled>>

\* A server copies only what it has sent before.
ReadCopy(lo, hi, src) ==
    /\ ~Plain
    /\ Reading
    /\ Spend("rects")
    /\ lo..hi \subseteq DOMAIN frame
    /\ src..(src + hi - lo) \subseteq received
    /\ frame' = [c \in DOMAIN frame |-> IF c \in lo..hi THEN frame[src + c - lo] ELSE frame[c]]
    /\ changed' = Append(changed, Copy(lo, hi, src))
    /\ received' = received \cup (lo..hi)
    /\ UNCHANGED <<resized, readerPc, queue, frameWake, requestPc, display, cancelled>>

\* DesktopSize: a new framebuffer; earlier rectangles of the message are dropped.
ReadDesktopSize(w) ==
    /\ Reading
    /\ Spend("resizes")
    /\ frame' = Blank(w)
    /\ changed' = <<Raw(0, w - 1)>>
    /\ resized' = TRUE
    /\ received' = {}
    /\ UNCHANGED <<readerPc, queue, frameWake, requestPc, display, cancelled>>

\* The end of the message: handleFrame and the locked part of enqueueFrame.
Sized == DOMAIN latest = DOMAIN frame

Redrawn(old, updates) ==
    [c \in DOMAIN frame |-> IF c \in Covered(updates) THEN frame[c] ELSE old[c]]

QueuedUpdates(base, updates) ==
    LET q[i \in 0..Len(updates)] ==
            IF i = 0 THEN base ELSE AppendChanged(q[i - 1], updates[i], Full(frame))
    IN  q[Len(updates)]

EnqueueFrame ==
    /\ Reading
    /\ changed # <<>>
    /\ latest' = IF Sized THEN Redrawn(latest, changed) ELSE frame
    /\ pending' = IF Sized THEN QueuedUpdates(pending, changed) ELSE <<Full(frame)>>
    /\ pendingResized' = (pendingResized \/ resized \/ ~Sized)
    /\ changed' = <<>>
    /\ resized' = FALSE
    /\ readerPc' = "wake"
    /\ UNCHANGED <<frame, received, frameWake, requestPc, display, cancelled, budget>>

\* A full channel already holds the token: the send is skipped.
WokenUnbuffered == frameWake \/ loopPc = "wait"
Woken == TRUE

ReaderWakes ==
    /\ readerPc = "wake"
    /\ frameWake' = Woken
    /\ readerPc' = "read"
    /\ UNCHANGED <<frame, changed, resized, received, queue, requestPc, display, cancelled, budget>>

\* The connection breaks, perhaps in the middle of a message; Run dials again
\* and asks for a complete update.
Reconnect(w) ==
    /\ Reading
    /\ ~cancelled
    /\ Spend("resizes")
    /\ frame' = Blank(w)
    /\ changed' = <<>>
    /\ resized' = FALSE
    /\ received' = {}
    /\ UNCHANGED <<readerPc, queue, frameWake, requestPc, display, cancelled>>

\* Run returns once the context is cancelled.
ReaderStops ==
    /\ Reading
    /\ cancelled
    /\ readerPc' = "stopped"
    /\ UNCHANGED <<frame, changed, resized, received, queue, frameWake, requestPc, display,
                   cancelled, budget>>

-----------------------------------------------------------------------------
\* Resynchronization.

\* The display channel gives up operations of the frame (external); its
\* resendLoop then calls RequestFullFrame.
Damage(c) ==
    /\ requestPc = "idle"
    /\ Spend("damage")
    /\ screen' = [screen EXCEPT ![c] = Lost]
    /\ requestPc' = "owed"
    /\ UNCHANGED <<reader, queue, frameWake, loopPc, out, firstFrame, cancelled>>

\* What is pending is superseded by the whole frame.
RequestedAsPending == pending
Requested == <<Full(latest)>>

\* The locked part: without a frame there is nothing to redraw.
RequestFullFrame ==
    /\ requestPc = "owed"
    /\ IF latest = NoFrame
       THEN requestPc' = "idle" /\ UNCHANGED queue
       ELSE /\ pending' = Requested
            /\ pendingResized' = TRUE
            /\ requestPc' = "wake"
            /\ UNCHANGED latest
    /\ UNCHANGED <<reader, frameWake, display, cancelled, budget>>

RequestWakes ==
    /\ requestPc = "wake"
    /\ frameWake' = Woken
    /\ requestPc' = "idle"
    /\ UNCHANGED <<reader, queue, display, cancelled, budget>>

-----------------------------------------------------------------------------
\* frameLoop.

\* The token is taken; the pacing timer runs before the next step.
LoopWakes ==
    /\ loopPc = "wait"
    /\ frameWake
    /\ frameWake' = FALSE
    /\ loopPc' = "pace"
    /\ UNCHANGED <<reader, queue, requestPc, out, firstFrame, screen, cancelled, budget>>

NoOutput == [changed |-> <<>>, resized |-> FALSE, snapshot |-> NoFrame]

\* The snapshot holds the newest pixels of the changed rectangles only.
Snapshot(updates) ==
    [c \in DOMAIN latest |-> IF c \in Covered(updates) THEN latest[c] ELSE Black]

TakeNothing ==
    /\ loopPc = "pace"
    /\ pending = <<>> \/ latest = NoFrame
    /\ loopPc' = "wait"
    /\ UNCHANGED <<reader, queue, frameWake, requestPc, out, firstFrame, screen, cancelled, budget>>

TakePending ==
    /\ loopPc = "pace"
    /\ pending # <<>> /\ latest # NoFrame
    /\ out' = [changed |-> pending, resized |-> pendingResized, snapshot |-> Snapshot(pending)]
    /\ pending' = <<>>
    /\ pendingResized' = FALSE
    /\ loopPc' = "show"
    /\ UNCHANGED <<reader, latest, frameWake, requestPc, firstFrame, screen, cancelled, budget>>

\* The first frame and a resized one are complete, the others are regions.
ShowsImage == firstFrame \/ out.resized

ImageShown ==
    [c \in Row |-> IF c \in DOMAIN out.snapshot THEN out.snapshot[c] ELSE Black]

\* One operation of ShowImageRegions: a native copy of what the screen shows by
\* then, or the pixels of the snapshot.
RegionShown(s, u) ==
    [c \in Row |-> IF c \notin Cells(u) THEN s[c]
                   ELSE IF u.copy THEN s[u.src + c - u.lo] ELSE out.snapshot[c]]

RegionsShown ==
    LET s[i \in 0..Len(out.changed)] ==
            IF i = 0 THEN screen ELSE RegionShown(s[i - 1], out.changed[i])
    IN  s[Len(out.changed)]

Deliver ==
    /\ loopPc = "show"
    /\ screen' = IF ShowsImage THEN ImageShown ELSE RegionsShown
    /\ firstFrame' = FALSE
    /\ out' = NoOutput
    /\ loopPc' = "wait"
    /\ UNCHANGED <<reader, queue, frameWake, requestPc, cancelled, budget>>

\* OnFrame returns an error; frameLoop drops the frame.
DeliverFails ==
    /\ loopPc = "show"
    /\ ~Plain
    /\ Spend("failures")
    /\ firstFrame' = FALSE
    /\ out' = NoOutput
    /\ loopPc' = "wait"
    /\ UNCHANGED <<reader, queue, frameWake, requestPc, screen, cancelled>>

Cancel ==
    /\ ~Plain
    /\ ~cancelled
    /\ cancelled' = TRUE
    /\ UNCHANGED <<reader, queue, frameWake, requestPc, display, budget>>

LoopStops ==
    /\ cancelled
    /\ loopPc \in {"wait", "pace"}
    /\ loopPc' = "stopped"
    /\ UNCHANGED <<reader, queue, frameWake, requestPc, out, firstFrame, screen, cancelled, budget>>

-----------------------------------------------------------------------------
Init ==
    /\ frame \in {Blank(w) : w \in Widths}
    /\ changed = <<>>
    /\ resized = FALSE
    /\ readerPc = "read"
    /\ latest = NoFrame
    /\ pending = <<>>
    /\ pendingResized = FALSE
    /\ frameWake = FALSE
    /\ requestPc = "idle"
    /\ loopPc = "wait"
    /\ out = NoOutput
    /\ firstFrame = TRUE
    /\ screen = [c \in Row |-> Black]
    /\ received = {}
    /\ cancelled = FALSE
    /\ \E plain \in DOMAIN Palette :
            budget = [rects |-> MaxRects, resizes |-> MaxResizes, damage |-> MaxDamage,
                      failures |-> MaxFailures, plain |-> plain]

Read ==
    \/ \E lo, hi \in Row, color \in Palette[Plain] : lo <= hi /\ ReadRaw(lo, hi, color)
    \/ \E lo, hi, src \in Row : lo <= hi /\ ReadCopy(lo, hi, src)
    \/ \E w \in Widths : ReadDesktopSize(w) \/ Reconnect(w)

Loop == LoopWakes \/ TakeNothing \/ TakePending \/ Deliver

Next ==
    \/ Read
    \/ EnqueueFrame
    \/ ReaderWakes
    \/ ReaderStops
    \/ \E c \in Row : Damage(c)
    \/ RequestFullFrame
    \/ RequestWakes
    \/ Loop
    \/ DeliverFails
    \/ Cancel
    \/ LoopStops

Spec == Init /\ [][Next]_vars

\* What enables EnqueueFrame and Loop.
EnqueueReady == Reading /\ changed # <<>>
LoopReady    == loopPc \in {"pace", "show"} \/ (loopPc = "wait" /\ frameWake)

\* The goroutines keep running, and the server ends every message it began.  The
\* first two are WF_vars(EnqueueFrame) and WF_vars(Loop) with ENABLED written
\* out: TLC is slow to evaluate ENABLED of an action that folds.
Fairness ==
    /\ []<>~EnqueueReady \/ []<><<EnqueueFrame>>_vars
    /\ []<>~LoopReady \/ []<><<Loop>>_vars
    /\ WF_vars(ReaderWakes)
    /\ WF_vars(RequestFullFrame)
    /\ WF_vars(RequestWakes)

FairSpec == Spec /\ Fairness

-----------------------------------------------------------------------------
\* Properties.

Contents == Colors \cup {Black, Lost}
Frames   == UNION {[0..(w - 1) -> Colors \cup {Black}] : w \in Widths}
Updates  == [lo : Row, hi : Row, copy : BOOLEAN, src : Row]

\* Every variable has its type; the queue never outgrows its limit.
TypeOK ==
    /\ frame \in Frames
    /\ changed \in Seq(Updates)
    /\ resized \in BOOLEAN
    /\ readerPc \in {"read", "wake", "stopped"}
    /\ latest \in Frames \cup {NoFrame}
    /\ pending \in Seq(Updates) /\ Len(pending) <= MaxPending
    /\ pendingResized \in BOOLEAN
    /\ frameWake \in BOOLEAN
    /\ requestPc \in {"idle", "owed", "wake"}
    /\ loopPc \in {"wait", "pace", "show", "stopped"}
    /\ out.changed \in Seq(Updates)
    /\ firstFrame \in BOOLEAN
    /\ screen \in [Row -> Contents]
    /\ received \subseteq DOMAIN frame
    /\ cancelled \in BOOLEAN

\* Pending updates always get delivered: when frameLoop waits or draws while
\* updates are pending, the token is in the channel or somebody is about to send
\* it, although the updates are queued under the lock and the token is sent
\* outside it, by two goroutines.
NoLostWakeup ==
    loopPc \in {"wait", "show"} /\ pending # <<>>
        => frameWake \/ readerPc = "wake" \/ requestPc = "wake"

\* A snapshot that is drawn as a complete image has no hole: whatever was
\* merged, collapsed, resized or requested since, its updates cover all of it.
NoHoleInImage ==
    loopPc = "show" /\ ShowsImage => Covered(out.changed) = DOMAIN out.snapshot

\* A cell where the screen differs from the framebuffer is in the message being
\* read, in the queue or in the frame being drawn, or a redraw is about to be
\* asked for: coalescing, resizing and reconnecting forget no cell of a plain
\* session.
Stale(c) == screen[c] # frame[c]

NothingForgotten ==
    Plain => \A c \in received : Stale(c) =>
        \/ c \in Covered(changed)
        \/ c \in Covered(pending)
        \/ c \in Covered(out.changed)
        \/ requestPc = "owed"

\* As the comment on frameLoop has it, what it sends is the newest framebuffer:
\* once it has drawn everything and nothing is left to draw or to ask for, the
\* screen shows the framebuffer.
Settled == changed = <<>> /\ pending = <<>> /\ loopPc = "wait" /\ requestPc # "owed"

NewestShown == Settled => \A c \in received : ~Stale(c)

\* Once the server falls silent the screen of a plain session comes to show its
\* framebuffer, and keeps showing it.
ScreenCatchesUp == <>[](Plain => \A c \in received : ~Stale(c))
=============================================================================
