----------------------------- MODULE SSHSession -----------------------------
(***************************************************************************)
(* An SSH session: Run of session.go, which greets, connects, serves and   *)
(* says goodbye; renderLoop, which paints the changed rows of the terminal *)
(* and delivers them, on a goroutine of its own; and the remote shell,     *)
(* whose output a third goroutine writes into the terminal.                *)
(*                                                                         *)
(* Painting holds the terminal's lock and clears its dirty rows; the       *)
(* delivery of the rows painted comes after, without the lock.  What Run   *)
(* writes itself and the painting that follows are one step, for then      *)
(* nobody else writes or paints.  Keys are left out: HandleInput writes    *)
(* them to the shell as they come.                                         *)
(***************************************************************************)
EXTENDS Terminal

CONSTANTS
    MaxWrites,   \* bound: writes of the shell
    Chunks       \* what it may write, by the number of writes left

ASSUME WritesAssumption ==
    /\ MaxWrites \in Nat
    /\ \A n \in 1..MaxWrites : Chunks[n] \subseteq Seq(Bytes)

VARIABLES
    term,        \* the terminal
    bytewise,    \* a terminal that is given the same bytes one at a time (auxiliary)
    pc,          \* where Run is
    outcome,     \* why it returned
    loop,        \* where renderLoop is
    shell,       \* the remote shell
    frame,       \* the renderer's picture, by row
    hand,        \* rows painted and not yet delivered, by who painted them
    screen,      \* what the display shows, by row
    broken,      \* a delivery failed (auxiliary)
    current,     \* isCurrentSession of this session
    cancelled,   \* its context
    writes       \* writes of the shell left

text == <<term, bytewise>>
picture == <<frame, hand>>
display == <<screen, broken>>
outside == <<current, cancelled>>
vars == <<text, pc, outcome, loop, shell, picture, display, outside, writes>>

\* Before anything was delivered a row shows something else.
Other == [cells |-> [c \in Cols |-> Bad], cursor |-> -2]

\* The first letters of what Run prints.
ASSUME LetterAssumption == {"g", "f", "e"} \subseteq Printable

Greeting == <<"g", "CR", "LF">>
Failure  == <<"CR", "LF", "f", "CR", "LF">>
Goodbye  == <<"CR", "LF", "e", "CR", "LF">>

-----------------------------------------------------------------------------
\* The terminal.

Bytewise(t, p) ==
    LET after[i \in 0..Len(p)] == IF i = 0 THEN t ELSE Write(after[i - 1], <<p[i]>>)
    IN  after[Len(p)]

Clean(t) == [t EXCEPT !.dirty = {}]

\* render: rows that are dirty in t are painted and are in who's hand.
Painted(who, t) ==
    /\ frame' = [r \in Rows |-> IF r \in t.dirty THEN RowView(t, r) ELSE frame[r]]
    /\ hand' = [hand EXCEPT ![who] = t.dirty]

\* fmt.Fprintf(term, ...) and render, by Run.
Says(message) ==
    LET after == Write(term, message)
    IN  /\ Painted("run", after)
        /\ term' = Clean(after)
        /\ bytewise' = Clean(Bytewise(bytewise, message))

\* OnFrame: refused once the session is superseded; a write to the display's
\* channel may fail, after some of the rows.  The first picture is a whole image:
\* every row is in it.
Shown(who) ==
    /\ current
    /\ screen' = [r \in Rows |-> IF r \in hand[who] THEN frame[r] ELSE screen[r]]
    /\ UNCHANGED broken
Refused ==
    /\ broken' = TRUE
    /\ UNCHANGED screen    \* nothing is said of it from now on
Emptied(who) == hand' = [hand EXCEPT ![who] = {}]

-----------------------------------------------------------------------------
\* Run.

Greet ==
    /\ pc = "greet"
    /\ Says(Greeting)
    /\ pc' = "showGreeting"
    /\ UNCHANGED <<outcome, loop, shell, display, outside, writes>>

\* The font cannot be loaded.
NoFont ==
    /\ pc = "greet"
    /\ pc' = "returned"
    /\ outcome' = "refused"
    /\ UNCHANGED <<text, loop, shell, picture, display, outside, writes>>

ShowGreeting ==
    /\ pc = "showGreeting"
    /\ Emptied("run")
    /\ \/ Shown("run") /\ pc' = "dial" /\ UNCHANGED outcome
       \/ Refused /\ pc' = "returned" /\ outcome' = "refused"
    /\ UNCHANGED <<text, loop, shell, frame, outside, writes>>

\* A missing key, password or host key, or a dialler that fails, times out or is
\* cancelled.
Dial ==
    /\ pc = "dial"
    /\ \/ pc' = "handshake" /\ ~cancelled
       \/ pc' = "failed"
    /\ UNCHANGED <<text, outcome, loop, shell, picture, display, outside, writes>>

\* The handshake has no time limit, but a goroutine closes the connection under
\* it when the context is cancelled.
Handshake ==
    /\ pc = "handshake"
    /\ pc' \in {"setup", "failed"}
    /\ UNCHANGED <<text, outcome, loop, shell, picture, display, outside, writes>>

ClosesNever    == FALSE
ClosesOnCancel == cancelled

HandshakeBroken ==
    /\ pc = "handshake"
    /\ ClosesOnCancel
    /\ pc' = "failed"
    /\ UNCHANGED <<text, outcome, loop, shell, picture, display, outside, writes>>

\* NewSession, RequestPty and Shell wait for the server's answers, and nothing
\* interrupts them.
Setup ==
    /\ pc = "setup"
    /\ \/ pc' = "serve" /\ shell' = "running" /\ loop' = "wait"
       \/ pc' = "failed" /\ UNCHANGED <<shell, loop>>
    /\ UNCHANGED <<text, outcome, picture, display, outside, writes>>

Fail ==
    /\ pc = "failed"
    /\ Says(Failure)
    /\ pc' = "showLast"
    /\ outcome' = "failed"
    /\ UNCHANGED <<loop, shell, display, outside, writes>>

\* The select of Run.
ServeCancelled ==
    /\ pc = "serve"
    /\ cancelled
    /\ pc' = "returned"
    /\ outcome' = "cancelled"
    /\ UNCHANGED <<text, loop, shell, picture, display, outside, writes>>

ServeRefused ==
    /\ pc = "serve"
    /\ loop = "failed"
    /\ pc' = "returned"
    /\ outcome' = "refused"
    /\ UNCHANGED <<text, loop, shell, picture, display, outside, writes>>

ServeEnds ==
    /\ pc = "serve"
    /\ shell = "exited"
    /\ pc' = "drain"
    /\ UNCHANGED <<text, outcome, loop, shell, picture, display, outside, writes>>

\* The channel renderDone, on which Run waits before it writes its last words.
NotWaiting == TRUE
RenderDone == loop \in {"stopped", "failed"}

SayGoodbye ==
    /\ pc = "drain"
    /\ RenderDone
    /\ Says(Goodbye)
    /\ pc' = "showLast"
    /\ outcome' = "ended"
    /\ UNCHANGED <<loop, shell, display, outside, writes>>

\* Run ignores whether its last picture is accepted.
ShowLast ==
    /\ pc = "showLast"
    /\ Emptied("run")
    /\ Shown("run") \/ Refused
    /\ pc' = "returned"
    /\ UNCHANGED <<text, outcome, loop, shell, frame, outside, writes>>

-----------------------------------------------------------------------------
\* renderLoop.

\* Its context is a child of Run's, which Run also cancels when it returns.
RenderCancelled == cancelled \/ pc \in {"drain", "showLast", "returned"}

\* A tick; nothing is painted when no row is dirty.
Tick ==
    /\ loop = "wait"
    /\ term.dirty # {}
    /\ Painted("loop", term)
    /\ term' = Clean(term)
    /\ bytewise' = Clean(bytewise)
    /\ loop' = "show"
    /\ UNCHANGED <<pc, outcome, shell, display, outside, writes>>

LoopShows ==
    /\ loop = "show"
    /\ Emptied("loop")
    /\ \/ Shown("loop") /\ loop' = "wait"
       \/ Refused /\ loop' = "failed"
    /\ UNCHANGED <<text, pc, outcome, shell, frame, outside, writes>>

LoopStops ==
    /\ loop = "wait"
    /\ RenderCancelled
    /\ loop' = "stopped"
    /\ UNCHANGED <<text, pc, outcome, shell, picture, display, outside, writes>>

-----------------------------------------------------------------------------
\* The remote shell and the server.

\* The goroutines of remoteSession copy what the shell prints to the terminal.
ShellWrites(chunk) ==
    /\ shell = "running"
    /\ writes' = writes - 1
    /\ term' = Write(term, chunk)
    /\ bytewise' = Bytewise(bytewise, chunk)
    /\ UNCHANGED <<pc, outcome, loop, shell, picture, display, outside>>

\* remoteSession.Wait returns when the shell has ended and all it printed has
\* been copied.
ShellExits ==
    /\ shell = "running"
    /\ shell' = "exited"
    /\ UNCHANGED <<text, pc, outcome, loop, picture, display, outside, writes>>

Supersede ==
    /\ current
    /\ current' = FALSE
    /\ UNCHANGED <<text, pc, outcome, loop, shell, picture, display, cancelled, writes>>

Cancel ==
    /\ ~cancelled
    /\ cancelled' = TRUE
    /\ UNCHANGED <<text, pc, outcome, loop, shell, picture, display, current, writes>>

-----------------------------------------------------------------------------
Init ==
    /\ term = NewTerminal
    /\ bytewise = NewTerminal
    /\ pc = "greet"
    /\ outcome = "none"
    /\ loop = "off"
    /\ shell = "none"
    /\ frame = [r \in Rows |-> Other]
    /\ hand = [who \in {"run", "loop"} |-> {}]
    /\ screen = [r \in Rows |-> Other]
    /\ broken = FALSE
    /\ current = TRUE
    /\ cancelled = FALSE
    /\ writes = MaxWrites

\* What Run does without waiting for the server or the shell, once its wait is
\* over.
Run ==
    \/ Greet \/ NoFont \/ ShowGreeting \/ Dial \/ HandshakeBroken \/ Fail
    \/ ServeCancelled \/ ServeRefused \/ ServeEnds \/ SayGoodbye \/ ShowLast

Loop == Tick \/ LoopShows \/ LoopStops

Next ==
    \/ Run
    \/ Handshake
    \/ Setup
    \/ Loop
    \/ writes > 0 /\ \E chunk \in Chunks[writes] : ShellWrites(chunk)
    \/ ShellExits
    \/ Supersede
    \/ Cancel

Spec == Init /\ [][Next]_vars

\* Run and renderLoop where they wait for nobody else.
RunReady ==
    \/ pc \in {"greet", "showGreeting", "dial", "failed", "showLast"}
    \/ pc = "handshake" /\ ClosesOnCancel
    \/ pc = "serve" /\ (cancelled \/ loop = "failed" \/ shell = "exited")
    \/ pc = "drain" /\ RenderDone

LoopReady ==
    \/ loop = "show"
    \/ loop = "wait" /\ (term.dirty # {} \/ RenderCancelled)

\* Dialling takes ten seconds at most, the goroutines keep running, and the
\* ticker ticks; servers need not answer, and shells need not end.  Every action
\* happens finitely often, so its weak fairness says that it does not stay
\* enabled for ever.
Fairness == []<>~RunReady /\ []<>~LoopReady

FairSpec == Spec /\ Fairness

-----------------------------------------------------------------------------
\* Properties.

\* Every variable has its type.  For the terminal: the cursor and the saved one
\* stay inside the screen, the scroll region is one row of a screen of one row
\* and else at least two, and bytes wait to be decoded only between sequences.
TerminalOK(t) ==
    /\ t \in Terminals
    /\ t.top < t.bottom \/ NumRows = 1
    /\ t.csi # <<>> => t.state = "csi"
    /\ t.pending # <<>> => t.state = "ground"
    /\ Len(t.pending) <= 2 /\ Len(t.csi) <= 128

RowViews == [cells : [Cols -> Glyphs], cursor : -2..(NumCols - 1)]

TypeOK ==
    /\ TerminalOK(term)
    /\ pc \in {"greet", "showGreeting", "dial", "handshake", "setup", "failed", "serve",
              "drain", "showLast", "returned"}
    /\ outcome \in {"none", "refused", "failed", "cancelled", "ended"}
    /\ loop \in {"off", "wait", "show", "stopped", "failed"}
    /\ shell \in {"none", "running", "exited"}
    /\ frame \in [Rows -> RowViews] /\ screen \in [Rows -> RowViews]
    /\ hand \in [{"run", "loop"} -> SUBSET Rows]
    /\ {broken, current, cancelled} \subseteq BOOLEAN
    /\ writes \in 0..MaxWrites

\* A row that is not dirty and not on its way to the display is shown as the
\* terminal has it, text and cursor: no operation changes a row without marking
\* it, whatever the shell writes and wherever the loop is.
ScreenFollows ==
    ~broken => \A r \in Rows \ (term.dirty \cup hand["run"] \cup hand["loop"]) :
                  screen[r] = RowView(term, r)

\* How the output of the shell is cut into writes makes no difference, in the
\* middle of a rune or of a control sequence either.
SplitIndependent == term = bytewise

\* When Run returns because the connection failed or the shell ended, the
\* display shows all that was printed, Run's last words included.
OutputShown ==
    pc = "returned" /\ outcome \in {"failed", "ended"} /\ ~broken
        => \A r \in Rows : screen[r] = RowView(term, r)

\* A cancelled session returns and its loop stops, unless the server keeps it
\* waiting after the handshake.
CancelledReturns ==
    cancelled ~> \/ pc = "setup"
                 \/ pc = "returned" /\ loop \in {"off", "stopped", "failed"}
=============================================================================
