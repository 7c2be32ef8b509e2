--------------------------- MODULE SessionRouting ---------------------------
(***************************************************************************)
(* internal/server/server.go for one terminal key: authentication          *)
(* connections select a session and open display channels, switchSession   *)
(* starts one session instance per <<client, generation>>, and the         *)
(* instances install handlers and draw after asking isCurrentSession.      *)
(* Server.mu makes each lock section one step; everything between two lock *)
(* sections interleaves with the other connections and instances.          *)
(***************************************************************************)
EXTENDS Naturals, Sequences, FiniteSets

CONSTANTS
    Conns,        \* authentication connections of this terminal
    Sessions,     \* configured session names
    Kind,         \* Session.Type; "helper" stands for rdp and web
    Interactive,  \* Session.InteractiveEnabled
    NoSession,    \* the empty session name, or no selection
    MaxInserts,   \* definitive card events       (bound)
    MaxClients,   \* display channels opened      (bound)
    MaxFrames,    \* frames of all instances      (bound)
    CanStop       \* the server may be shut down

ASSUME SessionAssumption ==
    /\ Kind \in [Sessions -> {"card-test", "geometry-test", "ssh", "vnc", "helper"}]
    /\ Interactive \in [Sessions -> BOOLEAN]
    /\ NoSession \notin Sessions
ASSUME BoundAssumption == {MaxInserts, MaxClients, MaxFrames} \subseteq Nat /\ CanStop \in BOOLEAN

VARIABLES
    active,      \* active[key]; client 0 when there is none
    selected,    \* selected[key]
    clients,     \* display channels opened so far, numbered from 1
    closed,      \* channels that are closed
    cancelled,   \* instances whose sessionCancel was called
    released,    \* channels whose display context was cancelled
    serverPc,    \* "run", "stop": context cancelled, "close": closeAll is closing, "closed"
    closing,     \* activeDisplay closeAll took out of the map
    conn,        \* local state of handleConnection, startDisplay, switchSession
    inst,        \* local state of runSession, by instance
    input,       \* Client.onInput, by channel: instance or NoInstance
    resync,      \* Client.onResync, likewise
    late,        \* draws of an instance that was no longer current (auxiliary)
    inserts,     \* card events left
    frames       \* frames left

routing == <<active, selected, clients, closed, cancelled, released, serverPc, closing>>
handlers == <<input, resync>>
budget == <<inserts, frames>>
vars == <<routing, handlers, conn, inst, late, budget>>

NoInstance == <<0, 0>>
NoDisplay  == [client |-> 0, session |-> NoSession, gen |-> 0]

Owner(a)   == <<a.client, a.gen>>
Channels   == 1..MaxClients
\* Every switch answers a card event or a new channel.
Instances  == Channels \X (1..(MaxInserts + MaxClients))
Stopping   == serverPc # "run"
Started    == DOMAIN inst

\* isCurrentSession: the channel and the generation must both match.
IsCurrentByClient(i) == active.client = i[1]
IsCurrent(i) == active.client = i[1] /\ active.gen = i[2]

\* The session context of an instance: a child of its channel's context, which
\* is a child of the server's.
CancelledWithChannel(i) == i[1] \in released \/ Stopping
Cancelled(i) == i \in cancelled \/ i[1] \in released \/ Stopping

\* sessionCancel of a, when it has one.
CancelledNot(a) == cancelled
CancelledWith(a) == IF a.gen = 0 THEN cancelled ELSE cancelled \cup {Owner(a)}

-----------------------------------------------------------------------------
\* Connections.

To(c, pc) == conn' = [conn EXCEPT ![c].pc = pc]

\* After a message handleConnection returns if the server is stopping, and else
\* waits for the next one; a connection that sits in Scan still handles one
\* message after the stop.
AfterMessage == IF Stopping THEN "exit" ELSE "read"

\* Whether selectSession has to switch: card-test shows every card anew.
NeedsSwitchForTest(s) == active.client # 0 /\ Kind[s] = "card-test"
NeedsSwitch(s) == active.client # 0 /\ (active.session # s \/ Kind[s] = "card-test")

\* infoReq with a definitive card event that routes to s.
InfoInsert(c, s) ==
    /\ conn[c].pc = "read"
    /\ inserts > 0
    /\ inserts' = inserts - 1
    /\ selected' = s
    /\ conn' = [conn EXCEPT ![c].pc = IF NeedsSwitch(s) THEN "switch" ELSE AfterMessage, ![c].sel = s]
    /\ UNCHANGED <<active, clients, closed, cancelled, released, serverPc, closing, handlers, inst, late, frames>>

\* connRsp: a new channel takes the place of the old one.
ConnRsp(c) ==
    /\ conn[c].pc = "read"
    /\ clients < MaxClients
    /\ clients' = clients + 1
    /\ active' = [NoDisplay EXCEPT !.client = clients + 1]
    /\ conn' = [conn EXCEPT ![c] = [pc |-> "retire", sel |-> selected, old |-> active, inst |-> NoInstance]]
    /\ UNCHANGED <<selected, closed, cancelled, released, serverPc, closing, handlers, inst, late, budget>>

\* The contexts of a replaced display are cancelled and its channel is closed.
DisposeUnchecked(a) ==
    /\ cancelled' = CancelledWith(a)
    /\ released' = released \cup {a.client}
    /\ closed' = closed \cup {a.client}
DisposeContext(a) ==
    /\ cancelled' = CancelledWith(a)
    /\ released' = released \cup ({a.client} \ {0})
    /\ closed' = closed
Dispose(a) ==
    /\ cancelled' = CancelledWith(a)
    /\ released' = released \cup ({a.client} \ {0})
    /\ closed' = closed \cup ({a.client} \ {0})

Retire(c) ==
    /\ conn[c].pc = "retire"
    /\ Dispose(conn[c].old)
    /\ conn' = [conn EXCEPT ![c].pc = IF conn[c].sel = NoSession THEN "default" ELSE "switch",
                            ![c].old = NoDisplay]
    /\ UNCHANGED <<active, selected, clients, serverPc, closing, handlers, inst, late, budget>>

\* Nothing was selected when the channel was opened: the route of the card the
\* connection reported is selected now, in a lock section of its own.
SelectDefault(c, s) ==
    /\ conn[c].pc = "default"
    /\ selected' = s
    /\ conn' = [conn EXCEPT ![c].pc = "switch", ![c].sel = s]
    /\ UNCHANGED <<active, clients, closed, cancelled, released, serverPc, closing, handlers, inst, late, budget>>

\* The lock section of switchSession.
Switch(c) ==
    /\ conn[c].pc = "switch"
    /\ IF active.client = 0
       THEN /\ To(c, AfterMessage)
            /\ UNCHANGED <<active, cancelled>>
       ELSE /\ cancelled' = CancelledWith(active)
            /\ active' = [active EXCEPT !.session = conn[c].sel, !.gen = @ + 1]
            /\ conn' = [conn EXCEPT ![c].pc = "clearInput",
                                    ![c].inst = <<active.client, active.gen + 1>>]
    /\ UNCHANGED <<selected, clients, closed, released, serverPc, closing, handlers, inst, late, budget>>

ClearInput(c) ==
    /\ conn[c].pc = "clearInput"
    /\ input' = [input EXCEPT ![conn[c].inst[1]] = NoInstance]
    /\ To(c, "clearResync")
    /\ UNCHANGED <<routing, resync, inst, late, budget>>

\* Where runSession begins: all kinds but geometry-test draw a screen first.
FirstPc(s) == IF Kind[s] = "geometry-test" THEN "setInput" ELSE "check"

ClearResyncAndStart(c) ==
    /\ conn[c].pc = "clearResync"
    /\ resync' = [resync EXCEPT ![conn[c].inst[1]] = NoInstance]
    /\ inst' = [i \in Started \cup {conn[c].inst} |->
                  IF i = conn[c].inst
                  THEN [session |-> conn[c].sel, pc |-> FirstPc(conn[c].sel), frame |-> "off"]
                  ELSE inst[i]]
    /\ conn' = [conn EXCEPT ![c].pc = AfterMessage, ![c].inst = NoInstance]
    /\ UNCHANGED <<routing, input, late, budget>>

Leave(c) ==
    /\ conn[c].pc = "read"
    /\ Stopping
    /\ To(c, "exit")
    /\ UNCHANGED <<routing, handlers, inst, late, budget>>

-----------------------------------------------------------------------------
\* Shutdown.

Stop ==
    /\ CanStop
    /\ serverPc = "run"
    /\ serverPc' = "stop"
    /\ UNCHANGED <<active, selected, clients, closed, cancelled, released, closing, handlers,
                   conn, inst, late, budget>>

\* closeAll empties the maps, then disposes of what it took.
CloseAll ==
    /\ serverPc = "stop"
    /\ serverPc' = "close"
    /\ closing' = active
    /\ active' = NoDisplay
    /\ selected' = NoSession
    /\ UNCHANGED <<clients, closed, cancelled, released, handlers, conn, inst, late, budget>>

CloseTaken ==
    /\ serverPc = "close"
    /\ serverPc' = "closed"
    /\ Dispose(closing)
    /\ closing' = NoDisplay
    /\ UNCHANGED <<active, selected, clients, handlers, conn, inst, late, budget>>

-----------------------------------------------------------------------------
\* Session instances.

Go(i, pc) == inst' = [inst EXCEPT ![i].pc = pc]

KindOf(i) == Kind[inst[i].session]

\* The check and the drawing that relies on it are two steps.
Check(i, from, yes, no) ==
    /\ inst[i].pc = from
    /\ Go(i, IF IsCurrent(i) THEN yes ELSE no)
    /\ UNCHANGED <<routing, handlers, conn, late, budget>>

\* Drawing on a closed channel fails without effect.
Drawn(i) ==
    late' = IF i = Owner(active) \/ i[1] \in closed THEN late ELSE [late EXCEPT ![i] = @ + 1]

Draw(i, from, to) ==
    /\ inst[i].pc = from
    /\ Drawn(i)
    /\ Go(i, to)
    /\ UNCHANGED <<routing, handlers, conn, budget>>

AfterScreen(i) ==
    CASE KindOf(i) = "card-test" -> "done"
      [] KindOf(i) = "ssh" -> "setInput"
      [] OTHER -> "setResync"

\* card-test returns when it is no longer current; the others skip the
\* connecting screen and go on.
CheckScreen(i) == Check(i, "check", "screen", AfterScreen(i))
DrawScreen(i)  == Draw(i, "screen", AfterScreen(i))

\* The password of a vnc, ssh or rdp session cannot be read.
NoPassword(i) ==
    /\ inst[i].pc = "check"
    /\ KindOf(i) # "card-test"
    /\ Go(i, "done")
    /\ UNCHANGED <<routing, handlers, conn, late, budget>>

SetResync(i) ==
    /\ inst[i].pc = "setResync"
    /\ resync' = [resync EXCEPT ![i[1]] = i]
    /\ Go(i, "setInput")
    /\ UNCHANGED <<routing, input, conn, late, budget>>

TakesInput(i) == KindOf(i) \in {"geometry-test", "ssh"} \/ Interactive[inst[i].session]

SetInput(i) ==
    /\ inst[i].pc = "setInput"
    /\ input' = [input EXCEPT ![i[1]] = IF TakesInput(i) THEN i ELSE NoInstance]
    /\ inst' = [inst EXCEPT ![i].pc = "serve", ![i].frame = "idle"]
    /\ UNCHANGED <<routing, resync, conn, late, budget>>

\* OnFrame: the closure asks isCurrentSession for every frame.  The goroutine
\* that calls it is not the one that called Run, and may outlive Run.
FrameCheck(i) ==
    /\ inst[i].frame = "idle"
    /\ frames > 0
    /\ frames' = frames - 1
    /\ inst' = [inst EXCEPT ![i].frame = IF IsCurrent(i) THEN "draw" ELSE "idle"]
    /\ UNCHANGED <<routing, handlers, conn, late, inserts>>

FrameDraw(i) ==
    /\ inst[i].frame = "draw"
    /\ Drawn(i)
    /\ inst' = [inst EXCEPT ![i].frame = "idle"]
    /\ UNCHANGED <<routing, handlers, conn, budget>>

\* Run returns once its context is cancelled.
RunCancelled(i) ==
    /\ inst[i].pc = "serve"
    /\ Cancelled(i)
    /\ Go(i, "done")
    /\ UNCHANGED <<routing, handlers, conn, late, budget>>

\* Run returns by itself.  ssh and geometry-test have stopped drawing by then;
\* rdp and web show an error screen, and their frame loop may still run.
RunEnds(i) ==
    /\ inst[i].pc = "serve"
    /\ KindOf(i) \in {"ssh", "geometry-test"}
    /\ inst[i].frame = "idle"
    /\ inst' = [inst EXCEPT ![i].pc = "done", ![i].frame = "off"]
    /\ UNCHANGED <<routing, handlers, conn, late, budget>>

RunFails(i) ==
    /\ inst[i].pc = "serve"
    /\ KindOf(i) = "helper"
    /\ ~Cancelled(i)
    /\ Go(i, "failed")
    /\ UNCHANGED <<routing, handlers, conn, late, budget>>

CheckFailure(i) == Check(i, "failed", "failure", "done")
DrawFailure(i)  == Draw(i, "failure", "done")

-----------------------------------------------------------------------------
Init ==
    /\ active = NoDisplay
    /\ selected = NoSession
    /\ clients = 0
    /\ closed = {}
    /\ cancelled = {}
    /\ released = {}
    /\ serverPc = "run"
    /\ closing = NoDisplay
    /\ conn = [c \in Conns |-> [pc |-> "read", sel |-> NoSession, old |-> NoDisplay, inst |-> NoInstance]]
    /\ inst = <<>>
    /\ input = [n \in Channels |-> NoInstance]
    /\ resync = [n \in Channels |-> NoInstance]
    /\ late = [i \in Instances |-> 0]
    /\ inserts = MaxInserts
    /\ frames = MaxFrames

Handle(c) ==
    \/ Retire(c)
    \/ \E s \in Sessions : SelectDefault(c, s)
    \/ Switch(c)
    \/ ClearInput(c)
    \/ ClearResyncAndStart(c)

Run(i) ==
    \/ CheckScreen(i)
    \/ DrawScreen(i)
    \/ SetResync(i)
    \/ SetInput(i)
    \/ FrameDraw(i)
    \/ RunCancelled(i)
    \/ CheckFailure(i)
    \/ DrawFailure(i)

Next ==
    \/ \E c \in Conns :
          \/ \E s \in Sessions : InfoInsert(c, s)
          \/ ConnRsp(c)
          \/ Handle(c)
          \/ Leave(c)
    \/ Stop
    \/ CloseAll
    \/ CloseTaken
    \/ \E i \in Started :
          \/ Run(i)
          \/ NoPassword(i)
          \/ FrameCheck(i)
          \/ RunEnds(i)
          \/ RunFails(i)

Spec == Init /\ [][Next]_vars

\* Handlers finish what they began, closeAll runs, and instances keep running;
\* neither messages nor frames nor failures have to come.  An ssh instance does
\* not watch its context while it sets up the remote shell, so nothing obliges
\* it to notice that it is cancelled.
\* The last conjunct is WF_vars(Obliged(i) /\ Run(i)) with ENABLED written out,
\* which TLC is slow to evaluate.
Obliged(i) == i \in Started /\ KindOf(i) # "ssh"

RunReady(i) ==
    \/ inst[i].frame = "draw"
    \/ inst[i].pc = "serve" /\ Cancelled(i)
    \/ inst[i].pc \notin {"serve", "done"}

Fairness ==
    /\ \A c \in Conns : WF_vars(Handle(c))
    /\ WF_vars(CloseAll)
    /\ WF_vars(CloseTaken)
    /\ \A i \in Instances :
          []<>~(Obliged(i) /\ RunReady(i)) \/ []<><<Obliged(i) /\ Run(i)>>_vars

FairSpec == Spec /\ Fairness

-----------------------------------------------------------------------------
\* Properties.

Displays == [client : 0..MaxClients, session : Sessions \cup {NoSession}, gen : 0..(MaxInserts + MaxClients)]

\* Every variable has its type.
TypeOK ==
    /\ active \in Displays
    /\ selected \in Sessions \cup {NoSession}
    /\ clients \in 0..MaxClients
    /\ closed \subseteq Channels
    /\ cancelled \subseteq Instances
    /\ released \subseteq Channels
    /\ serverPc \in {"run", "stop", "close", "closed"}
    /\ closing \in Displays
    /\ \A c \in Conns :
          /\ conn[c].pc \in {"read", "retire", "default", "switch", "clearInput", "clearResync", "exit"}
          /\ conn[c].sel \in Sessions \cup {NoSession}
          /\ conn[c].old \in Displays
          /\ conn[c].inst \in Instances \cup {NoInstance}
    /\ Started \subseteq Instances
    /\ \A i \in Started :
          /\ inst[i].session \in Sessions
          /\ inst[i].pc \in {"check", "screen", "setResync", "setInput", "serve",
                            "failed", "failure", "done"}
          /\ inst[i].frame \in {"off", "idle", "draw"}
    /\ input \in [Channels -> Instances \cup {NoInstance}]
    /\ resync \in [Channels -> Instances \cup {NoInstance}]
    /\ late \in [Instances -> Nat]
    /\ inserts \in 0..MaxInserts
    /\ frames \in 0..MaxFrames

\* The screen has at most one owner, an owner that was superseded is never the
\* owner again, and from the moment it is superseded its context is cancelled
\* or a handler holds it in hand to cancel it.
Disposed ==
    {i \in cancelled \cup {Owner(conn[c].old) : c \in Conns} \cup {Owner(closing)} : i[2] > 0}

Display == INSTANCE DisplayOwner WITH
    Instances  <- Instances,
    NoInstance <- NoInstance,
    owner      <- IF active.gen = 0 THEN NoInstance ELSE Owner(active),
    retired    <- Disposed

OwnerSpec == Display!Spec

\* Every channel that was opened is the current one, is closed, or a handler or
\* closeAll holds it in hand to close it: replacing a display leaks no socket.
ChannelsReleased ==
    \A n \in 1..clients :
        \/ n = active.client
        \/ n \in closed
        \/ n = closing.client
        \/ \E c \in Conns : conn[c].old.client = n

\* The check of isCurrentSession and the drawing are separate.  An instance that
\* is superseded between them draws over its successor, but only once for each
\* of its goroutines that was between them: a frame, and for rdp and web the
\* error screen of a Run that failed meanwhile.
LateDrawsBounded ==
    \A i \in Started : late[i] <= IF KindOf(i) = "helper" THEN 2 ELSE 1

\* Between two messages of its only connection the terminal shows the session
\* its latest card event selected.
SelectionShown ==
    (\A c \in Conns : conn[c].pc = "read") /\ active.client # 0 => active.session = selected

\* A superseded instance ends, and draws no more; an ssh instance may be stuck.
SupersededEnds ==
    \A i \in Instances :
        (i \in Started /\ ~IsCurrent(i) /\ KindOf(i) # "ssh")
            ~> (i \in Started => inst[i].pc = "done" /\ inst[i].frame # "draw")

\* The current session, when it is interactive and runs, is the one that gets
\* the terminal's keyboard and mouse.
InteractiveGetsInput ==
    \A i \in Started :
        IsCurrent(i) /\ inst[i].pc = "serve" /\ TakesInput(i) => input[i[1]] = i
=============================================================================
