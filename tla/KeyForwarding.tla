--------------------------- MODULE KeyForwarding ---------------------------
(***************************************************************************)
(* The way of a key from the terminal to an RFB server.  readLoop of the   *)
(* display channel (internal/display/client.go) decodes a report, looks up *)
(* the handler of input for each event and calls it; HandleInput of a VNC  *)
(* session (internal/vnc/session.go) looks up its connection and writes    *)
(* the key there, which blocks while the server does not read.  Meanwhile  *)
(* connections break and come back, and the server of the daemon           *)
(* (internal/server/server.go) replaces the session and its handler.       *)
(*                                                                         *)
(* UDP may lose, repeat and reorder the reports: any report may be         *)
(* received at any time.  Abstracted: the pointer (see PointerForwarding), *)
(* the frames (see FramePipeline), the passwords.                          *)
(***************************************************************************)
EXTENDS InputDecoder, Keysyms

CONSTANTS
    Ordinary,     \* HID usages of the ordinary keys
    Modifiers,    \* HID usages of the modifier keys, among ModifierHIDs
    Interactive,  \* the sessions that accept input
    MaxSessions,  \* bound: sessions started on the display
    MaxReports,   \* bound: keyboard reports received
    MaxDials      \* bound: connections to RFB servers

\* A keyboard names ordinary keys by their usages, one byte each and 0 for none, and
\* a modifier only by its bit in a field of their own.
ASSUME KeyAssumption ==
    /\ Ordinary \subseteq (1..255) \ ModifierHIDs /\ Modifiers \subseteq ModifierHIDs
    /\ {MaxSessions, MaxReports, MaxDials} \subseteq Nat

Sessions == 1..MaxSessions
Links    == 1..MaxDials
HIDs     == Ordinary \cup Modifiers

VARIABLES
    decoder,    \* the keys and modifiers of the last report
    before,     \* the modifiers of the report before it (auxiliary)
    todo,       \* events of the last report that were not dispatched yet
    reader,     \* readLoop
    onInput,    \* the session whose handler is installed, 0 for nil
    generation, \* the newest session of the display, 0 before the first
    cancelled,  \* sessions whose context is cancelled
    phase,      \* the Run goroutine of a session
    conn,       \* Session.current: a connection or 0
    open,       \* connections that neither side has closed
    stalled,    \* connections whose server does not read (external)
    held,       \* the HID usages whose symbols a server holds down (external)
    missed,     \* keys that are down but were pressed elsewhere (auxiliary)
    dialled,    \* connections made so far
    reports     \* reports received so far

input    == <<decoder, before, todo, reports>>
daemon   == <<onInput, generation, cancelled>>
network  == <<open, stalled, dialled>>
servers  == <<held, missed>>
keysVars == <<input, reader, daemon, phase, conn, network, servers>>

NoStroke == KeyInput(0, FALSE, {})
Idle     == [at |-> "idle", session |-> 0, link |-> 0, event |-> NoStroke]

-----------------------------------------------------------------------------
\* The reader of the display channel.

\* handlePacket: one keyboard report.  The events of a report are dispatched
\* before the next one is decoded.
Receive(report) ==
    /\ reader = Idle /\ todo = <<>>
    /\ reports < MaxReports
    /\ reports' = reports + 1
    /\ todo' = Keyboard(decoder, report)
    /\ before' = decoder.modifiers
    /\ decoder' = report
    /\ UNCHANGED <<reader, daemon, phase, conn, network, servers>>

\* The bookkeeping of missed: an event reaches connection l, or none (0).
Reached(event, l) ==
    missed' = [k \in Links |-> IF event.pressed /\ k \in open \ {l}
                               THEN missed[k] \cup {event.hid} ELSE missed[k] \ {event.hid}]

\* dispatchInput: the handler is looked up under inputMu and called outside it.
Dispatch ==
    /\ reader = Idle /\ todo # <<>>
    /\ todo' = Tail(todo)
    /\ IF onInput = 0
       THEN Reached(Head(todo), 0) /\ UNCHANGED reader
       ELSE /\ reader' = [at |-> "handling", session |-> onInput, link |-> 0,
                          event |-> Head(todo)]
            /\ UNCHANGED missed
    /\ UNCHANGED <<decoder, before, reports, daemon, phase, conn, network, held>>

\* A handler that takes presses only, as those of the other sessions do.
HandleKeyPresses ==
    /\ reader.at = "handling"
    /\ LET l == conn[reader.session]
       IN  IF l = 0 \/ ~HasKeysym(reader.event.hid) \/ ~reader.event.pressed
           THEN Reached(reader.event, 0) /\ reader' = Idle
           ELSE reader' = [reader EXCEPT !.at = "writing", !.link = l] /\ UNCHANGED missed
    /\ UNCHANGED <<input, daemon, phase, conn, network, held>>

\* HandleInput: without a connection or a key symbol there is nothing to send.
HandleKey ==
    /\ reader.at = "handling"
    /\ LET l == conn[reader.session]
       IN  IF l = 0 \/ ~HasKeysym(reader.event.hid)
           THEN Reached(reader.event, 0) /\ reader' = Idle
           ELSE reader' = [reader EXCEPT !.at = "writing", !.link = l] /\ UNCHANGED missed
    /\ UNCHANGED <<input, daemon, phase, conn, network, held>>

\* What a server holds down after an event.
HeldAfter(keys, event) ==
    IF event.pressed THEN keys \cup {event.hid} ELSE keys \ {event.hid}

\* sendKey: the write returns once the server reads, or fails once the
\* connection is closed; the error is only logged.
SendKey ==
    LET l == reader.link
    IN
    /\ reader.at = "writing"
    /\ \/ /\ l \notin open
          /\ Reached(reader.event, 0)
          /\ UNCHANGED held
       \/ /\ l \in open \ stalled
          /\ held' = [held EXCEPT ![l] = HeldAfter(@, reader.event)]
          /\ Reached(reader.event, l)
    /\ reader' = Idle
    /\ UNCHANGED <<input, daemon, phase, conn, network>>

-----------------------------------------------------------------------------
\* The daemon replaces the session.

\* switchSession, under Server.mu: the old session is cancelled.
Switch ==
    /\ generation < MaxSessions
    /\ generation \in Sessions => phase[generation] # "none"
    /\ generation' = generation + 1
    /\ cancelled' = cancelled \cup ({generation} \ {0})
    /\ UNCHANGED <<input, reader, onInput, phase, conn, network, servers>>

\* switchSession, after the lock: SetInputHandler(nil), go runSession.
Clear ==
    /\ generation \in Sessions /\ phase[generation] = "none"
    /\ onInput' = 0
    /\ phase' = [phase EXCEPT ![generation] = "starting"]
    /\ UNCHANGED <<input, reader, generation, cancelled, conn, network, servers>>

\* startVNC: whoever gets here installs its handler, superseded or not.
Install(s) ==
    /\ phase[s] = "starting"
    /\ onInput' = IF s \in Interactive THEN s ELSE 0
    /\ phase' = [phase EXCEPT ![s] = "retry"]
    /\ UNCHANGED <<input, reader, generation, cancelled, conn, network, servers>>

-----------------------------------------------------------------------------
\* Run of a VNC session.

\* The top of the loop, and waitForRetry.
Dial(s) ==
    /\ phase[s] = "retry"
    /\ phase' = [phase EXCEPT ![s] = IF s \in cancelled THEN "ended" ELSE "dialing"]
    /\ UNCHANGED <<input, reader, daemon, conn, network, servers>>

DialFails(s) ==
    /\ phase[s] = "dialing"
    /\ phase' = [phase EXCEPT ![s] = "retry"]
    /\ UNCHANGED <<input, reader, daemon, conn, network, servers>>

\* A new server holds no key down, and what is down now it was never told of.
Connected(s) ==
    LET l == dialled + 1
    IN
    /\ phase[s] = "dialing"
    /\ dialled < MaxDials
    /\ dialled' = l
    /\ open' = open \cup {l}
    /\ conn' = [conn EXCEPT ![s] = l]
    /\ phase' = [phase EXCEPT ![s] = "serving"]
    /\ missed' = [missed EXCEPT ![l] = Down(decoder)]
    /\ UNCHANGED <<input, reader, daemon, stalled, held>>

\* A server releases what a closed connection held down.
Closed(l) ==
    /\ l \in open
    /\ open' = open \ {l}
    /\ stalled' = stalled \ {l}
    /\ held' = [held EXCEPT ![l] = {}]
    /\ missed' = [missed EXCEPT ![l] = {}]

\* A Run that notices its context between two messages of the server only.
CloseAfterMessage(s) ==
    /\ conn[s] \notin stalled
    /\ phase[s] = "serving" /\ s \in cancelled
    /\ Closed(conn[s])
    /\ UNCHANGED <<input, reader, daemon, phase, conn, dialled>>

\* The goroutine that waits for the context closes the connection, whatever
\* the server does.
CloseOnCancel(s) ==
    /\ phase[s] = "serving" /\ s \in cancelled
    /\ Closed(conn[s])
    /\ UNCHANGED <<input, reader, daemon, phase, conn, dialled>>

\* A Run that keeps its closed connection.
ServeEndsAttached(s) ==
    /\ phase[s] = "serving"
    /\ conn[s] \notin open
    /\ phase' = [phase EXCEPT ![s] = "retry"]
    /\ UNCHANGED <<input, reader, daemon, conn, network, servers>>

\* serve returns once the connection is closed.
ServeEnds(s) ==
    /\ phase[s] = "serving"
    /\ conn[s] \notin open
    /\ conn' = [conn EXCEPT ![s] = 0]
    /\ phase' = [phase EXCEPT ![s] = "retry"]
    /\ UNCHANGED <<input, reader, daemon, network, servers>>

-----------------------------------------------------------------------------
\* The servers (external): they close or stop to read.
ServerCloses(l) ==
    /\ Closed(l)
    /\ UNCHANGED <<input, reader, daemon, phase, conn, dialled>>

Stall(l) ==
    /\ l \in open
    /\ l \notin stalled
    /\ stalled' = stalled \cup {l}
    /\ UNCHANGED <<input, reader, daemon, phase, conn, open, dialled, servers>>

-----------------------------------------------------------------------------
KeysInit ==
    /\ decoder = NoKeys /\ before = {} /\ todo = <<>> /\ reports = 0
    /\ reader = Idle
    /\ onInput = 0 /\ generation = 0 /\ cancelled = {}
    /\ phase = [s \in Sessions |-> "none"]
    /\ conn = [s \in Sessions |-> 0]
    /\ open = {} /\ stalled = {} /\ dialled = 0
    /\ held = [l \in Links |-> {}]
    /\ missed = [l \in Links |-> {}]

Reader == Dispatch \/ HandleKey \/ SendKey
Run(s) == Dial(s) \/ CloseOnCancel(s) \/ ServeEnds(s)

KeysNext ==
    \/ \E report \in Reports(Ordinary, Modifiers) : Receive(report)
    \/ Reader
    \/ Switch
    \/ Clear
    \/ \E s \in Sessions : Install(s) \/ Run(s) \/ DialFails(s) \/ Connected(s)
    \/ \E l \in Links : ServerCloses(l) \/ Stall(l)

KeysSpec == KeysInit /\ [][KeysNext]_keysVars

\* Goroutines that wait for nobody keep running.  Nothing obliges a server to
\* read or to close, a dial to succeed or the daemon to switch.
KeysFairness ==
    /\ WF_keysVars(Reader)
    /\ WF_keysVars(Clear)
    /\ \A s \in Sessions : WF_keysVars(CloseOnCancel(s) \/ ServeEnds(s))

KeysFairSpec == KeysSpec /\ KeysFairness

-----------------------------------------------------------------------------
(* Properties *)

Strokes == [hid : HIDs, pressed : BOOLEAN, modifiers : SUBSET Modifiers]

\* Every variable has its type; a session that is not serving has no
\* connection, and no connection has two sessions.
KeysTypeOK ==
    /\ decoder \in [keys : SUBSET Ordinary, modifiers : SUBSET Modifiers]
    /\ before \in SUBSET Modifiers
    /\ todo \in Seq(Strokes)
    /\ reader \in [at : {"idle", "handling", "writing"}, session : 0..MaxSessions,
                   link : 0..MaxDials, event : Strokes \cup {NoStroke}]
    /\ onInput \in 0..MaxSessions
    /\ generation \in 0..MaxSessions
    /\ cancelled \in SUBSET Sessions
    /\ phase \in [Sessions -> {"none", "starting", "retry", "dialing", "serving", "ended"}]
    /\ conn \in [Sessions -> 0..dialled]
    /\ \A s \in Sessions : conn[s] # 0 <=> phase[s] = "serving"
    /\ \A s, t \in Sessions : conn[s] = conn[t] /\ s # t => conn[s] = 0
    /\ dialled \in 0..MaxDials
    /\ open \in SUBSET (1..dialled)
    /\ stalled \in SUBSET open
    /\ held \in [Links -> SUBSET HIDs]
    /\ missed \in [Links -> SUBSET HIDs]
    /\ reports \in 0..MaxReports

\* No key gets stuck and none is lost: once the events of a report are
\* dispatched, the server of the session that has the keyboard holds down
\* exactly the keys of that report, but for those that were pressed before it
\* listened, through broken connections, replaced sessions and late handlers.
KeysAgree ==
    LET l == conn[onInput]
    IN  onInput # 0 /\ reader = Idle /\ todo = <<>> /\ l \in open
            => held[l] = {h \in Down(decoder) : HasKeysym(h)} \ missed[l]

\* The chord of a key is the one that was typed ("Press modifiers before
\* ordinary keys", "Release ordinary keys before releasing their modifiers"):
\* when a server sees an ordinary key go down, it holds the modifiers of the
\* report that has the key; when it sees one go up, those of the report before.
ChordKept ==
    [][\A l \in Links :
        l \in open' /\ held'[l] # held[l] /\ reader.event.hid \in Ordinary
            => held[l] \cap Modifiers =
                  (IF reader.event.pressed THEN decoder.modifiers ELSE before) \ missed[l]]_keysVars

\* A server that does not read cannot keep the reader of the display channel,
\* and with it the retransmissions, once its session is replaced.
ReaderFreed == (reader.session \in cancelled) ~> (reader = Idle)
=============================================================================
