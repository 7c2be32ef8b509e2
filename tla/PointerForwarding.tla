------------------------- MODULE PointerForwarding -------------------------
(***************************************************************************)
(* How vnc.Session hands the terminal's pointer to the RFB server          *)
(* (internal/vnc/session.go).  Two threads send on one connection: the     *)
(* handler of input events sends button changes and wheel notches itself,  *)
(* in order, and puts a mere movement in a channel that holds one event;   *)
(* pointerLoop takes it out sixty times a second and sends it.  A movement *)
(* that is overtaken by a newer event before that is dropped.              *)
(*                                                                         *)
(* Abstracted: coordinates, an event is known by its number n; the bits    *)
(* of Buttons are split in the held buttons (base) and the two transient   *)
(* wheel bits; keys, which the handler sends as they come.                 *)
(***************************************************************************)
EXTENDS Integers, Sequences, FiniteSets

CONSTANTS
    Held,         \* the buttons that can be held, bits 1 to 3
    Wheels,       \* the sets of wheel bits an event may carry
    Deltas,       \* the values of the signed wheel field
    MaxSteps,     \* 16 in the code
    MaxEvents,    \* bound: events of the terminal
    MaxLinks      \* bound: connections to the RFB server

Bits == {"up", "down"}

ASSUME WheelAssumption == Wheels \subseteq SUBSET Bits /\ Deltas \subseteq Int
ASSUME HeldAssumption  == Held \cap Bits = {}
ASSUME BoundAssumption == MaxSteps \in Nat /\ MaxEvents \in Nat /\ MaxLinks \in Nat

VARIABLES
    current,         \* number of the live connection, 0 when there is none
    links,           \* connections made so far
    pointerButtons,  \* the buttons of the last event handled
    pointerEvents,   \* the channel of capacity one
    hand,            \* the event pointerLoop took from it, with its connection
    direct,          \* the messages the handler still has to send
    target,          \* the connection the handler read when it began
    server,          \* what the RFB server last saw: held buttons and wheel bits, event
    newest,          \* the newest event the live connection was told of
    last,            \* the last event handled on the live connection
    asked, clicks,   \* wheel notches turned and notches seen by the server
    events           \* events so far, forwarded or not

vars == <<current, links, pointerButtons, pointerEvents, hand, direct, target,
          server, newest, last, asked, clicks, events>>

NoEvent == [n |-> 0, buttons |-> {}]
NoHand  == [event |-> NoEvent, link |-> 0]
Event(n, buttons) == [n |-> n, buttons |-> buttons]

Abs(x) == IF x < 0 THEN -x ELSE x
Lower(x, y) == IF x < y THEN x ELSE y

Sign(delta) == IF delta < 0 THEN "down" ELSE "up"

Turned(wheel, delta) == wheel # {} \/ delta # 0

\* One notch is a press and a release.
Pulse(n, base, bit) == <<Event(n, base \cup {bit}), Event(n, base)>>

NotchesUncapped(delta) == Abs(delta)
Notches(delta) == Lower(Abs(delta), MaxSteps)

PulsesOfBits(n, base, wheel) ==
    (IF "up" \in wheel THEN Pulse(n, base, "up") ELSE <<>>)
        \o (IF "down" \in wheel THEN Pulse(n, base, "down") ELSE <<>>)

PulsesOfDelta(n, base, delta) ==
    [i \in 1..2 * Notches(delta) |-> Pulse(n, base, Sign(delta))[IF i % 2 = 1 THEN 1 ELSE 2]]

\* What the handler sends itself: nothing for a mere movement.
DirectRaw(n, base, wheel, delta, changed) ==
    IF changed /\ ~Turned({}, delta) THEN <<Event(n, base \cup wheel)>>
    ELSE PulsesOfDelta(n, base, delta)
Direct(n, base, wheel, delta, changed) ==
    IF Turned(wheel, delta)
    THEN PulsesOfBits(n, base, wheel) \o PulsesOfDelta(n, base, delta)
    ELSE IF changed THEN <<Event(n, base)>> ELSE <<>>

\* The channel after the handler: drained by what is sent directly, and
\* otherwise holding the newer movement in place of the older one.
AfterEventUndrained(movement, messages) ==
    IF messages # <<>> THEN pointerEvents ELSE movement
AfterEventEmptied(movement, messages) ==
    IF messages # <<>> \/ pointerEvents # NoEvent THEN NoEvent ELSE movement
AfterEvent(movement, messages) ==
    IF messages # <<>> THEN NoEvent ELSE movement

-----------------------------------------------------------------------------
Ignored ==
    /\ current = 0
    /\ UNCHANGED <<current, links, pointerButtons, pointerEvents, hand, direct, target,
                   server, newest, last, asked, clicks>>

Forwarded(n, base, wheel, delta) ==
    LET changed == base \cup wheel # pointerButtons
        messages == Direct(n, base, wheel, delta, changed)
    IN
    /\ current # 0
    /\ target' = current
    /\ pointerButtons' = base
    /\ direct' = messages
    /\ pointerEvents' = AfterEvent(Event(n, base), messages)
    /\ last' = n
    /\ asked' = [b \in Bits |-> asked[b]
                    + (IF b \in wheel THEN 1 ELSE 0)
                    + (IF b = Sign(delta) THEN Lower(Abs(delta), MaxSteps) ELSE 0)]
    /\ UNCHANGED <<current, links, hand, server, newest, clicks>>

\* The terminal reports its pointer; the client calls the handler once per
\* event and waits for it.
HandleInput(base, wheel, delta) ==
    /\ direct = <<>>
    /\ events < MaxEvents
    /\ events' = events + 1
    /\ Ignored \/ Forwarded(events + 1, base, wheel, delta)

\* A message reaches the server if its connection is still the live one.
Received(event, link) ==
    IF link = current
    THEN /\ server' = event
         /\ newest' = IF event.n > newest THEN event.n ELSE newest
         /\ clicks' = [b \in Bits |-> clicks[b]
                          + (IF b \in event.buttons \ server.buttons THEN 1 ELSE 0)]
    ELSE UNCHANGED <<server, newest, clicks>>

SendDirect ==
    /\ direct # <<>>
    /\ Received(Head(direct), target)
    /\ direct' = Tail(direct)
    /\ UNCHANGED <<current, links, pointerButtons, pointerEvents, hand, target, last,
                   asked, events>>

LoopTakes ==
    /\ hand = NoHand
    /\ pointerEvents # NoEvent
    /\ pointerEvents' = NoEvent
    /\ hand' = IF current = 0 THEN NoHand ELSE [event |-> pointerEvents, link |-> current]
    /\ UNCHANGED <<current, links, pointerButtons, direct, target, server, newest, last,
                   asked, clicks, events>>

LoopSends ==
    /\ hand # NoHand
    /\ Received(hand.event, hand.link)
    /\ hand' = NoHand
    /\ UNCHANGED <<current, links, pointerButtons, pointerEvents, direct, target, last,
                   asked, events>>

Disconnect ==
    /\ current # 0
    /\ current' = 0
    /\ UNCHANGED <<links, pointerButtons, pointerEvents, hand, direct, target, server,
                   newest, last, asked, clicks, events>>

\* Run dials again a second later at the earliest: pointerLoop has emptied the
\* channel by then, and what is left of the handler writes on the old connection.
Reconnect ==
    /\ current = 0
    /\ links < MaxLinks
    /\ pointerEvents = NoEvent
    /\ hand = NoHand
    /\ links' = links + 1
    /\ current' = links + 1
    /\ server' = NoEvent
    /\ newest' = 0
    /\ last' = 0
    /\ asked' = [b \in Bits |-> 0]
    /\ clicks' = [b \in Bits |-> 0]
    /\ UNCHANGED <<pointerButtons, pointerEvents, hand, direct, target, events>>

Init ==
    /\ current = 0
    /\ links = 0
    /\ pointerButtons = {}
    /\ pointerEvents = NoEvent
    /\ hand = NoHand
    /\ direct = <<>>
    /\ target = 0
    /\ server = NoEvent
    /\ newest = 0
    /\ last = 0
    /\ asked = [b \in Bits |-> 0]
    /\ clicks = [b \in Bits |-> 0]
    /\ events = 0

Next ==
    \/ \E base \in SUBSET Held, wheel \in Wheels, delta \in Deltas :
            HandleInput(base, wheel, delta)
    \/ SendDirect
    \/ LoopTakes
    \/ LoopSends
    \/ Disconnect
    \/ Reconnect

Spec == Init /\ [][Next]_vars

\* The ticker of pointerLoop fires for ever and a write on a live connection
\* returns; nothing obliges the terminal, or a broken connection to come back.
Fairness == WF_vars(LoopTakes) /\ WF_vars(LoopSends) /\ WF_vars(SendDirect)
FairSpec == Spec /\ Fairness

-----------------------------------------------------------------------------
(* Properties *)

Events == [n : 0..MaxEvents, buttons : SUBSET (Held \cup Bits)]
Movements == [n : 0..MaxEvents, buttons : SUBSET Held]

\* Every variable has its type.  An event that goes through the channel carries
\* no wheel bit, which coalescing could lose, and one event makes the handler
\* write a bounded number of messages, whatever the terminal put in its wheel field.
TypeOK ==
    /\ links \in 0..MaxLinks
    /\ current \in {0, links}
    /\ pointerButtons \in SUBSET Held
    /\ pointerEvents \in Movements
    /\ hand \in [event : Movements, link : 0..MaxLinks]
    /\ direct \in Seq(Events) /\ Len(direct) <= 2 * (Cardinality(Bits) + MaxSteps)
    /\ target \in 0..MaxLinks
    /\ server \in Events
    /\ newest \in 0..MaxEvents
    /\ last \in 0..MaxEvents
    /\ asked \in [Bits -> Nat]
    /\ clicks \in [Bits -> Nat]
    /\ events \in 0..MaxEvents

\* The movement that waits in the channel of a live connection is the last
\* event handled and carries the buttons held now: everything that could
\* reorder it, a button change or a notch, drained the channel first.
WaitingIsNewest ==
    current # 0 /\ pointerEvents # NoEvent =>
        /\ pointerEvents.n = last
        /\ pointerEvents.buttons = pointerButtons
        /\ direct = <<>>

\* Every notch the user turned is one press of the wheel bit at the server, no
\* more and no fewer, whatever movements pointerLoop sends in between.
WheelExact ==
    current # 0 /\ direct = <<>> => clicks = asked

\* The position of every event arrives, or that of a newer one, unless the
\* connection breaks; last is less than n only on the next connection.
PositionArrives ==
    \A n \in 1..MaxEvents :
        (current # 0 /\ last = n) ~> (newest >= n \/ current = 0 \/ last < n)

\* When nothing is under way the server holds down the buttons the last event
\* reported: an event is forwarded to the connection as it was.
ButtonsForwarded ==
    current # 0 /\ last # 0 /\ direct = <<>> /\ pointerEvents = NoEvent /\ hand = NoHand
        => server.buttons = pointerButtons
=============================================================================
