---------------------------- MODULE InputProofs ----------------------------
(***************************************************************************)
(* Proofs about the two ways of input to an RFB server.  The pointer:      *)
(* types, the event that waits in the channel, and the notches of the      *)
(* wheel.  The keys: no key gets stuck or lost between the terminal and    *)
(* the server, and every key arrives with its chord, for any keys, number  *)
(* of sessions, connections and reports.  A report leaves a list of events *)
(* to dispatch; the invariants say which of them are left and what a       *)
(* server that listens holds down meanwhile.                               *)
(***************************************************************************)
EXTENDS PointerForwarding, KeyForwarding, FiniteSetTheorems, WellFoundedInduction, TLAPS

\* One event handled leaves in the channel itself, or nothing.
LEMMA HandledIsNewest ==
    ASSUME WaitingIsNewest, NEW base \in SUBSET Held, NEW wheel \in Wheels,
           NEW delta \in Deltas, HandleInput(base, wheel, delta)
    PROVE  WaitingIsNewest'
<1>1. CASE Ignored
  BY <1>1 DEF Ignored, WaitingIsNewest
<1>2. CASE Forwarded(events + 1, base, wheel, delta)
  <2> DEFINE messages == Direct(events + 1, base, wheel, delta,
                                base \cup wheel # pointerButtons)
  <2>1. /\ direct' = messages
        /\ pointerEvents' = AfterEvent(Event(events + 1, base), messages)
        /\ last' = events + 1
        /\ pointerButtons' = base
    BY <1>2 DEF Forwarded
  <2> HIDE DEF messages
  <2>2. CASE messages # <<>>
    BY <2>1, <2>2 DEF AfterEvent, WaitingIsNewest
  <2>3. CASE messages = <<>>
    BY <2>1, <2>3 DEF AfterEvent, Event, WaitingIsNewest
  <2> QED
    BY <2>2, <2>3
<1> QED
  BY <1>1, <1>2 DEF HandleInput

\* No step of the handler, of pointerLoop or of the connection leaves an
\* overtaken movement in the channel.
LEMMA StepKeepsNewest == WaitingIsNewest /\ [Next]_vars => WaitingIsNewest'
<1> SUFFICES ASSUME WaitingIsNewest, [Next]_vars
             PROVE  WaitingIsNewest'
  OBVIOUS
<1>1. ASSUME NEW base \in SUBSET Held, NEW wheel \in Wheels, NEW delta \in Deltas,
             HandleInput(base, wheel, delta)
      PROVE  WaitingIsNewest'
  BY <1>1, HandledIsNewest
<1>2. CASE SendDirect
  BY <1>2 DEF SendDirect, WaitingIsNewest
<1>3. CASE LoopTakes
  BY <1>3 DEF LoopTakes, WaitingIsNewest
<1>4. CASE LoopSends
  BY <1>4 DEF LoopSends, WaitingIsNewest
<1>5. CASE Disconnect
  BY <1>5 DEF Disconnect, WaitingIsNewest
<1>6. CASE Reconnect
  BY <1>6 DEF Reconnect, WaitingIsNewest
<1>7. CASE UNCHANGED vars
  BY <1>7 DEF vars, WaitingIsNewest
<1> QED
  BY <1>1, <1>2, <1>3, <1>4, <1>5, <1>6, <1>7 DEF Next

\* In every behaviour of HandleInput and pointerLoop the movement that waits is
\* the last event of a live connection and shows the buttons held now, for any
\* number of buttons, wheel bits, events and connections.
THEOREM WaitingIsNewestCorrect == Spec => []WaitingIsNewest
<1>1. Init => WaitingIsNewest
  BY DEF Init, WaitingIsNewest
<1> QED
  BY <1>1, StepKeepsNewest, PTL DEF Spec

-----------------------------------------------------------------------------
(* Messages and the presses of a wheel bit in them.                        *)

Quiet(event) == event.buttons \cap Bits = {}

\* The messages that press the wheel bit b.
Presses(messages, b) == {i \in 1..Len(messages) : b \in messages[i].buttons}
Pressed(messages, b) == Cardinality(Presses(messages, b))

\* A message that presses a wheel bit is followed by one that releases it.
Released(messages) ==
    \A i \in 1..Len(messages) :
        ~Quiet(messages[i]) => i < Len(messages) /\ Quiet(messages[i + 1])

One(condition) == IF condition THEN 1 ELSE 0

LEMMA PressesFinite ==
    ASSUME NEW s \in Seq(Events), NEW b
    PROVE  IsFiniteSet(Presses(s, b)) /\ Pressed(s, b) \in Nat
<1>1. IsFiniteSet(1..Len(s))
  BY FS_Interval
<1>2. Presses(s, b) \in SUBSET (1..Len(s))
  BY DEF Presses
<1>3. IsFiniteSet(Presses(s, b))
  BY <1>1, <1>2, FS_Subset
<1> QED
  BY <1>3, FS_CardinalityType DEF Pressed

\* Presses add up when messages are appended.
LEMMA PressesConcat ==
    ASSUME NEW s \in Seq(Events), NEW t \in Seq(Events), NEW b
    PROVE  Pressed(s \o t, b) = Pressed(s, b) + Pressed(t, b)
<1> DEFINE shifted == {i \in Len(s) + 1 .. Len(s) + Len(t) : b \in t[i - Len(s)].buttons}
           shift == [i \in Presses(t, b) |-> i + Len(s)]
<1>1. /\ Len(s) \in Nat /\ Len(t) \in Nat /\ Len(s \o t) = Len(s) + Len(t)
      /\ \A i \in 1..Len(s) : (s \o t)[i] = s[i]
      /\ \A i \in Len(s) + 1 .. Len(s) + Len(t) : (s \o t)[i] = t[i - Len(s)]
  OBVIOUS
<1>2. Presses(s \o t, b) = Presses(s, b) \cup shifted
  <2>1. \A i : i \in Presses(s \o t, b) <=> i \in Presses(s, b) \cup shifted
    BY <1>1 DEF Presses
  <2> QED
    BY <2>1
<1>3. Presses(s, b) \cap shifted = {}
  BY <1>1 DEF Presses
<1>4. shift \in Bijection(Presses(t, b), shifted)
  <2>1. shift \in [Presses(t, b) -> shifted]
    BY <1>1 DEF Presses
  <2>2. \A i, j \in Presses(t, b) : shift[i] = shift[j] => i = j
    BY <1>1 DEF Presses
  <2>3. \A k \in shifted : k - Len(s) \in Presses(t, b) /\ shift[k - Len(s)] = k
    BY <1>1 DEF Presses
  <2> HIDE DEF shift, shifted
  <2> QED
    BY <2>1, <2>2, <2>3 DEF Bijection, Injection, Surjection, IsInjective
<1> HIDE DEF shift, shifted
<1>5. IsFiniteSet(Presses(s, b)) /\ IsFiniteSet(Presses(t, b))
  BY PressesFinite
<1>6. IsFiniteSet(shifted) /\ Cardinality(shifted) = Pressed(t, b)
  BY <1>4, <1>5, FS_Bijection DEF ExistsBijection, Pressed
<1>7. Cardinality(Presses(s, b) \cup shifted)
          = Cardinality(Presses(s, b)) + Cardinality(shifted) - 0
  BY <1>3, <1>5, <1>6, FS_Union, FS_EmptySet
<1> QED
  BY <1>2, <1>5, <1>6, <1>7, FS_CardinalityType DEF Pressed

LEMMA PressesFew ==
    /\ \A b : Pressed(<<>>, b) = 0
    /\ \A e \in Events, b \in Bits : Pressed(<<e>>, b) = One(b \in e.buttons)
<1>1. \A b : Presses(<<>>, b) = {}
  BY DEF Presses
<1>2. \A e \in Events, b \in Bits :
          Presses(<<e>>, b) = IF b \in e.buttons THEN {1} ELSE {}
  <2> TAKE e \in Events, b \in Bits
  <2>1. \A i : i \in Presses(<<e>>, b) <=> i = 1 /\ b \in e.buttons
    BY DEF Presses
  <2> QED
    BY <2>1
<1> QED
  BY <1>1, <1>2, FS_EmptySet, FS_Singleton DEF Pressed, One

\* The handler sends one message: what it pressed is one less to press.
LEMMA PressesTail ==
    ASSUME NEW s \in Seq(Events), s # <<>>, NEW b \in Bits
    PROVE  Pressed(s, b) = One(b \in Head(s).buttons) + Pressed(Tail(s), b)
<1>1. Head(s) \in Events /\ Tail(s) \in Seq(Events) /\ s = <<Head(s)>> \o Tail(s)
  OBVIOUS
<1>2. <<Head(s)>> \in Seq(Events)
  BY <1>1
<1>3. Pressed(<<Head(s)>> \o Tail(s), b) = Pressed(<<Head(s)>>, b) + Pressed(Tail(s), b)
  BY <1>1, <1>2, PressesConcat
<1> QED
  BY <1>1, <1>3, PressesFew

LEMMA ReleasedTail ==
    ASSUME NEW s \in Seq(Events), s # <<>>, Released(s)
    PROVE  /\ Released(Tail(s))
           /\ ~Quiet(Head(s)) => Tail(s) # <<>> /\ Quiet(Head(Tail(s)))
<1>1. /\ Len(s) \in Nat \ {0} /\ Len(Tail(s)) = Len(s) - 1
      /\ \A i \in 1..Len(s) - 1 : Tail(s)[i] = s[i + 1]
      /\ Head(s) = s[1]
      /\ Len(s) > 1 => Tail(s) # <<>> /\ Head(Tail(s)) = Tail(s)[1]
  OBVIOUS
<1> QED
  BY <1>1 DEF Released

LEMMA ReleasedConcat ==
    ASSUME NEW s \in Seq(Events), NEW t \in Seq(Events), Released(s), Released(t)
    PROVE  Released(s \o t)
<1>1. /\ Len(s) \in Nat /\ Len(t) \in Nat /\ Len(s \o t) = Len(s) + Len(t)
      /\ \A i \in 1..Len(s) : (s \o t)[i] = s[i]
      /\ \A i \in Len(s) + 1 .. Len(s) + Len(t) : (s \o t)[i] = t[i - Len(s)]
  OBVIOUS
<1>2. ASSUME NEW i \in 1..Len(s), ~Quiet((s \o t)[i])
      PROVE  i < Len(s \o t) /\ Quiet((s \o t)[i + 1])
  BY <1>1, <1>2 DEF Released
<1>3. ASSUME NEW i \in Len(s) + 1 .. Len(s) + Len(t), ~Quiet((s \o t)[i])
      PROVE  i < Len(s \o t) /\ Quiet((s \o t)[i + 1])
  <2>1. i - Len(s) \in 1..Len(t) /\ ~Quiet(t[i - Len(s)])
    BY <1>1, <1>3
  <2>2. i - Len(s) < Len(t) /\ Quiet(t[(i - Len(s)) + 1])
    BY <2>1 DEF Released
  <2>3. i + 1 \in Len(s) + 1 .. Len(s) + Len(t) /\ (i + 1) - Len(s) = (i - Len(s)) + 1
    BY <1>1, <2>2
  <2> QED
    BY <1>1, <2>2, <2>3
<1> QED
  BY <1>1, <1>2, <1>3 DEF Released

-----------------------------------------------------------------------------
(* What the handler sends for one event.                                   *)

LEMMA NotchesBounded ==
    ASSUME NEW delta \in Deltas
    PROVE  Notches(delta) \in Nat /\ Notches(delta) <= MaxSteps
BY WheelAssumption, BoundAssumption DEF Notches, Lower, Abs

LEMMA EventTyped ==
    ASSUME NEW n \in 0..MaxEvents, NEW buttons \in SUBSET (Held \cup Bits)
    PROVE  Event(n, buttons) \in Events /\ Event(n, buttons).buttons = buttons
BY DEF Event, Events

\* One notch is one press, and released.
LEMMA PulseIsOneNotch ==
    ASSUME NEW n \in 0..MaxEvents, NEW base \in SUBSET Held, NEW bit \in Bits
    PROVE  /\ Pulse(n, base, bit) \in Seq(Events) /\ Len(Pulse(n, base, bit)) = 2
           /\ Released(Pulse(n, base, bit))
           /\ \A b \in Bits : Pressed(Pulse(n, base, bit), b) = One(b = bit)
<1> DEFINE down == Event(n, base \cup {bit})
           up == Event(n, base)
<1>1. down \in Events /\ up \in Events /\ down.buttons = base \cup {bit} /\ up.buttons = base
  BY EventTyped
<1>2. base \cap Bits = {}
  BY HeldAssumption
<1>3. Pulse(n, base, bit) = <<down, up>>
  BY DEF Pulse
<1> HIDE DEF down, up
<1>4. Quiet(up)
  BY <1>1, <1>2 DEF Quiet
<1>5. Released(<<down, up>>)
  BY <1>4 DEF Released
<1>6. \A b \in Bits : Pressed(<<down, up>>, b) = One(b = bit)
  <2> TAKE b \in Bits
  <2>1. \A i : i \in Presses(<<down, up>>, b) <=> i = 1 /\ b = bit
    BY <1>1, <1>2 DEF Presses
  <2>2. Presses(<<down, up>>, b) = IF b = bit THEN {1} ELSE {}
    BY <2>1
  <2> QED
    BY <2>2, FS_EmptySet, FS_Singleton DEF Pressed, One
<1> QED
  BY <1>1, <1>3, <1>5, <1>6

LEMMA PulsesOfBitsExact ==
    ASSUME NEW n \in 0..MaxEvents, NEW base \in SUBSET Held, NEW wheel \in SUBSET Bits
    PROVE  /\ PulsesOfBits(n, base, wheel) \in Seq(Events)
           /\ Len(PulsesOfBits(n, base, wheel)) <= 4
           /\ Released(PulsesOfBits(n, base, wheel))
           /\ \A b \in Bits : Pressed(PulsesOfBits(n, base, wheel), b) = One(b \in wheel)
<1> DEFINE Part(bit) == IF bit \in wheel THEN Pulse(n, base, bit) ELSE <<>>
<1>1. PulsesOfBits(n, base, wheel) = Part("up") \o Part("down")
  BY DEF PulsesOfBits
<1>2. ASSUME NEW bit \in Bits
      PROVE  /\ Part(bit) \in Seq(Events) /\ Len(Part(bit)) <= 2 /\ Released(Part(bit))
             /\ \A b \in Bits : Pressed(Part(bit), b) = One(b = bit /\ bit \in wheel)
  <2>1. CASE bit \in wheel
    <3>1. Part(bit) = Pulse(n, base, bit)
      BY <2>1
    <3> HIDE DEF Part
    <3>2. \A b \in Bits : One(b = bit /\ bit \in wheel) = One(b = bit)
      BY <2>1 DEF One
    <3>3. /\ Pulse(n, base, bit) \in Seq(Events) /\ Len(Pulse(n, base, bit)) = 2
          /\ Released(Pulse(n, base, bit))
          /\ \A b \in Bits : Pressed(Pulse(n, base, bit), b) = One(b = bit)
      BY PulseIsOneNotch
    <3> QED
      BY <3>1, <3>2, <3>3
  <2>2. CASE bit \notin wheel
    <3>1. Part(bit) = <<>>
      BY <2>2
    <3> HIDE DEF Part
    <3>2. Released(<<>>)
      BY DEF Released
    <3> QED
      BY <2>2, <3>1, <3>2, PressesFew DEF One
  <2> QED
    BY <2>1, <2>2
<1> HIDE DEF Part
<1>3. /\ Part("up") \in Seq(Events) /\ Part("down") \in Seq(Events)
      /\ Len(Part("up")) <= 2 /\ Len(Part("down")) <= 2
      /\ Released(Part("up")) /\ Released(Part("down"))
  BY <1>2 DEF Bits
<1>4. \A b \in Bits : Pressed(Part("up") \o Part("down"), b) = One(b \in wheel)
  <2> TAKE b \in Bits
  <2>1. /\ Pressed(Part("up"), b) = One(b = "up" /\ "up" \in wheel)
        /\ Pressed(Part("down"), b) = One(b = "down" /\ "down" \in wheel)
    BY <1>2 DEF Bits
  <2>2. Pressed(Part("up") \o Part("down"), b)
            = Pressed(Part("up"), b) + Pressed(Part("down"), b)
    BY <1>3, PressesConcat
  <2> QED
    BY <2>1, <2>2 DEF One, Bits
<1>5. Released(Part("up") \o Part("down"))
  BY <1>3, ReleasedConcat
<1>6. /\ Part("up") \o Part("down") \in Seq(Events)
      /\ Len(Part("up") \o Part("down")) <= 4
  BY <1>3
<1> QED
  BY <1>1, <1>4, <1>5, <1>6

\* A signed delta of k notches is k presses of the bit of its sign.
LEMMA PulsesOfDeltaExact ==
    ASSUME NEW n \in 0..MaxEvents, NEW base \in SUBSET Held, NEW delta \in Deltas
    PROVE  /\ PulsesOfDelta(n, base, delta) \in Seq(Events)
           /\ Len(PulsesOfDelta(n, base, delta)) = 2 * Notches(delta)
           /\ Released(PulsesOfDelta(n, base, delta))
           /\ \A b \in Bits : Pressed(PulsesOfDelta(n, base, delta), b)
                                   = IF b = Sign(delta) THEN Notches(delta) ELSE 0
<1> DEFINE k == Notches(delta)
           bit == Sign(delta)
           down == Event(n, base \cup {bit})
           up == Event(n, base)
           pulses == PulsesOfDelta(n, base, delta)
<1>1. k \in Nat
  BY NotchesBounded
<1>2. bit \in Bits
  BY DEF Sign, Bits
<1>3. down \in Events /\ up \in Events /\ down.buttons = base \cup {bit} /\ up.buttons = base
  BY <1>2, EventTyped
<1>4. pulses = [i \in 1..2 * k |-> IF i % 2 = 1 THEN down ELSE up]
  BY DEF PulsesOfDelta, Pulse
<1>5. base \cap Bits = {}
  BY HeldAssumption
<1> HIDE DEF k, bit, down, up, pulses
<1>6. 2 * k \in Nat
  BY <1>1
<1>7. pulses \in Seq(Events) /\ Len(pulses) = 2 * k
  BY <1>3, <1>4, <1>6
<1>8. \A i \in 1..2 * k : pulses[i] = IF i % 2 = 1 THEN down ELSE up
  BY <1>4
<1>9. Quiet(up)
  BY <1>3, <1>5 DEF Quiet
<1>10. Released(pulses)
  <2> SUFFICES ASSUME NEW i \in 1..2 * k, ~Quiet(pulses[i])
               PROVE  i < 2 * k /\ Quiet(pulses[i + 1])
    BY <1>7 DEF Released
  <2>1. i % 2 = 1
    BY <1>8, <1>9
  <2>2. i < 2 * k /\ (i + 1) % 2 # 1
    BY <1>1, <2>1
  <2>3. i + 1 \in 1..2 * k
    BY <1>1, <2>2
  <2> QED
    BY <1>8, <1>9, <2>2, <2>3
<1>11. ASSUME NEW b \in Bits, b # bit PROVE Pressed(pulses, b) = 0
  <2>1. b \notin down.buttons /\ b \notin up.buttons
    BY <1>3, <1>5, <1>11
  <2>2. Presses(pulses, b) = {}
    BY <1>7, <1>8, <2>1 DEF Presses
  <2> QED
    BY <2>2, FS_EmptySet DEF Pressed
<1>12. Pressed(pulses, bit) = k
  <2> DEFINE odd == [j \in 1..k |-> 2 * j - 1]
  <2>1. bit \in down.buttons /\ bit \notin up.buttons
    BY <1>2, <1>3, <1>5
  <2>2. \A i : i \in Presses(pulses, bit) <=> i \in 1..2 * k /\ i % 2 = 1
    BY <1>7, <1>8, <2>1 DEF Presses
  <2>3. \A j \in 1..k : 2 * j - 1 \in 1..2 * k /\ (2 * j - 1) % 2 = 1
    BY <1>1
  <2>4. odd \in [1..k -> Presses(pulses, bit)]
    BY <2>2, <2>3
  <2>5. \A i, j \in 1..k : odd[i] = odd[j] => i = j
    BY <1>1
  <2>6. ASSUME NEW i \in Presses(pulses, bit) PROVE \E j \in 1..k : odd[j] = i
    <3>1. i \in 1..2 * k /\ i % 2 = 1
      BY <2>2
    <3>2. (i + 1) \div 2 \in 1..k /\ 2 * ((i + 1) \div 2) - 1 = i
      BY <1>1, <3>1
    <3> QED
      BY <3>2
  <2> HIDE DEF odd
  <2>7. odd \in Bijection(1..k, Presses(pulses, bit))
    BY <2>4, <2>5, <2>6 DEF Bijection, Injection, Surjection, IsInjective
  <2>8. IsFiniteSet(1..k) /\ Cardinality(1..k) = k
    BY <1>1, FS_Interval
  <2> QED
    BY <2>7, <2>8, FS_Bijection DEF ExistsBijection, Pressed
<1> QED
  BY <1>7, <1>10, <1>11, <1>12 DEF k, bit, pulses

\* What one event makes the handler send: so many presses of a bit as the event
\* carries notches, each released, in a bounded number of messages.
LEMMA DirectExact ==
    ASSUME NEW n \in 0..MaxEvents, NEW base \in SUBSET Held, NEW wheel \in Wheels,
           NEW delta \in Deltas, NEW changed \in BOOLEAN
    PROVE  LET messages == Direct(n, base, wheel, delta, changed)
           IN  /\ messages \in Seq(Events)
               /\ Len(messages) <= 2 * (2 + MaxSteps)
               /\ Released(messages)
               /\ \A b \in Bits :
                      Pressed(messages, b)
                          = One(b \in wheel) + IF b = Sign(delta) THEN Notches(delta) ELSE 0
<1> DEFINE messages == Direct(n, base, wheel, delta, changed)
           ofBits == PulsesOfBits(n, base, wheel)
           ofDelta == PulsesOfDelta(n, base, delta)
<1>1. wheel \in SUBSET Bits /\ MaxSteps \in Nat /\ delta \in Int
  BY WheelAssumption, BoundAssumption
<1>2. /\ ofBits \in Seq(Events) /\ Len(ofBits) <= 4 /\ Released(ofBits)
      /\ \A b \in Bits : Pressed(ofBits, b) = One(b \in wheel)
  BY <1>1, PulsesOfBitsExact
<1>3. /\ ofDelta \in Seq(Events) /\ Len(ofDelta) = 2 * Notches(delta) /\ Released(ofDelta)
      /\ \A b \in Bits : Pressed(ofDelta, b) = IF b = Sign(delta) THEN Notches(delta) ELSE 0
  BY PulsesOfDeltaExact
<1>4. Notches(delta) \in Nat /\ Notches(delta) <= MaxSteps
  BY NotchesBounded
<1>5. CASE Turned(wheel, delta)
  <2>1. messages = ofBits \o ofDelta
    BY <1>5 DEF Direct
  <2> HIDE DEF messages, ofBits, ofDelta
  <2>2. messages \in Seq(Events) /\ Len(messages) <= 2 * (2 + MaxSteps)
    BY <1>1, <1>2, <1>3, <1>4, <2>1
  <2>3. Released(messages)
    BY <1>2, <1>3, <2>1, ReleasedConcat
  <2>4. \A b \in Bits : Pressed(messages, b) = Pressed(ofBits, b) + Pressed(ofDelta, b)
    BY <1>2, <1>3, <2>1, PressesConcat
  <2> QED
    BY <1>2, <1>3, <2>2, <2>3, <2>4 DEF messages
<1>6. CASE ~Turned(wheel, delta)
  <2>1. wheel = {} /\ delta = 0 /\ Notches(delta) = 0
    BY <1>1, <1>6 DEF Turned, Notches, Abs, Lower
  <2>2. \A b \in Bits : One(b \in wheel) + (IF b = Sign(delta) THEN Notches(delta) ELSE 0) = 0
    BY <2>1 DEF One
  <2>3. messages = IF changed THEN <<Event(n, base)>> ELSE <<>>
    BY <1>6 DEF Direct
  <2>4. Event(n, base) \in Events /\ Event(n, base).buttons = base /\ base \cap Bits = {}
    BY EventTyped, HeldAssumption
  <2> HIDE DEF messages
  <2>5. messages \in Seq(Events) /\ Len(messages) <= 1
    BY <2>3, <2>4
  <2>6. Released(messages)
    BY <2>3, <2>4 DEF Released, Quiet
  <2>7. \A b \in Bits : Pressed(messages, b) = 0
    BY <2>3, <2>4, PressesFew DEF One
  <2> QED
    BY <1>1, <2>2, <2>5, <2>6, <2>7 DEF messages
<1> QED
  BY <1>5, <1>6

-----------------------------------------------------------------------------
(* Types.                                                                  *)

LEMMA TwoBits == Cardinality(Bits) = 2
<1>1. IsFiniteSet({"up"}) /\ Cardinality({"up"}) = 1
  BY FS_Singleton
<1>2. Cardinality({"up"} \cup {"down"}) = 2
  BY <1>1, FS_AddElement
<1>3. Bits = {"up"} \cup {"down"}
  BY DEF Bits
<1> QED
  BY <1>2, <1>3

LEMMA MovementsAreEvents ==
    /\ Movements \subseteq Events /\ NoEvent \in Movements
    /\ \A e \in Movements : Quiet(e)
BY HeldAssumption, BoundAssumption DEF Movements, Events, NoEvent, Quiet

LEMMA ReceivedTyped ==
    ASSUME TypeOK, NEW e \in Events, NEW link, Received(e, link)
    PROVE  server' \in Events /\ newest' \in 0..MaxEvents /\ clicks' \in [Bits -> Nat]
<1>1. CASE link = current
  <2>1. server' = e /\ newest' \in {e.n, newest} /\ e.n \in 0..MaxEvents
    BY <1>1 DEF Received, Events
  <2>2. clicks' = [b \in Bits |-> clicks[b]
                     + (IF b \in e.buttons \ server.buttons THEN 1 ELSE 0)]
    BY <1>1 DEF Received
  <2> QED
    BY <2>1, <2>2 DEF TypeOK
<1>2. CASE link # current
  BY <1>2 DEF Received, TypeOK
<1> QED
  BY <1>1, <1>2

LEMMA StepKeepsTypes == TypeOK /\ [Next]_vars => TypeOK'
<1> SUFFICES ASSUME TypeOK, [Next]_vars PROVE TypeOK'
  OBVIOUS
<1>1. ASSUME NEW base \in SUBSET Held, NEW wheel \in Wheels, NEW delta \in Deltas,
             HandleInput(base, wheel, delta)
      PROVE  TypeOK'
  <2>1. events' = events + 1 /\ events' \in 0..MaxEvents
    BY <1>1, BoundAssumption DEF HandleInput, TypeOK
  <2>2. CASE Ignored
    BY <2>1, <2>2 DEF Ignored, TypeOK
  <2>3. CASE Forwarded(events + 1, base, wheel, delta)
    <3> DEFINE changed == base \cup wheel # pointerButtons
               messages == Direct(events + 1, base, wheel, delta, changed)
    <3>1. events + 1 \in 0..MaxEvents /\ changed \in BOOLEAN
      BY <2>1
    <3>2. messages \in Seq(Events) /\ Len(messages) <= 2 * (2 + MaxSteps)
      BY <3>1, DirectExact
    <3> HIDE DEF messages
    <3>3. /\ target' = current /\ pointerButtons' = base /\ direct' = messages
          /\ pointerEvents' = AfterEvent(Event(events + 1, base), messages)
          /\ last' = events + 1
          /\ UNCHANGED <<current, links, hand, server, newest, clicks>>
      BY <2>3 DEF Forwarded, messages
    <3>4. pointerEvents' \in Movements
      BY <3>1, <3>3, MovementsAreEvents DEF AfterEvent, Event, Movements
    <3>5. asked' \in [Bits -> Nat]
      <4>1. Lower(Abs(delta), MaxSteps) \in Nat
        BY NotchesBounded DEF Notches
      <4> QED
        BY <2>3, <4>1 DEF Forwarded, TypeOK
    <3>6. current \in 0..MaxLinks
      BY BoundAssumption DEF TypeOK
    <3> QED
      BY <2>1, <3>2, <3>3, <3>4, <3>5, <3>6, TwoBits DEF TypeOK
  <2> QED
    BY <1>1, <2>2, <2>3 DEF HandleInput
<1>2. CASE SendDirect
  <2>1. Head(direct) \in Events /\ direct' \in Seq(Events) /\ Len(direct') <= Len(direct)
    BY <1>2 DEF SendDirect, TypeOK
  <2>2. server' \in Events /\ newest' \in 0..MaxEvents /\ clicks' \in [Bits -> Nat]
    BY <1>2, <2>1, ReceivedTyped DEF SendDirect
  <2> QED
    BY <1>2, <2>1, <2>2, TwoBits, BoundAssumption DEF SendDirect, TypeOK
<1>3. CASE LoopTakes
  <2>1. current \in 0..MaxLinks /\ NoHand \in [event : Movements, link : 0..MaxLinks]
    BY BoundAssumption, MovementsAreEvents DEF TypeOK, NoHand
  <2> QED
    BY <1>3, <2>1, MovementsAreEvents DEF LoopTakes, TypeOK
<1>4. CASE LoopSends
  <2>1. hand.event \in Events
    BY MovementsAreEvents DEF TypeOK
  <2>2. server' \in Events /\ newest' \in 0..MaxEvents /\ clicks' \in [Bits -> Nat]
    BY <1>4, <2>1, ReceivedTyped DEF LoopSends
  <2>3. hand' \in [event : Movements, link : 0..MaxLinks]
    BY <1>4, MovementsAreEvents, BoundAssumption DEF LoopSends, NoHand
  <2> QED
    BY <1>4, <2>2, <2>3 DEF LoopSends, TypeOK
<1>5. CASE Disconnect
  BY <1>5 DEF Disconnect, TypeOK
<1>6. CASE Reconnect
  BY <1>6, MovementsAreEvents, BoundAssumption DEF Reconnect, TypeOK
<1>7. CASE UNCHANGED vars
  BY <1>7 DEF vars, TypeOK
<1> QED
  BY <1>1, <1>2, <1>3, <1>4, <1>5, <1>6, <1>7 DEF Next

LEMMA InitTyped == Init => TypeOK
BY MovementsAreEvents, TwoBits, BoundAssumption DEF Init, TypeOK, NoHand

\* What goes through the channel is a movement without wheel bits, and one event
\* makes HandleInput write a bounded number of messages.
THEOREM TypeCorrect == Spec => []TypeOK
BY InitTyped, StepKeepsTypes, PTL DEF Spec

-----------------------------------------------------------------------------
(* Notches.                                                                *)

\* The handler writes on the connection it read, the live one or an older one.
TargetIsOld == target \in 0..links

\* A wheel bit is down at the server only while its release is the next message
\* of the handler, and of a connection the handler writes on the presses seen
\* and the presses still to send are the notches turned.
NotchesOwed ==
    /\ Released(direct)
    /\ current # 0 /\ target = current =>
          /\ \A b \in Bits : clicks[b] + Pressed(direct, b) = asked[b]
          /\ ~Quiet(server) => direct # <<>> /\ Quiet(Head(direct))
    /\ current # 0 /\ target # current => clicks = asked /\ Quiet(server)

Wheel == TypeOK /\ TargetIsOld /\ NotchesOwed

LEMMA HandledOwes ==
    ASSUME Wheel, NEW base \in SUBSET Held, NEW wheel \in Wheels, NEW delta \in Deltas,
           HandleInput(base, wheel, delta)
    PROVE  NotchesOwed'
<1>1. events + 1 \in 0..MaxEvents /\ direct = <<>>
  BY BoundAssumption DEF HandleInput, Wheel, TypeOK
<1>2. CASE Ignored
  BY <1>2 DEF Ignored, Wheel, NotchesOwed
<1>3. CASE Forwarded(events + 1, base, wheel, delta)
  <2> DEFINE changed == base \cup wheel # pointerButtons
             messages == Direct(events + 1, base, wheel, delta, changed)
             turned(b) == One(b \in wheel) + IF b = Sign(delta) THEN Notches(delta) ELSE 0
  <2>1. changed \in BOOLEAN
    OBVIOUS
  <2> HIDE DEF changed
  <2>2. /\ messages \in Seq(Events) /\ Released(messages)
        /\ \A b \in Bits : Pressed(messages, b) = turned(b)
    BY <1>1, <2>1, DirectExact
  <2>3. /\ current' = current /\ current # 0 /\ target' = current /\ direct' = messages
        /\ clicks' = clicks /\ server' = server
    BY <1>3 DEF Forwarded, messages, changed
  <2>4. \A b \in Bits : asked'[b] = asked[b] + One(b \in wheel)
                              + IF b = Sign(delta) THEN Notches(delta) ELSE 0
    BY <1>3 DEF Forwarded, One, Notches
  <2>5. Quiet(server) /\ \A b \in Bits : clicks[b] = asked[b]
    <3>1. CASE target = current
      <4>1. \A b \in Bits : clicks[b] \in Nat /\ clicks[b] + Pressed(<<>>, b) = asked[b]
        BY <1>1, <2>3, <3>1 DEF Wheel, NotchesOwed, TypeOK
      <4> QED
        BY <1>1, <2>3, <3>1, <4>1, PressesFew DEF Wheel, NotchesOwed
    <3>2. CASE target # current
      BY <2>3, <3>2 DEF Wheel, NotchesOwed
    <3> QED
      BY <3>1, <3>2
  <2> HIDE DEF messages
  <2>6. \A b \in Bits : clicks'[b] + Pressed(direct', b) = asked'[b]
    <3> TAKE b \in Bits
    <3>1. clicks[b] \in Nat /\ Notches(delta) \in Nat
      BY NotchesBounded DEF Wheel, TypeOK
    <3> QED
      BY <2>2, <2>3, <2>4, <2>5, <3>1 DEF One
  <2>7. Quiet(server')
    BY <2>3, <2>5
  <2> QED
    BY <2>2, <2>3, <2>6, <2>7 DEF NotchesOwed
<1> QED
  BY <1>2, <1>3 DEF HandleInput

\* A movement that arrives releases the bit that was down and presses none.
LEMMA QuietArrives ==
    ASSUME Wheel, NEW e \in Events, Quiet(e), NEW link, Received(e, link)
    PROVE  clicks' = clicks /\ (server' = server \/ Quiet(server'))
<1>1. CASE link = current
  <2>1. \A b \in Bits : b \notin e.buttons
    BY DEF Quiet
  <2>2. clicks' = [b \in Bits |-> clicks[b] + 0]
    BY <1>1, <2>1 DEF Received
  <2>3. clicks \in [Bits -> Nat]
    BY DEF Wheel, TypeOK
  <2>4. clicks' = clicks
    BY <2>2, <2>3
  <2> QED
    BY <1>1, <2>4 DEF Received
<1>2. CASE link # current
  BY <1>2 DEF Received
<1> QED
  BY <1>1, <1>2

LEMMA SentOwes ==
    ASSUME Wheel, SendDirect
    PROVE  NotchesOwed'
<1> DEFINE e == Head(direct)
<1>1. /\ direct # <<>> /\ direct \in Seq(Events) /\ e \in Events /\ direct' = Tail(direct)
      /\ current' = current /\ target' = target /\ asked' = asked
  BY DEF SendDirect, Wheel, TypeOK
<1>2. Released(direct)
  BY DEF Wheel, NotchesOwed
<1>3. /\ Released(direct')
      /\ ~Quiet(e) => direct' # <<>> /\ Quiet(Head(direct'))
  BY <1>1, <1>2, ReleasedTail
<1>4. Received(e, target)
  BY DEF SendDirect
<1> HIDE DEF e
<1>5. CASE current # 0 /\ target = current
  <2>1. server' = e
    BY <1>4, <1>5 DEF Received
  <2>2. \A b \in Bits : clicks'[b] = clicks[b] + One(b \in e.buttons)
    <3> TAKE b \in Bits
    <3>1. clicks'[b] = clicks[b] + One(b \in e.buttons \ server.buttons)
      BY <1>4, <1>5 DEF Received, One
    <3>2. ~Quiet(server) => Quiet(e)
      BY <1>5 DEF Wheel, NotchesOwed, e
    <3>3. b \in e.buttons => b \notin server.buttons
      BY <3>2 DEF Quiet
    <3> QED
      BY <3>1, <3>3 DEF One
  <2>3. \A b \in Bits : clicks'[b] + Pressed(direct', b) = asked'[b]
    <3> TAKE b \in Bits
    <3>1. clicks[b] \in Nat /\ clicks[b] + Pressed(direct, b) = asked[b]
      BY <1>5 DEF Wheel, NotchesOwed, TypeOK
    <3>2. Pressed(direct, b) = One(b \in e.buttons) + Pressed(Tail(direct), b)
      BY <1>1, PressesTail DEF e
    <3>3. Tail(direct) \in Seq(Events)
      BY <1>1
    <3>4. Pressed(Tail(direct), b) \in Nat
      BY <3>3, PressesFinite
    <3>5. direct' = Tail(direct) /\ asked'[b] = asked[b]
          /\ clicks'[b] = clicks[b] + One(b \in e.buttons)
      BY <1>1, <2>2
    <3>6. One(b \in e.buttons) \in Nat
      BY DEF One
    <3> QED
      BY <3>1, <3>2, <3>4, <3>5, <3>6
  <2> QED
    BY <1>1, <1>3, <1>5, <2>1, <2>3 DEF NotchesOwed
<1>6. CASE current # 0 /\ target # current
  <2>1. UNCHANGED <<server, clicks>>
    BY <1>4, <1>6 DEF Received
  <2> QED
    BY <1>1, <1>3, <1>6, <2>1 DEF Wheel, NotchesOwed
<1>7. CASE current = 0
  BY <1>1, <1>3, <1>7 DEF NotchesOwed
<1> QED
  BY <1>5, <1>6, <1>7

LEMMA InitOwes == Init => Wheel
<1> SUFFICES ASSUME Init PROVE Wheel
  OBVIOUS
<1>1. direct = <<>> /\ current = 0 /\ target = 0 /\ links = 0
  BY DEF Init
<1>2. Released(direct)
  BY <1>1 DEF Released
<1> QED
  BY <1>1, <1>2, InitTyped DEF Wheel, NotchesOwed, TargetIsOld

\* Whatever pointerLoop sends in between, whatever connection breaks or comes back.
LEMMA StepOwes == Wheel /\ [Next]_vars => Wheel'
<1> SUFFICES ASSUME Wheel, [Next]_vars PROVE Wheel'
  OBVIOUS
<1>1. TypeOK'
  BY StepKeepsTypes DEF Wheel
<1>2. TargetIsOld'
  <2>1. links \in Nat /\ current \in {0, links} /\ target \in 0..links
    BY BoundAssumption DEF Wheel, TypeOK, TargetIsOld
  <2>2. ASSUME NEW base \in SUBSET Held, NEW wheel \in Wheels, NEW delta \in Deltas,
               HandleInput(base, wheel, delta)
        PROVE  links' = links /\ target' \in {target, current}
    BY <2>2 DEF HandleInput, Ignored, Forwarded
  <2>3. SendDirect \/ LoopTakes \/ LoopSends \/ Disconnect \/ UNCHANGED vars
            => links' = links /\ target' = target
    BY DEF SendDirect, LoopTakes, LoopSends, Disconnect, vars
  <2>4. Reconnect => links' = links + 1 /\ target' = target
    BY DEF Reconnect
  <2> QED
    BY <2>1, <2>2, <2>3, <2>4 DEF Next, TargetIsOld
<1>3. NotchesOwed'
  <2>1. ASSUME NEW base \in SUBSET Held, NEW wheel \in Wheels, NEW delta \in Deltas,
               HandleInput(base, wheel, delta)
        PROVE  NotchesOwed'
    BY <2>1, HandledOwes
  <2>2. CASE SendDirect
    BY <2>2, SentOwes
  <2>3. CASE LoopTakes
    BY <2>3 DEF LoopTakes, Wheel, NotchesOwed
  <2>4. CASE LoopSends
    <3>1. hand.event \in Events /\ Quiet(hand.event)
      BY MovementsAreEvents DEF Wheel, TypeOK
    <3>2. /\ clicks' = clicks /\ (server' = server \/ Quiet(server'))
          /\ UNCHANGED <<current, direct, target, asked>>
      BY <2>4, <3>1, QuietArrives DEF LoopSends
    <3> QED
      BY <3>2 DEF Wheel, NotchesOwed
  <2>5. CASE Disconnect
    BY <2>5 DEF Disconnect, Wheel, NotchesOwed
  <2>6. CASE Reconnect
    <3>1. target' # current'
      BY <2>6, BoundAssumption DEF Reconnect, Wheel, TypeOK, TargetIsOld
    <3>2. clicks' = asked' /\ Quiet(server') /\ direct' = direct
      BY <2>6 DEF Reconnect, NoEvent, Quiet
    <3> QED
      BY <3>1, <3>2 DEF Wheel, NotchesOwed
  <2>7. CASE UNCHANGED vars
    BY <2>7 DEF vars, Wheel, NotchesOwed
  <2> QED
    BY <2>1, <2>2, <2>3, <2>4, <2>5, <2>6, <2>7 DEF Next
<1> QED
  BY <1>1, <1>2, <1>3 DEF Wheel

\* Once the handler has written its messages, the presses of the wheel the server
\* counted are the notches of the events, whatever pointerLoop sent in between:
\* for every wheel field, every cap and every number of connections.
THEOREM WheelExactCorrect == Spec => []WheelExact
<1>1. Wheel => WheelExact
  <2> SUFFICES ASSUME Wheel, current # 0, direct = <<>>
               PROVE  clicks = asked
    BY DEF WheelExact
  <2>1. CASE target = current
    <3>1. \A b \in Bits : clicks[b] \in Nat /\ clicks[b] + Pressed(<<>>, b) = asked[b]
      BY <2>1 DEF Wheel, NotchesOwed, TypeOK
    <3>2. clicks \in [Bits -> Nat] /\ asked \in [Bits -> Nat]
      BY DEF Wheel, TypeOK
    <3> QED
      BY <3>1, <3>2, PressesFew
  <2>2. CASE target # current
    BY <2>2 DEF Wheel, NotchesOwed
  <2> QED
    BY <2>1, <2>2
<1> QED
  BY <1>1, InitOwes, StepOwes, PTL DEF Spec

-----------------------------------------------------------------------------
\* The keys.

Busy == reader.at # "idle"

\* The keys whose events are still to be delivered or given up.
Hids(list) == {list[i].hid : i \in DOMAIN list}
InHand == IF Busy THEN {reader.event.hid} ELSE {}
Left   == Hids(todo) \cup InHand

\* The order of the events of a report.
Rank(e) == IF e.hid \in Ordinary THEN (IF e.pressed THEN 4 ELSE 1) ELSE (IF e.pressed THEN 3 ELSE 2)

\* The events that are left: one of a key, in order, each with what the report
\* says of its key.
Listed(list, down) ==
    /\ \A i, j \in DOMAIN list : i < j => Rank(list[i]) <= Rank(list[j])
    /\ \A i, j \in DOMAIN list : i # j => list[i].hid # list[j].hid
    /\ \A i \in DOMAIN list : list[i].pressed <=> list[i].hid \in down

ReaderFollows ==
    Busy => /\ reader.event \in Strokes
            /\ reader.event.hid \notin Hids(todo)
            /\ \A i \in DOMAIN todo : Rank(reader.event) <= Rank(todo[i])
            /\ reader.event.pressed <=> reader.event.hid \in Down(decoder)
            /\ reader.session \in Sessions
            /\ reader.at = "writing" => HasKeysym(reader.event.hid)

\* While the release of an ordinary key is left, so is every change of a modifier.
ReleasesLeft ==
    \/ Busy /\ Rank(reader.event) = 1
    \/ \E i \in DOMAIN todo : Rank(todo[i]) = 1

ModifiersWait ==
    ReleasesLeft => \A m \in Modifiers : m \in Left <=> ~(m \in before <=> m \in decoder.modifiers)

Report == Listed(todo, Down(decoder)) /\ ReaderFollows /\ ModifiersWait

\* The connections that may hear of the events that are left.
Hears(l) ==
    \/ reader.at = "handling" /\ l = conn[reader.session]
    \/ reader.at = "writing" /\ l = reader.link

Listens(l) ==
    l \in open /\ (Hears(l) \/ (onInput # 0 /\ l = conn[onInput]))

\* A server of a new connection holds no key of a release that is left; any other
\* holds all of them but those it missed.
New(l)  == \A h \in Left \ Down(decoder) : h \notin held[l]
Old(l)  == \A h \in Left \ Down(decoder) : HasKeysym(h) => (h \in held[l] <=> h \notin missed[l])

\* What a listening server holds.
Holds(l) ==
    /\ \A h \in HIDs \ Left : HasKeysym(h) => (h \in held[l] <=> h \in Down(decoder) \ missed[l])
    /\ \A h \in Left \cap Down(decoder) : h \notin held[l]
    /\ New(l) \/ Old(l)
    /\ Busy /\ ~Hears(l) => New(l)

Listening ==
    /\ \A l \in Links : Listens(l) => Holds(l)
    /\ \A l \in Links : \A h \in held[l] : HasKeysym(h)
    /\ \A l \in Links : l \notin open => held[l] = {}

KInv == KeysTypeOK /\ Report /\ Listening

-----------------------------------------------------------------------------
(* The order of a set of keys.                                             *)

\* Induction, for a set of indices.
LEMMA UpTo ==
    ASSUME NEW n \in Nat, NEW C, 0 \in C, \A i \in 1..n : i - 1 \in C => i \in C
    PROVE  0..n \subseteq C
<1> DEFINE less == OpToRel(<, Nat)
           T == (0..n) \ C
<1>1. \A x, y \in Nat : <<y, x>> \in less <=> y < x
  BY DEF OpToRel
<1>2. IsWellFoundedOn(less, Nat)
  BY NatLessThanWellFounded
<1>3. ASSUME T # {} PROVE FALSE
  <2>1. T \subseteq Nat
    OBVIOUS
  <2> HIDE DEF less
  <2>2. \E x \in T : \A y \in T : ~(<<y, x>> \in less)
    BY <1>2, <1>3, <2>1, WFMin
  <2>3. PICK x \in T : \A y \in T : ~(y < x)
    BY <1>1, <2>1, <2>2
  <2>4. x \in 1..n /\ x - 1 \in 0..n
    BY <2>3
  <2>5. x - 1 \in C
    BY <2>3, <2>4
  <2> QED
    BY <2>3, <2>4, <2>5
<1> QED
  BY <1>3

Orders(S) ==
    {s \in [1..Cardinality(S) -> S] : \A i, j \in DOMAIN s : i < j => s[i] < s[j]}

LEMMA KeysFinite ==
    ASSUME NEW k \in Nat, NEW S \in SUBSET (1..k)
    PROVE  IsFiniteSet(S) /\ Cardinality(S) \in Nat
<1>1. IsFiniteSet(1..k)
  BY FS_Interval
<1>2. IsFiniteSet(S)
  BY <1>1, FS_Subset
<1> QED BY <1>2, FS_CardinalityType

LEMMA OrderExtended ==
    ASSUME NEW k \in Nat \ {0}, NEW S \in SUBSET (1..k), k \in S, Orders(S \ {k}) # {}
    PROVE  Orders(S) # {}
<1> DEFINE n == Cardinality(S \ {k})
<1>1. PICK s : s \in Orders(S \ {k})
  OBVIOUS
<1>2. n \in Nat /\ Cardinality(S) = n + 1
  <2>1. IsFiniteSet(S) /\ Cardinality(S) \in Nat
    BY KeysFinite
  <2>2. IsFiniteSet(S \ {k}) /\ Cardinality(S \ {k}) = Cardinality(S) - 1
    BY <2>1, FS_RemoveElement
  <2> QED BY <2>1, <2>2, FS_CardinalityType
<1> DEFINE t == [i \in 1..(n + 1) |-> IF i = n + 1 THEN k ELSE s[i]]
<1> HIDE DEF n
<1>3. s \in [1..n -> S \ {k}] /\ \A i, j \in 1..n : i < j => s[i] < s[j]
  BY <1>1 DEF Orders, n
<1>4. t \in [1..(n + 1) -> S]
  BY <1>2, <1>3
<1>5. \A i, j \in 1..(n + 1) : i < j => t[i] < t[j]
  <2> TAKE i, j \in 1..(n + 1)
  <2> HAVE i < j
  <2>1. i \in 1..n /\ t[i] = s[i] /\ s[i] \in S \ {k}
    BY <1>2, <1>3
  <2>2. CASE j = n + 1
    <3>1. t[j] = k
      BY <2>2
    <3>2. s[i] \in 1..k /\ s[i] # k
      BY <2>1
    <3> QED BY <2>1, <3>1, <3>2
  <2>3. CASE j # n + 1
    BY <1>2, <1>3, <2>1, <2>3
  <2> QED BY <2>2, <2>3
<1>6. t \in Orders(S)
  BY <1>2, <1>4, <1>5 DEF Orders
<1> QED BY <1>6

LEMMA OrderExists ==
    ASSUME NEW S \in SUBSET (1..255)
    PROVE  Orders(S) # {}
<1> DEFINE C == {k \in 0..255 : \A T \in SUBSET (1..k) : Orders(T) # {}}
<1>1. 0 \in C
  <2> SUFFICES ASSUME NEW T \in SUBSET (1..0) PROVE Orders(T) # {}
    OBVIOUS
  <2>1. T = {}
    OBVIOUS
  <2>2. Cardinality(T) = 0
    BY <2>1, FS_EmptySet
  <2>3. <<>> \in Orders(T)
    BY <2>1, <2>2 DEF Orders
  <2> QED BY <2>3
<1>2. ASSUME NEW k \in 1..255, k - 1 \in C PROVE k \in C
  <2> SUFFICES ASSUME NEW T \in SUBSET (1..k) PROVE Orders(T) # {}
    OBVIOUS
  <2>1. \A U \in SUBSET (1..(k - 1)) : Orders(U) # {}
    BY <1>2
  <2>2. CASE k \in T
    <3>1. T \ {k} \in SUBSET (1..(k - 1))
      OBVIOUS
    <3>2. Orders(T \ {k}) # {}
      BY <2>1, <3>1
    <3> QED BY <2>2, <3>2, OrderExtended
  <2>3. CASE k \notin T
    <3>1. T \in SUBSET (1..(k - 1))
      BY <2>3
    <3> QED BY <2>1, <3>1
  <2> QED BY <2>2, <2>3
<1> HIDE DEF C
<1>3. 0..255 \subseteq C
  BY <1>1, <1>2, UpTo
<1>4. 255 \in C
  BY <1>3
<1> QED BY <1>4 DEF C

LEMMA AscendingOrders ==
    ASSUME NEW S \in SUBSET (1..255)
    PROVE  /\ Cardinality(S) \in Nat
           /\ Ascending(S) \in [1..Cardinality(S) -> S]
           /\ \A i, j \in 1..Cardinality(S) : i # j => Ascending(S)[i] # Ascending(S)[j]
           /\ \A h \in S : \E i \in 1..Cardinality(S) : Ascending(S)[i] = h
<1> DEFINE n == Cardinality(S)
           a == Ascending(S)
<1>1. IsFiniteSet(S) /\ n \in Nat
  BY KeysFinite
<1>2. a \in [1..n -> S] /\ \A i, j \in DOMAIN a : i < j => a[i] < a[j]
  <2>1. \E s : s \in [1..n -> S] /\ \A i, j \in DOMAIN s : i < j => s[i] < s[j]
    BY OrderExists DEF Orders
  <2> QED BY <2>1, Zenon DEF Ascending
<1> HIDE DEF a, n
<1>3. \A i, j \in 1..n : i # j => a[i] # a[j]
  <2> TAKE i, j \in 1..n
  <2> HAVE i # j
  <2>1. i < j \/ j < i
    BY <1>1
  <2>2. a[i] < a[j] \/ a[j] < a[i]
    BY <1>2, <2>1
  <2>3. a[i] \in S /\ a[j] \in S
    BY <1>2
  <2>4. \A h \in S : h \in Int
    OBVIOUS
  <2>5. a[i] \in Int /\ a[j] \in Int
    BY <2>3, <2>4
  <2> QED BY <2>2, <2>5
<1>4. ASSUME NEW h \in S, \A i \in 1..n : a[i] # h PROVE FALSE
  <2>1. IsFiniteSet(S \ {h}) /\ Cardinality(S \ {h}) = n - 1
    BY <1>1, FS_RemoveElement DEF n
  <2>2. IsFiniteSet(1..n) /\ Cardinality(1..n) = n
    BY <1>1, FS_Interval
  <2>3. a \in [1..n -> S \ {h}]
    BY <1>2, <1>4
  <2>4. Cardinality(S \ {h}) < Cardinality(1..n)
    BY <1>1, <2>1, <2>2
  <2>5. \E i, j \in 1..n : i # j /\ a[i] = a[j]
    <3> DEFINE from == 1..n
               to == S \ {h}
    <3>1. /\ IsFiniteSet(from) /\ IsFiniteSet(to) /\ Cardinality(to) < Cardinality(from)
          /\ a \in [from -> to]
      BY <2>1, <2>2, <2>3, <2>4
    <3>2. \A f \in [from -> to] : \E i, j \in from : i # j /\ f[i] = f[j]
      <4> HIDE DEF from, to
      <4> QED BY <3>1, FS_PigeonHole
    <3> QED BY <3>1, <3>2
  <2> QED BY <1>3, <2>5
<1>5. \A h \in S : \E i \in 1..n : a[i] = h
  BY <1>4
<1> QED BY <1>1, <1>2, <1>3, <1>5 DEF a, n

-----------------------------------------------------------------------------
(* The events of a report.                                                 *)

KeyReports == [keys : SUBSET Ordinary, modifiers : SUBSET Modifiers]

LEMMA Usages ==
    /\ Ordinary \subseteq 1..255 /\ Modifiers \subseteq 1..255
    /\ Ordinary \cap Modifiers = {}
BY KeyAssumption DEF ModifierHIDs

LEMMA ConcatList ==
    ASSUME NEW s \in Seq(Strokes), NEW t \in Seq(Strokes)
    PROVE  /\ s \o t \in Seq(Strokes) /\ DOMAIN (s \o t) = 1..(Len(s) + Len(t))
           /\ DOMAIN s = 1..Len(s) /\ DOMAIN t = 1..Len(t) /\ Len(s) \in Nat /\ Len(t) \in Nat
           /\ \A i \in 1..(Len(s) + Len(t)) :
                (s \o t)[i] = IF i <= Len(s) THEN s[i] ELSE t[i - Len(s)]
OBVIOUS

LEMMA HidsConcat ==
    ASSUME NEW s \in Seq(Strokes), NEW t \in Seq(Strokes)
    PROVE  Hids(s \o t) = Hids(s) \cup Hids(t)
<1>1. ASSUME NEW i \in DOMAIN (s \o t) PROVE (s \o t)[i].hid \in Hids(s) \cup Hids(t)
  <2>1. CASE i <= Len(s)
    <3>1. i \in DOMAIN s /\ (s \o t)[i] = s[i]
      BY <1>1, <2>1, ConcatList
    <3> QED BY <3>1 DEF Hids
  <2>2. CASE ~(i <= Len(s))
    <3>1. i - Len(s) \in DOMAIN t /\ (s \o t)[i] = t[i - Len(s)]
      BY <1>1, <2>2, ConcatList
    <3> QED BY <3>1 DEF Hids
  <2> QED BY <2>1, <2>2
<1>2. ASSUME NEW i \in DOMAIN s PROVE s[i].hid \in Hids(s \o t)
  <2>1. i \in DOMAIN (s \o t) /\ (s \o t)[i] = s[i]
    BY <1>2, ConcatList
  <2> QED BY <2>1 DEF Hids
<1>3. ASSUME NEW i \in DOMAIN t PROVE t[i].hid \in Hids(s \o t)
  <2>1. Len(s) + i \in DOMAIN (s \o t) /\ (s \o t)[Len(s) + i] = t[i]
    BY <1>3, ConcatList
  <2> QED BY <2>1 DEF Hids
<1> QED BY <1>1, <1>2, <1>3 DEF Hids

\* Two lists of different keys, one of lower rank than the other, make a list.
LEMMA ListedConcat ==
    ASSUME NEW s \in Seq(Strokes), NEW t \in Seq(Strokes), NEW r \in Nat, NEW down,
           Listed(s, down), Listed(t, down), Hids(s) \cap Hids(t) = {},
           \A i \in DOMAIN s : Rank(s[i]) <= r, \A j \in DOMAIN t : r < Rank(t[j])
    PROVE  Listed(s \o t, down)
<1> DEFINE q == s \o t
           n == Len(s)
<1>1. /\ DOMAIN q = 1..(n + Len(t)) /\ DOMAIN s = 1..n /\ DOMAIN t = 1..Len(t)
      /\ n \in Nat /\ Len(t) \in Nat
      /\ \A i \in DOMAIN q : q[i] = IF i <= n THEN s[i] ELSE t[i - n]
  BY ConcatList
<1> HIDE DEF q, n
<1>2. \A i \in DOMAIN q : IF i <= n THEN i \in DOMAIN s /\ q[i] = s[i]
                          ELSE i - n \in DOMAIN t /\ q[i] = t[i - n]
  BY <1>1
<1>3. ASSUME NEW e \in DOMAIN s PROVE Rank(s[e]) \in Nat
  BY DEF Rank
<1>4. ASSUME NEW e \in DOMAIN t PROVE Rank(t[e]) \in Nat
  BY DEF Rank
<1>5. ASSUME NEW i \in DOMAIN q, NEW j \in DOMAIN q, i < j PROVE Rank(q[i]) <= Rank(q[j])
  <2>1. CASE j <= n
    <3>1. i <= n
      BY <1>1, <1>5, <2>1
    <3> QED BY <1>2, <1>5, <2>1, <3>1 DEF Listed
  <2>2. CASE i <= n /\ ~(j <= n)
    <3>1. /\ i \in DOMAIN s /\ q[i] = s[i] /\ j - n \in DOMAIN t /\ q[j] = t[j - n]
      BY <1>2, <2>2
    <3>2. Rank(s[i]) <= r /\ r < Rank(t[j - n]) /\ Rank(s[i]) \in Nat /\ Rank(t[j - n]) \in Nat
      BY <1>3, <1>4, <3>1
    <3> QED BY <3>1, <3>2
  <2>3. CASE ~(i <= n)
    <3>1. ~(j <= n) /\ i - n < j - n
      BY <1>1, <1>5, <2>3
    <3> QED BY <1>2, <2>3, <3>1 DEF Listed
  <2> QED BY <2>1, <2>2, <2>3
<1>6. ASSUME NEW i \in DOMAIN q, NEW j \in DOMAIN q, i # j PROVE q[i].hid # q[j].hid
  <2>1. CASE i <= n /\ j <= n
    BY <1>2, <1>6, <2>1 DEF Listed
  <2>2. CASE ~(i <= n) /\ ~(j <= n)
    <3>1. i - n # j - n
      BY <1>1, <1>6
    <3> QED BY <1>2, <2>2, <3>1 DEF Listed
  <2>3. CASE (i <= n /\ ~(j <= n)) \/ (j <= n /\ ~(i <= n))
    BY <1>2, <2>3 DEF Hids
  <2> QED BY <2>1, <2>2, <2>3
<1>7. ASSUME NEW i \in DOMAIN q PROVE q[i].pressed <=> q[i].hid \in down
  <2>1. CASE i <= n
    BY <1>2, <2>1 DEF Listed
  <2>2. CASE ~(i <= n)
    BY <1>2, <2>2 DEF Listed
  <2> QED BY <2>1, <2>2
<1> QED BY <1>5, <1>6, <1>7 DEF Listed, q

\* The keys of one of the decoder's loops, and the events it makes of them.
Block(S, pressed, down) ==
    /\ S \in SUBSET HIDs
    /\ S \subseteq Ordinary \/ S \cap Ordinary = {}
    /\ \A h \in S : pressed <=> h \in down

BlockEvents(q, S, pressed, down) ==
    /\ q \in Seq(Strokes) /\ Hids(q) = S /\ Listed(q, down)
    /\ \A i \in DOMAIN q : q[i].hid \in S /\ q[i].pressed = pressed

LEMMA EventsOfSet ==
    ASSUME NEW S, NEW pressed \in BOOLEAN, NEW modifiers \in SUBSET Modifiers,
           NEW down, Block(S, pressed, down)
    PROVE  BlockEvents(KeyEvents(S, pressed, modifiers), S, pressed, down)
<1> DEFINE q == KeyEvents(S, pressed, modifiers)
           n == Cardinality(S)
           a == Ascending(S)
<1>1. S \in SUBSET (1..255)
  BY Usages DEF HIDs, Block
<1>2. /\ n \in Nat /\ a \in [1..n -> S]
      /\ \A i, j \in 1..n : i # j => a[i] # a[j]
      /\ \A h \in S : \E i \in 1..n : a[i] = h
  BY <1>1, AscendingOrders
<1>3. q = [i \in 1..n |-> KeyInput(a[i], pressed, modifiers)]
  BY DEF KeyEvents
<1> HIDE DEF q, n, a
<1>4. DOMAIN q = 1..n /\ \A i \in 1..n : q[i] = KeyInput(a[i], pressed, modifiers)
  BY <1>3
<1>5. \A i \in 1..n : /\ q[i] \in Strokes
                      /\ q[i].hid = a[i] /\ q[i].hid \in S /\ q[i].pressed = pressed
  BY <1>2, <1>4 DEF KeyInput, Strokes, Block
<1>6. q \in Seq(Strokes)
  BY <1>2, <1>3, <1>5
<1>7. Hids(q) = S
  BY <1>2, <1>4, <1>5 DEF Hids
<1>8. \A i, j \in 1..n : Rank(q[i]) = Rank(q[j])
  BY <1>5 DEF Rank, Block
<1>9. \A i \in 1..n : Rank(q[i]) \in Nat
  BY DEF Rank
<1>10. Listed(q, down)
  BY <1>2, <1>4, <1>5, <1>8, <1>9 DEF Listed, Block
<1>11. BlockEvents(q, S, pressed, down)
  BY <1>4, <1>5, <1>6, <1>7, <1>10 DEF BlockEvents
<1> QED BY <1>11 DEF q

\* No event of two lists has a higher rank than theirs.
LEMMA ConcatRank ==
    ASSUME NEW s \in Seq(Strokes), NEW t \in Seq(Strokes), NEW m \in Nat, NEW r \in Nat, m <= r,
           \A i \in DOMAIN s : Rank(s[i]) <= m, \A i \in DOMAIN t : Rank(t[i]) = r
    PROVE  \A i \in DOMAIN (s \o t) : Rank((s \o t)[i]) <= r
<1> TAKE i \in DOMAIN (s \o t)
<1>1. \/ i \in DOMAIN s /\ (s \o t)[i] = s[i]
      \/ i - Len(s) \in DOMAIN t /\ (s \o t)[i] = t[i - Len(s)]
  BY ConcatList
<1>2. Rank((s \o t)[i]) \in Nat
  BY DEF Rank
<1> QED BY <1>1, <1>2

\* What one report leaves to do: an event of every key that changed.
LEMMA KeyboardListed ==
    ASSUME NEW old \in KeyReports, NEW new \in KeyReports
    PROVE  /\ Keyboard(old, new) \in Seq(Strokes)
           /\ Listed(Keyboard(old, new), Down(new))
           /\ \A h : h \in Hids(Keyboard(old, new)) <=>
                        (h \in Down(old) \ Down(new) \/ h \in Down(new) \ Down(old))
<1> DEFINE S1 == old.keys \ new.keys
           S2 == old.modifiers \ new.modifiers
           S3 == new.modifiers \ old.modifiers
           S4 == new.keys \ old.keys
           q1 == KeyEvents(S1, FALSE, new.modifiers)
           q2 == KeyEvents(S2, FALSE, new.modifiers)
           q3 == KeyEvents(S3, TRUE, new.modifiers)
           q4 == KeyEvents(S4, TRUE, new.modifiers)
<1>1. /\ old.keys \subseteq Ordinary /\ new.keys \subseteq Ordinary
      /\ old.modifiers \subseteq Modifiers /\ new.modifiers \subseteq Modifiers
      /\ Ordinary \cap Modifiers = {}
  BY Usages DEF KeyReports
<1>2. BlockEvents(q1, S1, FALSE, Down(new))
  <2>1. Block(S1, FALSE, Down(new))
    BY <1>1 DEF Block, HIDs, Down
  <2>2. new.modifiers \in SUBSET Modifiers /\ FALSE \in BOOLEAN
    BY <1>1
  <2> HIDE DEF S1
  <2> QED BY <2>1, <2>2, EventsOfSet
<1>3. BlockEvents(q2, S2, FALSE, Down(new))
  <2>1. Block(S2, FALSE, Down(new))
    BY <1>1 DEF Block, HIDs, Down
  <2>2. new.modifiers \in SUBSET Modifiers /\ FALSE \in BOOLEAN
    BY <1>1
  <2> HIDE DEF S2
  <2> QED BY <2>1, <2>2, EventsOfSet
<1>4. BlockEvents(q3, S3, TRUE, Down(new))
  <2>1. Block(S3, TRUE, Down(new))
    BY <1>1 DEF Block, HIDs, Down
  <2>2. new.modifiers \in SUBSET Modifiers /\ TRUE \in BOOLEAN
    BY <1>1
  <2> HIDE DEF S3
  <2> QED BY <2>1, <2>2, EventsOfSet
<1>5. BlockEvents(q4, S4, TRUE, Down(new))
  <2>1. Block(S4, TRUE, Down(new))
    BY <1>1 DEF Block, HIDs, Down
  <2>2. new.modifiers \in SUBSET Modifiers /\ TRUE \in BOOLEAN
    BY <1>1
  <2> HIDE DEF S4
  <2> QED BY <2>1, <2>2, EventsOfSet
<1>6. /\ S1 \cap S2 = {} /\ (S1 \cup S2) \cap S3 = {} /\ (S1 \cup S2 \cup S3) \cap S4 = {}
      /\ S1 \subseteq Ordinary /\ S4 \subseteq Ordinary
      /\ S2 \cap Ordinary = {} /\ S3 \cap Ordinary = {}
  BY <1>1
<1>7. Keyboard(old, new) = ((q1 \o q2) \o q3) \o q4
  BY DEF Keyboard
<1>8. \A h : h \in S1 \cup S2 \cup S3 \cup S4 <=>
                (h \in Down(old) \ Down(new) \/ h \in Down(new) \ Down(old))
  BY <1>1 DEF Down
<1> HIDE DEF S1, S2, S3, S4, q1, q2, q3, q4
<1>9. /\ \A i \in DOMAIN q1 : Rank(q1[i]) = 1
      /\ \A i \in DOMAIN q2 : Rank(q2[i]) = 2
      /\ \A i \in DOMAIN q3 : Rank(q3[i]) = 3
      /\ \A i \in DOMAIN q4 : Rank(q4[i]) = 4
  <2>1. \A i \in DOMAIN q1 : Rank(q1[i]) = 1
    BY <1>2, <1>6 DEF Rank, BlockEvents
  <2>2. \A i \in DOMAIN q2 : Rank(q2[i]) = 2
    BY <1>3, <1>6 DEF Rank, BlockEvents
  <2>3. \A i \in DOMAIN q3 : Rank(q3[i]) = 3
    BY <1>4, <1>6 DEF Rank, BlockEvents
  <2>4. \A i \in DOMAIN q4 : Rank(q4[i]) = 4
    BY <1>5, <1>6 DEF Rank, BlockEvents
  <2> QED BY <2>1, <2>2, <2>3, <2>4
<1> DEFINE q12 == q1 \o q2
           q123 == q12 \o q3
<1> USE DEF BlockEvents
<1>10. /\ q12 \in Seq(Strokes) /\ Hids(q12) = S1 \cup S2 /\ Listed(q12, Down(new))
       /\ \A i \in DOMAIN q12 : Rank(q12[i]) <= 2
  <2>1. q12 \in Seq(Strokes) /\ Hids(q12) = S1 \cup S2
    BY <1>2, <1>3, HidsConcat, ConcatList
  <2>2. \A i \in DOMAIN q12 : Rank(q12[i]) <= 2
    <3>1. \A i \in DOMAIN q1 : Rank(q1[i]) <= 1
      BY <1>9
    <3> QED BY <1>2, <1>3, <1>9, <3>1, ConcatRank
  <2>3. Listed(q12, Down(new))
    <3>1. \A i \in DOMAIN q1 : Rank(q1[i]) <= 1
      BY <1>9
    <3>2. \A i \in DOMAIN q2 : 1 < Rank(q2[i])
      BY <1>9
    <3> QED BY <1>2, <1>3, <1>6, <3>1, <3>2, ListedConcat
  <2> QED BY <2>1, <2>2, <2>3
<1> HIDE DEF q12
<1>11. /\ q123 \in Seq(Strokes) /\ Hids(q123) = S1 \cup S2 \cup S3 /\ Listed(q123, Down(new))
       /\ \A i \in DOMAIN q123 : Rank(q123[i]) <= 3
  <2>1. q123 \in Seq(Strokes) /\ Hids(q123) = S1 \cup S2 \cup S3
    BY <1>4, <1>10, HidsConcat, ConcatList
  <2>2. \A i \in DOMAIN q123 : Rank(q123[i]) <= 3
    BY <1>4, <1>9, <1>10, ConcatRank
  <2>3. Listed(q123, Down(new))
    <3>1. \A i \in DOMAIN q3 : 2 < Rank(q3[i])
      BY <1>9
    <3> QED BY <1>4, <1>6, <1>10, <3>1, ListedConcat
  <2> QED BY <2>1, <2>2, <2>3
<1> HIDE DEF q123
<1>12. /\ q123 \o q4 \in Seq(Strokes) /\ Hids(q123 \o q4) = S1 \cup S2 \cup S3 \cup S4
  BY <1>5, <1>11, HidsConcat, ConcatList
<1>13. Listed(q123 \o q4, Down(new))
  <2>1. \A i \in DOMAIN q4 : 3 < Rank(q4[i])
    BY <1>9
  <2> QED BY <1>5, <1>6, <1>11, <2>1, ListedConcat
<1>14. Keyboard(old, new) = q123 \o q4
  BY <1>7 DEF q123, q12
<1> QED BY <1>8, <1>12, <1>13, <1>14

\* What is left when the first event was taken.
LEMMA TailListed ==
    ASSUME NEW q \in Seq(Strokes), q # <<>>, NEW down, Listed(q, down)
    PROVE  /\ Head(q) \in Strokes /\ Tail(q) \in Seq(Strokes) /\ Listed(Tail(q), down)
           /\ Hids(q) = Hids(Tail(q)) \cup {Head(q).hid} /\ Head(q).hid \notin Hids(Tail(q))
           /\ \A i \in DOMAIN Tail(q) : Rank(Head(q)) <= Rank(Tail(q)[i])
           /\ Head(q).pressed <=> Head(q).hid \in down
<1> DEFINE t == Tail(q)
           n == Len(t)
<1>1. /\ Head(q) = q[1] /\ Head(q) \in Strokes /\ t \in Seq(Strokes) /\ n \in Nat
      /\ DOMAIN q = 1..(n + 1) /\ DOMAIN t = 1..n
      /\ \A i \in 1..n : t[i] = q[i + 1]
  OBVIOUS
<1> HIDE DEF t, n
<1>2. \A i \in 1..n : i + 1 \in DOMAIN q /\ 1 < i + 1 /\ 1 # i + 1 /\ 1 \in DOMAIN q
  BY <1>1
<1>3. Listed(t, down)
  <2>1. \A i, j \in 1..n : (i < j => i + 1 < j + 1) /\ (i # j => i + 1 # j + 1)
    BY <1>1
  <2>2. \A i, j \in 1..n : i < j => Rank(t[i]) <= Rank(t[j])
    <3> HIDE DEF Rank
    <3> QED BY <1>1, <1>2, <2>1 DEF Listed
  <2>3. ASSUME NEW i \in 1..n, NEW j \in 1..n, i # j PROVE t[i].hid # t[j].hid
    <3>1. q[i + 1].hid # q[j + 1].hid
      BY <1>2, <2>1, <2>3 DEF Listed
    <3> QED BY <1>1, <3>1
  <2>4. \A i \in 1..n : t[i].pressed <=> t[i].hid \in down
    BY <1>1, <1>2 DEF Listed
  <2> QED BY <1>1, <2>2, <2>3, <2>4 DEF Listed
<1>4. /\ Head(q).hid \notin Hids(t)
      /\ \A i \in DOMAIN t : Rank(Head(q)) <= Rank(t[i])
      /\ Head(q).pressed <=> Head(q).hid \in down
  <2>1. \A i \in 1..n : t[i].hid # q[1].hid
    BY <1>1, <1>2 DEF Listed
  <2>2. \A i \in 1..n : Rank(q[1]) <= Rank(t[i])
    BY <1>1, <1>2 DEF Listed
  <2>3. q[1].pressed <=> q[1].hid \in down
    BY <1>1 DEF Listed
  <2> QED BY <1>1, <2>1, <2>2, <2>3 DEF Hids
<1>5. Hids(q) = Hids(t) \cup {Head(q).hid}
  <2>1. ASSUME NEW i \in DOMAIN q PROVE q[i].hid \in Hids(t) \cup {Head(q).hid}
    <3>1. CASE i = 1
      BY <1>1, <3>1
    <3>2. CASE i # 1
      <4>1. i - 1 \in DOMAIN t /\ t[i - 1] = q[i]
        BY <1>1, <3>2
      <4> QED BY <4>1 DEF Hids
    <3> QED BY <3>1, <3>2
  <2>2. ASSUME NEW i \in DOMAIN t PROVE t[i].hid \in Hids(q)
    BY <1>1, <1>2 DEF Hids
  <2>3. Head(q).hid \in Hids(q)
    BY <1>1 DEF Hids
  <2> QED BY <2>1, <2>2, <2>3 DEF Hids
<1> QED BY <1>1, <1>3, <1>4, <1>5 DEF t

-----------------------------------------------------------------------------
(* The types.                                                              *)

LEMMA IdleTyped ==
    Idle \in [at : {"idle", "handling", "writing"}, session : 0..MaxSessions,
                     link : 0..MaxDials, event : Strokes \cup {NoStroke}]
BY KeyAssumption DEF Idle

LEMMA MissedTyped ==
    ASSUME missed \in [Links -> SUBSET HIDs], NEW e \in Strokes, NEW l, Reached(e, l)
    PROVE  missed' \in [Links -> SUBSET HIDs]
BY DEF Reached, Strokes

LEMMA TypeStep ==
    ASSUME KeysTypeOK, ReaderFollows, [KeysNext]_keysVars
    PROVE  KeysTypeOK'
<1> USE DEF Sessions, Links, input, daemon, network, servers
<1>0. {MaxSessions, MaxReports, MaxDials} \subseteq Nat
  BY KeyAssumption
<1>1. ASSUME NEW report \in Reports(Ordinary, Modifiers), Receive(report) PROVE KeysTypeOK'
  <2>1. report \in KeyReports /\ decoder \in KeyReports
    BY DEF Reports, KeyReports, KeysTypeOK
  <2>2. todo' \in Seq(Strokes)
    BY <1>0, <1>1, <2>1, KeyboardListed DEF Receive
  <2> QED BY <1>0, <1>1, <2>1, <2>2 DEF Receive, KeysTypeOK, KeyReports
<1>2. CASE Dispatch
  <2>1. Head(todo) \in Strokes /\ Tail(todo) \in Seq(Strokes)
    BY <1>0, <1>2 DEF Dispatch, KeysTypeOK
  <2>2. missed' \in [Links -> SUBSET HIDs]
    BY <1>0, <1>2, <2>1, MissedTyped DEF Dispatch, KeysTypeOK
  <2>3. reader' \in [at : {"idle", "handling", "writing"}, session : 0..MaxSessions,
                     link : 0..MaxDials, event : Strokes \cup {NoStroke}]
    BY <1>0, <1>2, <2>1 DEF Dispatch, KeysTypeOK
  <2> QED BY <1>0, <1>2, <2>1, <2>2, <2>3 DEF Dispatch, KeysTypeOK
<1>3. CASE HandleKey
  <2>1. reader.event \in Strokes /\ conn[reader.session] \in 0..MaxDials
    BY <1>0, <1>3 DEF HandleKey, KeysTypeOK, ReaderFollows, Busy
  <2>2. missed' \in [Links -> SUBSET HIDs]
    BY <1>0, <1>3, <2>1, MissedTyped DEF HandleKey, KeysTypeOK
  <2>3. reader' \in [at : {"idle", "handling", "writing"}, session : 0..MaxSessions,
                     link : 0..MaxDials, event : Strokes \cup {NoStroke}]
    <3>1. reader.at = "handling" /\ (reader' = Idle \/ reader' =
            [reader EXCEPT !.at = "writing", !.link = conn[reader.session]])
      BY <1>0, <1>3 DEF HandleKey
    <3>2. CASE reader' = Idle
      BY <3>2, IdleTyped
    <3>3. CASE reader' = [reader EXCEPT !.at = "writing", !.link = conn[reader.session]]
      <4> DEFINE l == conn[reader.session]
      <4>1. reader' = [at |-> "writing", session |-> reader.session, link |-> l,
                       event |-> reader.event]
        BY <3>3 DEF KeysTypeOK
      <4>2. l \in 0..MaxDials /\ reader.session \in 0..MaxSessions
        BY <2>1 DEF KeysTypeOK
      <4> HIDE DEF l
      <4> QED BY <2>1, <4>1, <4>2
    <3> QED BY <3>1, <3>2, <3>3
  <2> QED BY <1>0, <1>3, <2>2, <2>3 DEF HandleKey, KeysTypeOK
<1>4. CASE SendKey
  <2>1. reader.event \in Strokes
    BY <1>0, <1>4 DEF SendKey, ReaderFollows, Busy
  <2>2. missed' \in [Links -> SUBSET HIDs]
    BY <1>0, <1>4, <2>1, MissedTyped DEF SendKey, KeysTypeOK
  <2>3. held' \in [Links -> SUBSET HIDs]
    <3>1. \A keys \in SUBSET HIDs : HeldAfter(keys, reader.event) \in SUBSET HIDs
      BY <2>1 DEF HeldAfter, Strokes
    <3>2. \/ held' = held
          \/ held' = [held EXCEPT ![reader.link] = HeldAfter(@, reader.event)]
      BY <1>0, <1>4 DEF SendKey
    <3>3. CASE held' = [held EXCEPT ![reader.link] = HeldAfter(@, reader.event)]
      <4>1. \A k \in Links : held[k] \in SUBSET HIDs
        BY DEF KeysTypeOK
      <4> DEFINE after(k) == IF k = reader.link THEN HeldAfter(held[k], reader.event) ELSE held[k]
      <4>2. held' = [k \in Links |-> after(k)]
        BY <3>3 DEF KeysTypeOK
      <4>3. \A k \in Links : after(k) \in SUBSET HIDs
        BY <3>1, <4>1
      <4> HIDE DEF after
      <4> QED BY <4>2, <4>3
    <3> QED BY <3>2, <3>3 DEF KeysTypeOK
  <2> QED BY <1>0, <1>4, <2>2, <2>3, IdleTyped DEF SendKey, KeysTypeOK
<1>5. CASE Switch
  BY <1>0, <1>5 DEF Switch, KeysTypeOK
<1>6. CASE Clear
  BY <1>0, <1>6 DEF Clear, KeysTypeOK
<1>7. ASSUME NEW s \in Sessions, Install(s) PROVE KeysTypeOK'
  <2>1. phase' = [phase EXCEPT ![s] = "retry"] /\ onInput' \in 0..MaxSessions
    BY <1>0, <1>7 DEF Install
  <2>2. /\ phase' \in [Sessions -> {"none", "starting", "retry", "dialing", "serving", "ended"}]
        /\ \A r \in Sessions : conn[r] # 0 <=> phase'[r] = "serving"
    BY <1>7, <2>1 DEF Install, KeysTypeOK
  <2> QED BY <1>7, <2>1, <2>2 DEF Install, KeysTypeOK
<1>8. ASSUME NEW s \in Sessions, Dial(s) PROVE KeysTypeOK'
  BY <1>0, <1>8 DEF Dial, KeysTypeOK
<1>9. ASSUME NEW s \in Sessions, DialFails(s) PROVE KeysTypeOK'
  BY <1>0, <1>9 DEF DialFails, KeysTypeOK
<1>10. ASSUME NEW s \in Sessions, Connected(s) PROVE KeysTypeOK'
  <2>1. /\ dialled' = dialled + 1 /\ dialled + 1 \in Links /\ dialled \in Nat
        /\ open' = open \cup {dialled + 1}
        /\ conn' = [conn EXCEPT ![s] = dialled + 1]
        /\ phase' = [phase EXCEPT ![s] = "serving"]
        /\ missed' = [missed EXCEPT ![dialled + 1] = Down(decoder)]
    BY <1>0, <1>10 DEF Connected, KeysTypeOK
  <2>2. missed' \in [Links -> SUBSET HIDs]
    BY <2>1 DEF KeysTypeOK, Down, HIDs
  <2>3. conn' \in [Sessions -> 0..dialled']
    BY <2>1 DEF KeysTypeOK
  <2>4. \A r \in Sessions : conn'[r] = IF r = s THEN dialled + 1 ELSE conn[r]
    BY <2>1 DEF KeysTypeOK
  <2>5. ASSUME NEW r \in Sessions PROVE conn[r] # dialled + 1
    <3>1. conn[r] \in 0..dialled
      BY DEF KeysTypeOK
    <3> QED BY <2>1, <3>1
  <2>6. \A r \in Sessions : conn'[r] # 0 <=> phase'[r] = "serving"
    BY <2>1, <2>4 DEF KeysTypeOK
  <2>7. \A r, t \in Sessions : conn'[r] = conn'[t] /\ r # t => conn'[r] = 0
    BY <2>4, <2>5 DEF KeysTypeOK
  <2>8. /\ phase' \in [Sessions -> {"none", "starting", "retry", "dialing", "serving", "ended"}]
        /\ open' \in SUBSET (1..dialled') /\ stalled \in SUBSET open'
        /\ dialled' \in 0..MaxDials
    <3>1. phase' \in [Sessions -> {"none", "starting", "retry", "dialing", "serving", "ended"}]
      <4>1. phase \in [Sessions -> {"none", "starting", "retry", "dialing", "serving", "ended"}]
        BY DEF KeysTypeOK
      <4> QED BY <2>1, <4>1
    <3>2. open' \in SUBSET (1..dialled') /\ stalled \in SUBSET open'
      BY <2>1 DEF KeysTypeOK
    <3>3. dialled' \in 0..MaxDials
      BY <2>1
    <3> QED BY <3>1, <3>2, <3>3
  <2> QED BY <1>0, <1>10, <2>2, <2>3, <2>6, <2>7, <2>8 DEF Connected, KeysTypeOK
<1>11. ASSUME NEW l, Closed(l),
              UNCHANGED <<input, reader, daemon, phase, conn, dialled>> PROVE KeysTypeOK'
  BY <1>0, <1>11 DEF Closed, KeysTypeOK
<1>12. ASSUME NEW s \in Sessions, CloseOnCancel(s) PROVE KeysTypeOK'
  BY <1>0, <1>11, <1>12 DEF CloseOnCancel
<1>13. ASSUME NEW s \in Sessions, ServeEnds(s) PROVE KeysTypeOK'
  <2>1. /\ conn' = [conn EXCEPT ![s] = 0] /\ phase' = [phase EXCEPT ![s] = "retry"]
        /\ dialled \in Nat
    BY <1>0, <1>13 DEF ServeEnds, KeysTypeOK
  <2>2. conn' \in [Sessions -> 0..dialled]
    BY <2>1 DEF KeysTypeOK
  <2>3. \A r \in Sessions : conn'[r] = IF r = s THEN 0 ELSE conn[r]
    BY <2>1 DEF KeysTypeOK
  <2>4. /\ \A r \in Sessions : conn'[r] # 0 <=> phase'[r] = "serving"
        /\ \A r, t \in Sessions : conn'[r] = conn'[t] /\ r # t => conn'[r] = 0
    BY <2>1, <2>3 DEF KeysTypeOK
  <2>5. phase' \in [Sessions -> {"none", "starting", "retry", "dialing", "serving", "ended"}]
    BY <2>1 DEF KeysTypeOK
  <2>6. UNCHANGED <<decoder, before, todo, reports, reader, onInput, generation, cancelled,
                    open, stalled, dialled, held, missed>>
    BY <1>13 DEF ServeEnds
  <2> QED BY <2>2, <2>4, <2>5, <2>6 DEF KeysTypeOK
<1>14. ASSUME NEW l \in Links, Stall(l) PROVE KeysTypeOK'
  BY <1>0, <1>14 DEF Stall, KeysTypeOK
<1>15. CASE UNCHANGED keysVars
  BY <1>0, <1>15 DEF keysVars, KeysTypeOK
<1> QED BY <1>1, <1>2, <1>3, <1>4, <1>5, <1>6, <1>7, <1>8, <1>9, <1>10, <1>11, <1>12, <1>13,
           <1>14, <1>15 DEF KeysNext, Reader, Run, ServerCloses

-----------------------------------------------------------------------------
(* The events that are left.                                               *)

\* An event is delivered or given up.
Finish ==
    /\ Busy /\ reader' = Idle
    /\ UNCHANGED <<decoder, before, todo>>

LEMMA Finished ==
    ASSUME Report, Finish
    PROVE  /\ ~Busy' /\ Left = Left' \cup {reader.event.hid} /\ reader.event.hid \notin Left'
           /\ reader.event.pressed <=> reader.event.hid \in Down(decoder)
           /\ Report'
<1>1. ~Busy'
  BY DEF Finish, Busy, Idle
<1>2. /\ Left = Left' \cup {reader.event.hid} /\ reader.event.hid \notin Left'
      /\ reader.event.pressed <=> reader.event.hid \in Down(decoder)
  BY <1>1 DEF Left, InHand, Finish, Report, ReaderFollows, Hids
<1>3. ReleasesLeft' => ReleasesLeft /\ Rank(reader.event) = 1
  <2>1. SUFFICES ASSUME NEW i \in DOMAIN todo, Rank(todo[i]) = 1
                 PROVE  Rank(reader.event) = 1
    BY <1>1 DEF ReleasesLeft, Finish, Rank
  <2>2. Rank(reader.event) <= Rank(todo[i])
    BY DEF Report, ReaderFollows, Finish
  <2> QED BY <2>1, <2>2 DEF Rank
<1>4. ModifiersWait'
  <2>1. SUFFICES ASSUME ReleasesLeft', NEW m \in Modifiers
                 PROVE  m \in Left' <=> ~(m \in before <=> m \in decoder.modifiers)
    BY DEF ModifiersWait, Finish
  <2>2. reader.event.hid \in Ordinary
    BY <1>3, <2>1 DEF Rank
  <2> QED
    <3>1. m # reader.event.hid
      BY <2>2, Usages
    <3> QED BY <1>2, <1>3, <2>1, <3>1 DEF Report, ModifiersWait
<1>5. ReaderFollows'
  BY <1>1 DEF ReaderFollows
<1>6. Listed(todo, Down(decoder))'
  BY DEF Report, Finish
<1> QED BY <1>1, <1>2, <1>4, <1>5, <1>6 DEF Report

LEMMA ReportKept ==
    ASSUME Report, UNCHANGED <<decoder, before, todo, reader>>
    PROVE  Report'
BY DEF Report, Listed, ReaderFollows, ModifiersWait, ReleasesLeft, Left, InHand, Busy, Hids,
       Rank, Down

\* A report that arrives.
LEMMA ReceiveReports ==
    ASSUME KeysTypeOK, NEW report \in Reports(Ordinary, Modifiers), Receive(report)
    PROVE  /\ Left = {} /\ ~Busy /\ ~Busy'
           /\ \A h : h \in Left' <=> (h \in Down(decoder) \ Down(decoder')
                                      \/ h \in Down(decoder') \ Down(decoder))
           /\ Report'
<1>1. /\ reader = Idle /\ todo = <<>> /\ reader' = Idle
      /\ todo' = Keyboard(decoder, report) /\ before' = decoder.modifiers /\ decoder' = report
  BY DEF Receive
<1>2. ~Busy /\ ~Busy'
  BY <1>1 DEF Busy, Idle
<1>3. Left = {} /\ Left' = Hids(todo')
  BY <1>1, <1>2 DEF Left, InHand, Hids
<1>4. decoder \in KeyReports /\ report \in KeyReports
  BY DEF KeysTypeOK, KeyReports, Reports
<1>5. /\ Listed(todo', Down(decoder'))
      /\ \A h : h \in Left' <=> (h \in Down(decoder) \ Down(decoder')
                                 \/ h \in Down(decoder') \ Down(decoder))
  BY <1>1, <1>3, <1>4, KeyboardListed
<1>6. ModifiersWait'
  <2>1. \A m \in Modifiers : /\ m \in Down(decoder) <=> m \in decoder.modifiers
                             /\ m \in Down(decoder') <=> m \in decoder'.modifiers
    BY <1>1, <1>4, Usages DEF KeyReports, Down
  <2>2. \A m \in Modifiers : m \in Left' <=> ~(m \in before' <=> m \in decoder'.modifiers)
    BY <1>1, <1>5, <2>1
  <2> QED BY <2>2 DEF ModifiersWait
<1>7. ReaderFollows'
  BY <1>2 DEF ReaderFollows
<1> QED BY <1>2, <1>3, <1>5, <1>6, <1>7 DEF Report

\* The reader takes an event.
LEMMA DispatchReports ==
    ASSUME KeysTypeOK, Report, Dispatch
    PROVE  /\ ~Busy
           /\ Head(todo).hid \in Left /\ Head(todo) \in Strokes
           /\ Head(todo).pressed <=> Head(todo).hid \in Down(decoder)
           /\ Left' = IF onInput = 0 THEN Left \ {Head(todo).hid} ELSE Left
           /\ Report'
<1> DEFINE e == Head(todo)
           rest == Tail(todo)
<1>1. /\ reader = Idle /\ todo # <<>> /\ todo' = rest /\ todo \in Seq(Strokes)
      /\ IF onInput = 0 THEN reader' = reader
         ELSE reader' = [at |-> "handling", session |-> onInput, link |-> 0, event |-> e]
      /\ UNCHANGED <<decoder, before, onInput>>
  BY DEF Dispatch, KeysTypeOK, daemon
<1>2. /\ e \in Strokes /\ Listed(rest, Down(decoder))
      /\ Hids(todo) = Hids(rest) \cup {e.hid} /\ e.hid \notin Hids(rest)
      /\ \A i \in DOMAIN rest : Rank(e) <= Rank(rest[i])
      /\ e.pressed <=> e.hid \in Down(decoder)
  BY <1>1, TailListed DEF Report
<1>3. \E i \in DOMAIN todo : todo[i] = e
  BY <1>1
<1>4. /\ DOMAIN rest = 1..(Len(todo) - 1) /\ DOMAIN todo = 1..Len(todo) /\ Len(todo) \in Nat
      /\ \A i \in DOMAIN rest : rest[i] = todo[i + 1]
  BY <1>1
<1>5. ~Busy /\ Left = Hids(todo)
  BY <1>1 DEF Busy, Idle, Left, InHand
<1> HIDE DEF e, rest
<1>6. CASE onInput = 0
  <2>1. ~Busy' /\ Left' = Left \ {e.hid}
    BY <1>1, <1>2, <1>5, <1>6 DEF Busy, Left, InHand
  <2>2. ASSUME ReleasesLeft' PROVE ReleasesLeft /\ Rank(e) = 1
    <3>1. PICK i \in DOMAIN rest : Rank(rest[i]) = 1
      BY <1>1, <2>1, <2>2 DEF ReleasesLeft, Rank
    <3>2. Rank(e) = 1
      BY <1>2, <3>1 DEF Rank
    <3> QED BY <1>3, <3>2 DEF ReleasesLeft
  <2>3. ModifiersWait'
    <3>1. SUFFICES ASSUME ReleasesLeft', NEW m \in Modifiers
                   PROVE  m \in Left' <=> ~(m \in before <=> m \in decoder.modifiers)
      BY <1>1 DEF ModifiersWait
    <3>2. e.hid \in Ordinary
      BY <2>2, <3>1 DEF Rank
    <3>3. m # e.hid
      BY <3>2, Usages
    <3> QED BY <2>1, <2>2, <3>1, <3>3 DEF Report, ModifiersWait
  <2>4. ReaderFollows'
    BY <2>1 DEF ReaderFollows
  <2> QED BY <1>1, <1>2, <1>5, <1>6, <2>1, <2>3, <2>4 DEF Report, e
<1>7. CASE onInput # 0
  <2>1. /\ Busy' /\ reader'.event = e /\ reader'.at = "handling" /\ reader'.session = onInput
    BY <1>1, <1>7 DEF Busy
  <2>2. Left' = Left
    BY <1>1, <1>2, <1>5, <2>1 DEF Left, InHand
  <2>3. ReleasesLeft' => ReleasesLeft
    <3>1. CASE Rank(e) = 1
      BY <1>3, <3>1 DEF ReleasesLeft
    <3>2. CASE Rank(e) # 1 /\ ReleasesLeft'
      <4>1. PICK i \in DOMAIN rest : Rank(rest[i]) = 1
        BY <1>1, <2>1, <3>2 DEF ReleasesLeft, Rank
      <4>2. i + 1 \in DOMAIN todo /\ rest[i] = todo[i + 1]
        BY <1>4
      <4> QED BY <4>1, <4>2 DEF ReleasesLeft
    <3> QED BY <3>1, <3>2
  <2>4. ModifiersWait'
    BY <1>1, <2>2, <2>3 DEF Report, ModifiersWait
  <2>5. ReaderFollows'
    <3>1. onInput \in Sessions
      BY <1>7, KeyAssumption DEF KeysTypeOK, Sessions
    <3> QED BY <1>1, <1>2, <2>1, <3>1 DEF ReaderFollows
  <2> QED BY <1>1, <1>2, <1>5, <1>7, <2>2, <2>4, <2>5 DEF Report, e
<1> QED BY <1>6, <1>7

\* The handler found a connection for the event.
LEMMA WritingReports ==
    ASSUME Report, Busy, reader'.at = "writing", reader'.event = reader.event,
           reader'.session = reader.session, HasKeysym(reader.event.hid),
           UNCHANGED <<decoder, before, todo>>
    PROVE  Busy' /\ Left' = Left /\ Report'
<1>1. Busy' /\ Left' = Left
  BY DEF Busy, Left, InHand
<1>2. Listed(todo, Down(decoder))'
  BY DEF Report
<1>3. ReleasesLeft' => ReleasesLeft
  BY DEF ReleasesLeft, Rank
<1>4. ModifiersWait'
  BY <1>1, <1>3 DEF ModifiersWait, Report
<1>5. ReaderFollows'
  BY <1>1 DEF ReaderFollows, Report, Rank
<1> QED BY <1>1, <1>2, <1>4, <1>5 DEF Report

-----------------------------------------------------------------------------
(* What the servers hold down.                                             *)

LEMMA HoldsKept ==
    ASSUME NEW l, Holds(l), UNCHANGED <<decoder, todo, reader>>,
           held'[l] = held[l], missed'[l] = missed[l], Hears(l)' <=> Hears(l)
    PROVE  Holds(l)'
<1>1. Left' = Left /\ Busy' = Busy
  BY DEF Left, InHand, Busy, Hids
<1> QED BY <1>1 DEF Holds, New, Old, Down

\* An event that did not reach a server.
LEMMA HoldsFinished ==
    ASSUME Report, Finish, NEW l, Holds(l), held'[l] = held[l],
           missed'[l] = IF reader.event.pressed THEN missed[l] \cup {reader.event.hid}
                        ELSE missed[l] \ {reader.event.hid},
           HasKeysym(reader.event.hid) => New(l)
    PROVE  Holds(l)'
<1> DEFINE e == reader.event
<1>1. /\ ~Busy' /\ Left = Left' \cup {e.hid} /\ e.hid \notin Left'
      /\ e.pressed <=> e.hid \in Down(decoder)
  BY Finished
<1>2. decoder' = decoder /\ Down(decoder') = Down(decoder)
  BY DEF Finish
<1>3. \A h : h # e.hid => (h \in missed'[l] <=> h \in missed[l])
  OBVIOUS
<1>4. ASSUME NEW h \in HIDs \ Left', HasKeysym(h)
      PROVE  h \in held'[l] <=> h \in Down(decoder) \ missed'[l]
  <2>1. CASE h # e.hid
    BY <1>1, <1>3, <1>4, <2>1 DEF Holds
  <2>2. CASE h = e.hid /\ e.pressed
    BY <1>1, <2>2 DEF Holds
  <2>3. CASE h = e.hid /\ ~e.pressed
    BY <1>1, <1>4, <2>3 DEF New
  <2> QED BY <2>1, <2>2, <2>3
<1>5. \A h \in Left' \cap Down(decoder) : h \notin held'[l]
  BY <1>1 DEF Holds
<1>6. New(l) => New(l)'
  BY <1>1, <1>2 DEF New
<1>7. Old(l) => Old(l)'
  BY <1>1, <1>2, <1>3 DEF Old
<1> QED BY <1>1, <1>2, <1>4, <1>5, <1>6, <1>7 DEF Holds

LEMMA ListeningKept ==
    ASSUME Listening, UNCHANGED <<decoder, todo, reader, open, held, missed>>,
           \A l \in Links : Hears(l)' <=> Hears(l), \A l \in Links : Listens(l)' => Listens(l)
    PROVE  Listening'
<1>1. \A l \in Links : Listens(l)' => Holds(l)'
  BY HoldsKept DEF Listening
<1> QED BY <1>1 DEF Listening

LEMMA ReceiveListening ==
    ASSUME KeysTypeOK, Report, Listening,
           NEW report \in Reports(Ordinary, Modifiers), Receive(report)
    PROVE  Listening'
<1>1. /\ Left = {} /\ ~Busy /\ ~Busy'
      /\ \A h : h \in Left' <=> (h \in Down(decoder) \ Down(decoder')
                                 \/ h \in Down(decoder') \ Down(decoder))
  BY ReceiveReports
<1>2. /\ reader' = reader /\ onInput' = onInput /\ conn' = conn
      /\ open' = open /\ held' = held /\ missed' = missed
  BY DEF Receive, daemon, network, servers
<1>3. Down(decoder) \subseteq HIDs
  BY DEF KeysTypeOK, Down, HIDs
<1>4. ASSUME NEW l \in Links, Listens(l)' PROVE Holds(l)'
  <2>1. Listens(l)
    BY <1>2, <1>4 DEF Listens, Hears
  <2>2. /\ \A h \in HIDs : HasKeysym(h) => (h \in held[l] <=> h \in Down(decoder) \ missed[l])
        /\ \A h \in held[l] : HasKeysym(h) /\ h \in HIDs
    BY <1>1, <2>1 DEF Listening, Holds, KeysTypeOK
  <2>3. \A h \in HIDs \ Left' :
          HasKeysym(h) => (h \in held'[l] <=> h \in Down(decoder') \ missed'[l])
    BY <1>1, <1>2, <2>2
  <2>4. \A h \in Left' \cap Down(decoder') : h \notin held'[l]
    BY <1>1, <1>2, <2>2
  <2>5. Old(l)'
    BY <1>1, <1>2, <1>3, <2>2 DEF Old
  <2> QED BY <1>1, <2>3, <2>4, <2>5 DEF Holds
<1> QED BY <1>2, <1>4 DEF Listening

LEMMA DispatchListening ==
    ASSUME KeysTypeOK, Report, Listening, Dispatch
    PROVE  Listening'
<1>1. /\ ~Busy /\ Left' = IF onInput = 0 THEN Left \ {Head(todo).hid} ELSE Left
  BY DispatchReports
<1>2. /\ decoder' = decoder /\ onInput' = onInput /\ conn' = conn
      /\ open' = open /\ held' = held /\ reader = Idle
  BY DEF Dispatch, daemon, network, servers
<1>3. CASE onInput = 0
  <2>1. \A l \in Links : ~Listens(l)'
    BY <1>2, <1>3 DEF Dispatch, Listens, Hears, Idle
  <2> QED BY <1>2, <2>1 DEF Listening
<1>4. CASE onInput # 0
  <2>1. /\ missed' = missed /\ reader'.at = "handling" /\ reader'.session = onInput
    BY <1>4 DEF Dispatch
  <2>2. ASSUME NEW l \in Links, Listens(l)' PROVE Holds(l)'
    <3>1. l \in open /\ l = conn[onInput]
      BY <1>2, <1>4, <2>1, <2>2 DEF Listens, Hears
    <3>2. Holds(l)
      BY <1>4, <3>1 DEF Listens, Listening
    <3>3. Hears(l)'
      BY <1>2, <2>1, <3>1 DEF Hears
    <3>4. /\ New(l) => New(l)'
          /\ Old(l) => Old(l)'
      BY <1>1, <1>2, <1>4, <2>1 DEF New, Old
    <3> QED BY <1>1, <1>2, <1>4, <2>1, <3>2, <3>3, <3>4 DEF Holds
  <2> QED BY <1>2, <2>2 DEF Listening
<1> QED BY <1>3, <1>4

LEMMA HandleListening ==
    ASSUME KeysTypeOK, Report, Listening, HandleKey
    PROVE  Listening' /\ Report'
<1> DEFINE e == reader.event
           c == conn[reader.session]
<1>1. /\ reader.at = "handling" /\ Busy
      /\ UNCHANGED <<decoder, before, todo, onInput, conn, open, held>>
  BY DEF HandleKey, Busy, input, daemon, network
<1>2. CASE c = 0 \/ ~HasKeysym(e.hid)
  <2>1. Finish /\ Reached(e, 0) /\ reader' = Idle
    BY <1>1, <1>2 DEF HandleKey, Finish
  <2>2. ASSUME NEW l \in Links, Listens(l)' PROVE Holds(l)'
    <3>1. l \in open /\ onInput # 0 /\ l = conn[onInput] /\ 0 \notin Links
      BY <1>1, <2>1, <2>2 DEF Listens, Hears, Idle, Links
    <3>2. Holds(l)
      BY <3>1 DEF Listens, Listening
    <3>3. HasKeysym(e.hid) => New(l)
      BY <1>1, <1>2, <3>1, <3>2 DEF Hears, Holds
    <3>4. missed'[l] = IF e.pressed THEN missed[l] \cup {e.hid} ELSE missed[l] \ {e.hid}
      BY <2>1, <3>1 DEF Reached
    <3> QED BY <1>1, <2>1, <3>2, <3>3, <3>4, HoldsFinished
  <2> QED BY <1>1, <2>1, <2>2, Finished DEF Listening
<1>3. CASE ~(c = 0 \/ ~HasKeysym(e.hid))
  <2>1. /\ reader' = [reader EXCEPT !.at = "writing", !.link = c] /\ missed' = missed
    BY <1>3 DEF HandleKey
  <2>2. /\ reader'.at = "writing" /\ reader'.link = c /\ reader'.event = e
        /\ reader'.session = reader.session
    BY <2>1 DEF KeysTypeOK
  <2>3. Busy' /\ Left' = Left /\ Report'
    BY <1>1, <1>3, <2>2, WritingReports
  <2>4. \A l \in Links : Hears(l)' <=> Hears(l)
    BY <1>1, <2>2 DEF Hears
  <2>5. ASSUME NEW l \in Links, Listens(l)' PROVE Holds(l)'
    <3>1. Holds(l)
      BY <1>1, <2>4, <2>5 DEF Listens, Listening
    <3> QED BY <1>1, <2>1, <2>3, <2>4, <3>1 DEF Holds, New, Old
  <2> QED BY <1>1, <2>3, <2>5 DEF Listening
<1> QED BY <1>2, <1>3

LEMMA SendListening ==
    ASSUME KeysTypeOK, Report, Listening, SendKey
    PROVE  Listening' /\ Report'
<1>0. PICK e, c : e = reader.event /\ c = reader.link
  OBVIOUS
<1>1. /\ reader.at = "writing" /\ Busy /\ Finish /\ reader' = Idle
      /\ UNCHANGED <<onInput, conn, open>>
      /\ e.pressed <=> e.hid \in Down(decoder)
      /\ HasKeysym(e.hid)
  BY <1>0 DEF SendKey, Busy, Finish, input, daemon, network, Report, ReaderFollows
<1>2. /\ Report' /\ ~Busy' /\ Left = Left' \cup {e.hid} /\ e.hid \notin Left'
      /\ Down(decoder') = Down(decoder)
  BY <1>0, <1>1, Finished DEF Finish
<1>3. \A l \in Links : Listens(l)' => l \in open /\ onInput # 0 /\ l = conn[onInput]
  BY <1>1 DEF Listens, Hears, Idle
<1>4. ASSUME NEW l \in Links, Listens(l)', l # c \/ c \notin open, held'[l] = held[l],
             missed'[l] = IF e.pressed THEN missed[l] \cup {e.hid} ELSE missed[l] \ {e.hid}
      PROVE  Holds(l)'
  <2>1. Holds(l) /\ ~Hears(l)
    BY <1>0, <1>1, <1>3, <1>4 DEF Listens, Listening, Hears
  <2>2. New(l)
    BY <1>1, <2>1 DEF Holds
  <2> QED BY <1>0, <1>1, <1>4, <2>1, <2>2, HoldsFinished
<1>5. CASE c \notin open /\ Reached(e, 0) /\ UNCHANGED held
  <2>1. ASSUME NEW l \in Links, Listens(l)' PROVE Holds(l)'
    <3>1. l \in open /\ 0 \notin Links
      BY <1>3, <2>1 DEF Links
    <3>2. missed'[l] = IF e.pressed THEN missed[l] \cup {e.hid} ELSE missed[l] \ {e.hid}
      BY <1>5, <3>1 DEF Reached
    <3> QED BY <1>4, <1>5, <2>1, <3>2
  <2> QED BY <1>1, <1>2, <1>5, <2>1 DEF Listening
<1>6. CASE /\ c \in open \ stalled
           /\ held' = [held EXCEPT ![c] = HeldAfter(@, e)]
           /\ Reached(e, c)
  <2>1. c \in Links /\ \A l \in Links : held'[l] = IF l = c THEN HeldAfter(held[l], e) ELSE held[l]
    BY <1>6, KeyAssumption DEF KeysTypeOK, Links
  <2>2. \A l \in Links : missed'[l] = IF e.pressed /\ l \in open \ {c} THEN missed[l] \cup {e.hid}
                                      ELSE missed[l] \ {e.hid}
    BY <1>6 DEF Reached
  <2>3. ASSUME NEW l \in Links, Listens(l)' PROVE Holds(l)'
    <3>1. CASE l # c
      BY <1>3, <1>4, <2>1, <2>2, <2>3, <3>1
    <3>2. CASE l = c
      <4>1. Holds(c)
        BY <1>0, <1>1, <1>6, <2>1 DEF Listens, Hears, Listening
      <4>2. /\ \A h : h # e.hid => (h \in held'[c] <=> h \in held[c])
            /\ e.hid \in held'[c] <=> e.pressed
            /\ \A h : h \in missed'[c] <=> h \in missed[c] /\ h # e.hid
        BY <2>1, <2>2 DEF HeldAfter
      <4>3. \A h \in HIDs \ Left' :
              HasKeysym(h) => (h \in held'[c] <=> h \in Down(decoder) \ missed'[c])
        BY <1>1, <1>2, <4>1, <4>2 DEF Holds
      <4>4. \A h \in Left' \cap Down(decoder) : h \notin held'[c]
        BY <1>2, <4>1, <4>2 DEF Holds
      <4>5. New(c) => New(c)'
        BY <1>2, <4>2 DEF New
      <4>6. Old(c) => Old(c)'
        BY <1>2, <4>2 DEF Old
      <4> QED BY <1>2, <3>2, <4>1, <4>3, <4>4, <4>5, <4>6 DEF Holds
    <3> QED BY <3>1, <3>2
  <2>4. \A l \in Links : \A h \in held'[l] : HasKeysym(h)
    BY <1>1, <2>1 DEF Listening, HeldAfter
  <2>5. \A l \in Links : l \notin open' => held'[l] = {}
    BY <1>1, <1>6, <2>1 DEF Listening
  <2> QED BY <1>2, <2>3, <2>4, <2>5 DEF Listening
<1> QED BY <1>0, <1>5, <1>6 DEF SendKey

\* A connection breaks.
LEMMA ClosedListening ==
    ASSUME KeysTypeOK, Listening, NEW c, Closed(c),
           UNCHANGED <<input, reader, daemon, phase, conn, dialled>>
    PROVE  Listening'
<1>1. /\ UNCHANGED <<decoder, todo, reader, onInput, conn>> /\ open' = open \ {c}
      /\ \A l \in Links \ {c} : held'[l] = held[l] /\ missed'[l] = missed[l]
      /\ c \in Links => held'[c] = {}
  BY DEF Closed, input, daemon, KeysTypeOK
<1>2. \A l \in Links : (Hears(l)' <=> Hears(l)) /\ (Listens(l)' => Listens(l) /\ l # c)
  BY <1>1 DEF Hears, Listens
<1>3. \A l \in Links : Listens(l)' => Holds(l)'
  BY <1>1, <1>2, HoldsKept DEF Listening
<1> QED BY <1>1, <1>3 DEF Listening

\* A new connection.
LEMMA ConnectedListening ==
    ASSUME KeysTypeOK, Report, Listening, NEW s \in Sessions, Connected(s)
    PROVE  Listening'
<1>0. PICK c : c = dialled + 1
  OBVIOUS
<1>1. /\ UNCHANGED <<decoder, todo, reader, onInput, held>> /\ open' = open \cup {c}
      /\ c \in Links /\ c \notin open
      /\ \A r \in Sessions : conn'[r] = IF r = s THEN c ELSE conn[r]
      /\ \A l \in Links : missed'[l] = IF l = c THEN Down(decoder) ELSE missed[l]
  BY <1>0, KeyAssumption DEF Connected, input, daemon, KeysTypeOK, Links
<1>2. Left' = Left /\ Busy' = Busy
  BY <1>1 DEF Left, InHand, Busy, Hids
<1>3. ASSUME NEW l \in Links \ {c}, Listens(l)' PROVE Holds(l)'
  <2>1. (Hears(l)' <=> Hears(l)) /\ Listens(l)
    <3>1. l \in Links /\ l # c
      BY <1>3
    <3>2. /\ reader.at = "handling" => reader.session \in Sessions
          /\ onInput # 0 => onInput \in Sessions
      BY KeyAssumption DEF Report, ReaderFollows, Busy, KeysTypeOK, Sessions
    <3>3. \A r \in Sessions : l = conn'[r] => l = conn[r]
      BY <1>1, <3>1
    <3>4. \A r \in Sessions : l = conn[r] => l = conn'[r]
      <4>1. conn[s] = 0 /\ 0 \notin Links
        BY DEF Connected, KeysTypeOK, Links
      <4> QED BY <1>1, <3>1, <4>1
    <3>5. l \in open
      BY <1>1, <1>3, <3>1 DEF Listens
    <3> QED BY <1>1, <1>3, <3>2, <3>3, <3>4, <3>5 DEF Hears, Listens
  <2> QED BY <1>1, <2>1, HoldsKept DEF Listening
<1>4. Holds(c)'
  <2>1. held'[c] = {}
    BY <1>1 DEF Listening
  <2> QED BY <1>1, <1>2, <2>1 DEF Holds, New
<1> QED BY <1>1, <1>3, <1>4 DEF Listening

\* A connection is given up, with or without the session that had it.
LEMMA ReleasedListening ==
    ASSUME KeysTypeOK, Report, Listening, NEW s \in Sessions, conn[s] \notin open,
           conn' = [conn EXCEPT ![s] = 0],
           UNCHANGED <<decoder, todo, reader, onInput, open, held, missed>>
    PROVE  Listening'
<1>1. /\ reader.at = "handling" => reader.session \in Sessions
      /\ onInput # 0 => onInput \in Sessions
  BY KeyAssumption DEF Report, ReaderFollows, Busy, KeysTypeOK, Sessions
<1>2. \A r \in Sessions : conn'[r] = IF r = s THEN 0 ELSE conn[r]
  BY DEF KeysTypeOK
<1>3. 0 \notin Links
  BY DEF Links
<1>4. ASSUME NEW l \in Links, Listens(l)' PROVE Holds(l)'
  <2>1. l \in open /\ \A r \in Sessions : l = conn'[r] <=> l = conn[r]
    BY <1>2, <1>3, <1>4 DEF Listens
  <2>2. (Hears(l)' <=> Hears(l)) /\ Listens(l)
    BY <1>1, <1>4, <2>1 DEF Hears, Listens
  <2> QED BY <2>2, HoldsKept DEF Listening
<1> QED BY <1>4 DEF Listening

LEMMA KeyStep ==
    ASSUME KInv, [KeysNext]_keysVars
    PROVE  KInv'
<1> USE DEF KInv
<1>1. KeysTypeOK'
  BY TypeStep DEF Report
<1>2. ASSUME NEW report \in Reports(Ordinary, Modifiers), Receive(report) PROVE KInv'
  BY <1>1, <1>2, ReceiveReports, ReceiveListening
<1>3. CASE Dispatch
  BY <1>1, <1>3, DispatchReports, DispatchListening
<1>4. CASE HandleKey
  BY <1>1, <1>4, HandleListening
<1>5. CASE SendKey
  BY <1>1, <1>5, SendListening
<1>6. ASSUME UNCHANGED <<input, reader, conn, network, servers>>,
             \/ UNCHANGED onInput
             \/ onInput' = 0
             \/ onInput' \in Sessions /\ conn[onInput'] = 0
      PROVE  KInv'
  <2>1. UNCHANGED <<decoder, before, todo, reader, conn, open, held, missed>>
    BY <1>6 DEF input, network, servers
  <2>2. \A l \in Links : (Hears(l)' <=> Hears(l)) /\ l # 0
    BY <2>1 DEF Hears, Links
  <2>3. \A l \in Links : Listens(l)' => Listens(l)
    BY <1>6, <2>1, <2>2 DEF Listens
  <2> QED BY <1>1, <2>1, <2>2, <2>3, ReportKept, ListeningKept
<1>7. CASE Switch
  BY <1>6, <1>7 DEF Switch
<1>8. CASE Clear
  BY <1>6, <1>8 DEF Clear
<1>9. ASSUME NEW s \in Sessions, Install(s) PROVE KInv'
  <2>1. conn[s] = 0
    BY <1>9 DEF Install, KeysTypeOK
  <2> QED BY <1>6, <1>9, <2>1 DEF Install
<1>10. ASSUME NEW s \in Sessions, Dial(s) \/ DialFails(s) PROVE KInv'
  BY <1>6, <1>10 DEF Dial, DialFails, daemon
<1>11. ASSUME NEW s \in Sessions, Connected(s) PROVE KInv'
  <2>1. UNCHANGED <<decoder, before, todo, reader>>
    BY <1>11 DEF Connected, input
  <2> QED BY <1>1, <1>11, <2>1, ReportKept, ConnectedListening
<1>12. ASSUME NEW c, Closed(c), UNCHANGED <<input, reader, daemon, phase, conn, dialled>>
       PROVE  KInv'
  <2>1. UNCHANGED <<decoder, before, todo, reader>>
    BY <1>12 DEF input
  <2> QED BY <1>1, <1>12, <2>1, ReportKept, ClosedListening
<1>13. ASSUME NEW s \in Sessions, CloseOnCancel(s) PROVE KInv'
  BY <1>12, <1>13 DEF CloseOnCancel
<1>14. ASSUME NEW s \in Sessions, ServeEnds(s) PROVE KInv'
  <2>1. /\ UNCHANGED <<decoder, before, todo, reader, onInput, open, held, missed>>
        /\ conn' = [conn EXCEPT ![s] = 0] /\ conn[s] \notin open
    BY <1>14 DEF ServeEnds, input, daemon, network, servers
  <2> QED BY <1>1, <2>1, ReportKept, ReleasedListening
<1>15. ASSUME NEW l \in Links, Stall(l) PROVE KInv'
  <2>1. UNCHANGED <<decoder, before, todo, reader, onInput, conn, open, held, missed>>
    BY <1>15 DEF Stall, input, daemon, servers
  <2>2. \A k \in Links : (Hears(k)' <=> Hears(k)) /\ (Listens(k)' => Listens(k))
    BY <2>1 DEF Hears, Listens
  <2> QED BY <1>1, <2>1, <2>2, ReportKept, ListeningKept
<1>16. CASE UNCHANGED keysVars
  BY <1>6, <1>16 DEF keysVars, daemon
<1> QED BY <1>2, <1>3, <1>4, <1>5, <1>7, <1>8, <1>9, <1>10, <1>11, <1>12, <1>13, <1>14, <1>15,
           <1>16 DEF KeysNext, Reader, Run, ServerCloses

LEMMA StartsIdle == KeysInit => KInv
<1> SUFFICES ASSUME KeysInit PROVE KInv
  OBVIOUS
<1>1. ~Busy /\ Left = {} /\ \A l : ~Listens(l)
  BY DEF KeysInit, Busy, Idle, Left, InHand, Hids, Listens
<1>2. KeysTypeOK
  <2>1. todo \in Seq(Strokes)
    BY DEF KeysInit
  <2> QED BY <2>1, IdleTyped, KeyAssumption DEF KeysInit, KeysTypeOK, NoKeys, Sessions
<1>3. Report
  <2>1. Listed(todo, Down(decoder)) /\ ~ReleasesLeft
    BY <1>1 DEF KeysInit, Listed, ReleasesLeft
  <2> QED BY <1>1, <2>1 DEF Report, ReaderFollows, ModifiersWait
<1>4. Listening
  BY <1>1 DEF KeysInit, Listening
<1> QED BY <1>2, <1>3, <1>4 DEF KInv

-----------------------------------------------------------------------------
(* The theorems.                                                           *)

LEMMA KInvariant == KeysSpec => []KInv
BY StartsIdle, KeyStep, PTL DEF KeysSpec

\* The variables of the keyboard's way keep their types, and no connection has
\* two sessions.
THEOREM KeysTypeCorrect == KeysSpec => []KeysTypeOK
<1>1. KInv => KeysTypeOK
  BY DEF KInv
<1> QED BY <1>1, KInvariant, PTL

\* No key gets stuck and none is lost, whatever the report, the dispatching, the
\* connections and the daemon do in between.
THEOREM KeysAgreeCorrect == KeysSpec => []KeysAgree
<1>1. ASSUME KInv PROVE KeysAgree
  <2> DEFINE l == conn[onInput]
  <2> SUFFICES ASSUME onInput # 0, reader = Idle, todo = <<>>, l \in open
               PROVE  held[l] = {h \in Down(decoder) : HasKeysym(h)} \ missed[l]
    BY DEF KeysAgree
  <2>1. l \in Links
    <3>1. open \subseteq 1..dialled /\ dialled \in 0..MaxDials /\ MaxDials \in Nat
      BY <1>1, KeyAssumption DEF KInv, KeysTypeOK
    <3> HIDE DEF l
    <3> QED BY <3>1 DEF Links
  <2>2. Left = {}
    BY DEF Left, InHand, Busy, Idle, Hids
  <2>3. Holds(l)
    BY <1>1, <2>1 DEF KInv, Listening, Listens
  <2>4. /\ held[l] \subseteq HIDs /\ Down(decoder) \subseteq HIDs
        /\ \A h \in held[l] : HasKeysym(h)
    BY <1>1, <2>1 DEF KInv, KeysTypeOK, Listening, Down, HIDs
  <2>5. \A h \in HIDs : HasKeysym(h) => (h \in held[l] <=> h \in Down(decoder) \ missed[l])
    BY <2>2, <2>3 DEF Holds
  <2> QED BY <2>4, <2>5
<1> QED BY <1>1, KInvariant, PTL

LEMMA ModifiersHaveSymbols == \A m \in ModifierHIDs : HasKeysym(m)
<1> SUFFICES ASSUME NEW m \in ModifierHIDs PROVE KeysymForHID(m) # 0
  BY DEF HasKeysym
<1>1. m \in \hE0..\hE7
  BY DEF ModifierHIDs
<1> DEFINE run   == {r.keysym + m - r.first : r \in {r \in Runs : m \in r.first..r.last}}
           entry == {e[2] : e \in {e \in Table : e[1] = m}}
<1>2. run = {}
  BY <1>1 DEF Runs
<1>3. entry # {} /\ \A k \in entry : k # 0
  <2>1. \E e \in Table : e[1] = m
    BY <1>1 DEF Table
  <2>2. \A e \in Table : e[2] # 0
    BY DEF Table
  <2> QED BY <2>1, <2>2
<1>4. KeysymForHID(m) = IF run \cup entry = {} THEN 0 ELSE CHOOSE k \in run \cup entry : TRUE
  BY DEF KeysymForHID
<1> HIDE DEF run, entry
<1>5. run \cup entry = entry
  BY <1>2
<1>6. \A k : k = (CHOOSE x \in entry : TRUE) => k \in entry
  BY <1>3
<1> QED BY <1>3, <1>4, <1>5, <1>6

\* A server changes an ordinary key by SendKey alone, while it listens.
LEMMA ChangeSent ==
    ASSUME KInv, [KeysNext]_keysVars, NEW l \in Links, l \in open', held'[l] # held[l]
    PROVE  SendKey /\ l = reader.link /\ l \in open
<1> USE DEF KInv
<1>1. ASSUME UNCHANGED held PROVE FALSE
  BY <1>1
<1>2. ASSUME NEW c, Closed(c) PROVE FALSE
  BY <1>2 DEF Closed, KeysTypeOK
<1>3. ASSUME SendKey PROVE l = reader.link /\ l \in open
  BY <1>3 DEF SendKey, KeysTypeOK, network
<1> QED BY <1>1, <1>2, <1>3 DEF KeysNext, Reader, Run, Receive, Dispatch, HandleKey, Switch, Clear,
           Install, Dial, DialFails, Connected, CloseOnCancel, ServeEnds, ServerCloses, Stall,
           keysVars, servers

LEMMA ChordStep ==
    ASSUME KInv, [KeysNext]_keysVars, NEW l \in Links, l \in open', held'[l] # held[l],
           reader.event.hid \in Ordinary
    PROVE  held[l] \cap Modifiers =
             (IF reader.event.pressed THEN decoder.modifiers ELSE before) \ missed[l]
<1> DEFINE e == reader.event
<1> USE DEF KInv
<1>1. SendKey /\ l = reader.link /\ l \in open
  BY ChangeSent
<1>2. /\ Busy /\ Holds(l) /\ e.hid \in Left
      /\ e.pressed <=> e.hid \in Down(decoder)
      /\ \A i \in DOMAIN todo : Rank(e) <= Rank(todo[i])
  BY <1>1 DEF SendKey, Busy, Listens, Hears, Listening, Left, InHand, Report, ReaderFollows
<1>3. \A m \in Modifiers : /\ HasKeysym(m) /\ m \in HIDs /\ m \notin Ordinary
                           /\ m \in Down(decoder) <=> m \in decoder.modifiers
  BY Usages, ModifiersHaveSymbols, KeyAssumption DEF HIDs, Down, KeysTypeOK
<1>4. decoder.modifiers \subseteq Modifiers /\ before \subseteq Modifiers
  BY DEF KeysTypeOK
<1>5. CASE e.pressed
  <2>1. \A m \in Modifiers : m \notin Left
    <3> SUFFICES ASSUME NEW m \in Modifiers, m \in Left PROVE FALSE
      OBVIOUS
    <3>1. m # e.hid
      BY <1>3
    <3>2. PICK i \in DOMAIN todo : todo[i].hid = m
      BY <3>1 DEF Left, InHand, Hids
    <3>3. Rank(todo[i]) <= 3 /\ Rank(e) = 4
      BY <1>3, <1>5, <3>2 DEF Rank
    <3>4. Rank(e) <= Rank(todo[i])
      BY <1>2
    <3> QED BY <3>3, <3>4 DEF Rank
  <2>2. \A m \in Modifiers : m \in held[l] <=> m \in decoder.modifiers \ missed[l]
    BY <1>2, <1>3, <2>1 DEF Holds
  <2> QED BY <1>4, <1>5, <2>2
<1>6. CASE ~e.pressed
  <2>1. \A m \in Modifiers : m \in Left <=> ~(m \in before <=> m \in decoder.modifiers)
    <3>1. ReleasesLeft
      BY <1>2, <1>6 DEF ReleasesLeft, Rank
    <3> QED BY <3>1 DEF Report, ModifiersWait
  <2>2. held'[l] = held[l] \ {e.hid}
    BY <1>1, <1>6 DEF SendKey, HeldAfter, KeysTypeOK
  <2>3. Old(l)
    BY <1>2, <1>6, <2>2 DEF Holds, New
  <2>4. \A m \in Modifiers : m \in held[l] <=> m \in before \ missed[l]
    <3> TAKE m \in Modifiers
    <3>1. CASE m \notin Left
      BY <1>2, <1>3, <2>1, <3>1 DEF Holds
    <3>2. CASE m \in Left /\ m \in decoder.modifiers
      BY <1>2, <1>3, <2>1, <3>2 DEF Holds
    <3>3. CASE m \in Left /\ m \notin decoder.modifiers
      BY <1>3, <2>1, <2>3, <3>3 DEF Old
    <3> QED BY <3>1, <3>2, <3>3
  <2> QED BY <1>4, <1>6, <2>4
<1> QED BY <1>5, <1>6

\* A server sees every ordinary key go down and up with the modifiers it was
\* typed with: the order of the decoder's loops, kept to the connection.
THEOREM ChordKeptCorrect == KeysSpec => ChordKept
<1> DEFINE Chord == \A l \in Links :
              l \in open' /\ held'[l] # held[l] /\ reader.event.hid \in Ordinary
                  => held[l] \cap Modifiers =
                       (IF reader.event.pressed THEN decoder.modifiers ELSE before) \ missed[l]
<1>1. KInv /\ [KeysNext]_keysVars => [Chord]_keysVars
  BY ChordStep
<1>2. ChordKept <=> [][Chord]_keysVars
  BY DEF ChordKept
<1> HIDE DEF Chord
<1> QED BY <1>1, <1>2, KInvariant, PTL DEF KeysSpec
=============================================================================
