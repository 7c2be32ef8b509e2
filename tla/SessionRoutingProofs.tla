------------------------ MODULE SessionRoutingProofs ------------------------
(***************************************************************************)
(* Proofs about the sessions of one terminal, for any number of            *)
(* connections, sessions, channels and messages: every variable keeps its  *)
(* type, no channel is leaked, an owner of the screen that was superseded  *)
(* never owns it again (the refinement of DisplayOwner), an instance draws *)
(* late at most as often as it has goroutines, and with one connection the *)
(* selected session is the one that is shown.                              *)
(***************************************************************************)
EXTENDS SessionRouting, FiniteSetTheorems, TLAPS

ConnPcs == {"read", "retire", "default", "switch", "clearInput", "clearResync", "exit"}

ConnStates ==
    [pc   : ConnPcs,
     sel  : Sessions \cup {NoSession},
     old  : Displays,
     inst : Instances \cup {NoInstance}]

InstPcs == {"check", "screen", "setResync", "setInput", "serve", "failed", "failure", "done"}

InstStates == [session : Sessions, pc : InstPcs, frame : {"off", "idle", "draw"}]

\* TypeOK, and the two families of local states are functions.
Typed ==
    /\ TypeOK
    /\ conn \in [Conns -> ConnStates]
    /\ inst \in [Started -> InstStates]

\* Handlers that are about to start an instance have one in hand, and only
\* those between taking over a display and retiring it hold the old one.
Handling(p, s, o, i) ==
    /\ p \in {"switch", "clearInput", "clearResync"} => s \in Sessions
    /\ i # NoInstance <=> p \in {"clearInput", "clearResync"}
    /\ p # "retire" => o = NoDisplay
    /\ o.client = 0 => o.gen = 0

InHand ==
    /\ \A c \in Conns : Handling(conn[c].pc, conn[c].sel, conn[c].old, conn[c].inst)
    /\ serverPc # "close" => closing = NoDisplay
    /\ closing.client = 0 => closing.gen = 0
    /\ active.client = 0 => active.gen = 0

\* The handlers that will still switch, and the generations that are left for
\* them: every switch answers a card event or a new channel.
Switching == {c \in Conns : conn[c].pc \in {"retire", "default", "switch"}}

Counted ==
    /\ IsFiniteSet(Switching)
    /\ active.gen + Cardinality(Switching) <= (MaxInserts - inserts) + clients
    /\ active.client <= clients

Inv1 == Typed /\ InHand /\ Counted

\* No instance was issued that lies ahead of the current one.
Behind(i) == i[1] <= clients /\ (i[1] = active.client => i[2] <= active.gen)

Issued ==
    /\ \A i \in Started : Behind(i)
    /\ \A i \in cancelled : Behind(i)
    /\ \A c \in Conns : Behind(conn[c].inst)
    /\ \A c \in Conns : conn[c].inst \notin Started
    /\ \A c, d \in Conns : c # d => conn[c].inst # conn[d].inst \/ conn[c].inst = NoInstance

\* A display that was taken out of the map is not the current one.
Replaced(a) == a.client <= clients /\ (a.client = active.client => a.client = 0)
NoDisplayTwice ==
    /\ \A c \in Conns : Replaced(conn[c].old)
    /\ Replaced(closing)

Inv2 == Inv1 /\ Issued /\ NoDisplayTwice

\* The goroutines of an instance in state s between a check and the drawing it
\* allows.
Going(s) == (IF s.pc \in {"screen", "failure"} THEN 1 ELSE 0) + (IF s.frame = "draw" THEN 1 ELSE 0)

\* An instance in state s that drew n times too late: each of its goroutines
\* that is still going may do so once more, and one that is current never did.
OnTime(s, n, current) ==
    /\ s.pc \in {"check", "screen"} => s.frame = "off"
    /\ s.pc \in {"failed", "failure"} => Kind[s.session] = "helper"
    /\ current => n = 0
    /\ n + Going(s) <= IF Kind[s.session] = "helper" THEN 2 ELSE 1

LateCounted ==
    /\ \A i \in Instances \ Started : late[i] = 0
    /\ \A i \in Started : OnTime(inst[i], late[i], IsCurrent(i))

\* What the only connection still has to do for the selected session.
Selecting ==
    \A c \in Conns : active.client # 0 =>
        CASE conn[c].pc \in {"retire", "switch"} -> conn[c].sel = selected
          [] conn[c].pc = "default" -> TRUE
          [] OTHER -> active.session = selected

-----------------------------------------------------------------------------
\* What an instance does changes its own state, the handlers and the counters.
InstanceActions(i) == Run(i) \/ NoPassword(i) \/ FrameCheck(i) \/ RunEnds(i) \/ RunFails(i)

LEMMA InstanceStep ==
    ASSUME Typed, NEW i \in Started, InstanceActions(i)
    PROVE  /\ UNCHANGED <<routing, conn, inserts>>
           /\ \E s \in InstStates : s.session = inst[i].session /\ inst' = [inst EXCEPT ![i] = s]
           /\ input' \in [Channels -> Instances \cup {NoInstance}]
           /\ resync' \in [Channels -> Instances \cup {NoInstance}]
           /\ late' \in [Instances -> Nat]
           /\ frames' \in 0..MaxFrames
<1>1. i \in Instances /\ inst[i] \in InstStates /\ i[1] \in Channels
  BY DEF Instances, Typed, TypeOK
<1> DEFINE Stays == UNCHANGED <<routing, conn, inserts>>
           Goes  == \E s \in InstStates : s.session = inst[i].session /\ inst' = [inst EXCEPT ![i] = s]
           Types == /\ input' \in [Channels -> Instances \cup {NoInstance}]
                    /\ resync' \in [Channels -> Instances \cup {NoInstance}]
                    /\ late' \in [Instances -> Nat]
                    /\ frames' \in 0..MaxFrames
<1>2. ASSUME NEW pc \in InstPcs, Go(i, pc)
      PROVE  Goes
  <2>1. [inst[i] EXCEPT !.pc = pc] \in InstStates
    BY <1>1 DEF InstStates
  <2>2. inst' = [inst EXCEPT ![i] = [inst[i] EXCEPT !.pc = pc]]
    BY <1>1, <1>2 DEF Go
  <2> QED BY <1>1, <2>1, <2>2 DEF InstStates
<1>3. ASSUME NEW pc \in InstPcs, NEW frame \in {"off", "idle", "draw"},
             inst' = [inst EXCEPT ![i].pc = pc, ![i].frame = frame]
      PROVE  Goes
  <2>1. [inst[i] EXCEPT !.pc = pc, !.frame = frame] \in InstStates
    BY <1>1 DEF InstStates
  <2>2. inst' = [inst EXCEPT ![i] = [inst[i] EXCEPT !.pc = pc, !.frame = frame]]
    BY <1>1, <1>3
  <2> QED BY <1>1, <2>1, <2>2 DEF InstStates
<1>4. ASSUME NEW frame \in {"off", "idle", "draw"}, inst' = [inst EXCEPT ![i].frame = frame]
      PROVE  Goes
  <2>1. [inst[i] EXCEPT !.frame = frame] \in InstStates
    BY <1>1 DEF InstStates
  <2>2. inst' = [inst EXCEPT ![i] = [inst[i] EXCEPT !.frame = frame]]
    BY <1>1, <1>4
  <2> QED BY <1>1, <2>1, <2>2 DEF InstStates
<1>5. ASSUME Drawn(i) PROVE late' \in [Instances -> Nat]
  BY <1>1, <1>5 DEF Drawn, Typed, TypeOK
<1>6. /\ Typed /\ UNCHANGED handlers => input' \in [Channels -> Instances \cup {NoInstance}]
      /\ Typed /\ UNCHANGED handlers => resync' \in [Channels -> Instances \cup {NoInstance}]
      /\ Typed /\ UNCHANGED late => late' \in [Instances -> Nat]
      /\ Typed /\ UNCHANGED frames => frames' \in 0..MaxFrames
  BY DEF Typed, TypeOK, handlers
<1>7. AfterScreen(i) \in InstPcs
  BY DEF AfterScreen, InstPcs
<1>8. CASE CheckScreen(i) \/ CheckFailure(i)
  <2>1. \E pc \in InstPcs : Go(i, pc)
    BY <1>7, <1>8 DEF CheckScreen, CheckFailure, Check, InstPcs
  <2> QED BY <1>2, <1>6, <1>8, <2>1 DEF CheckScreen, CheckFailure, Check, budget
<1>9. CASE DrawScreen(i) \/ DrawFailure(i)
  <2>1. \E pc \in InstPcs : Go(i, pc)
    BY <1>7, <1>9 DEF DrawScreen, DrawFailure, Draw, InstPcs
  <2> QED BY <1>2, <1>5, <1>6, <1>9, <2>1 DEF DrawScreen, DrawFailure, Draw, budget
<1>10. CASE SetResync(i)
  <2>1. Goes
    BY <1>2, <1>10 DEF SetResync, InstPcs
  <2>2. Types
    BY <1>1, <1>10 DEF SetResync, Typed, TypeOK, budget
  <2> QED BY <1>10, <2>1, <2>2 DEF SetResync, budget
<1>11. CASE SetInput(i)
  <2>1. Goes
    BY <1>3, <1>11 DEF SetInput, InstPcs
  <2>2. Types
    BY <1>1, <1>11 DEF SetInput, Typed, TypeOK, budget
  <2> QED BY <1>11, <2>1, <2>2 DEF SetInput, budget
<1>12. CASE FrameDraw(i)
  BY <1>4, <1>5, <1>6, <1>12 DEF FrameDraw, budget
<1>13. CASE FrameCheck(i)
  <2>1. Goes
    BY <1>4, <1>13 DEF FrameCheck
  <2>2. Types
    <3>1. frames' \in 0..MaxFrames
      BY <1>13, BoundAssumption DEF FrameCheck, Typed, TypeOK
    <3> QED BY <1>6, <1>13, <3>1 DEF FrameCheck
  <2> QED BY <1>13, <2>1, <2>2 DEF FrameCheck
<1>14. CASE RunCancelled(i) \/ NoPassword(i) \/ RunFails(i)
  <2>1. \E pc \in InstPcs : Go(i, pc)
    BY <1>14 DEF RunCancelled, NoPassword, RunFails, InstPcs
  <2> QED BY <1>2, <1>6, <1>14, <2>1 DEF RunCancelled, NoPassword, RunFails, budget
<1>15. CASE RunEnds(i)
  BY <1>3, <1>6, <1>15 DEF RunEnds, InstPcs, budget
<1> QED
  BY <1>8, <1>9, <1>10, <1>11, <1>12, <1>13, <1>14, <1>15 DEF InstanceActions, Run

-----------------------------------------------------------------------------
\* What a handler does to its own state.
Becomes(c, p, s, o, i) ==
    conn' = [conn EXCEPT ![c] = [pc |-> p, sel |-> s, old |-> o, inst |-> i]]

LEMMA HandlerShapes ==
    ASSUME Typed, NEW c \in Conns
    PROVE  /\ \A s \in Sessions : InfoInsert(c, s) =>
                Becomes(c, IF NeedsSwitch(s) THEN "switch" ELSE AfterMessage, s, conn[c].old, conn[c].inst)
           /\ ConnRsp(c) => Becomes(c, "retire", selected, active, NoInstance)
           /\ Retire(c) => Becomes(c, IF conn[c].sel = NoSession THEN "default" ELSE "switch",
                                   conn[c].sel, NoDisplay, conn[c].inst)
           /\ \A s \in Sessions : SelectDefault(c, s) =>
                Becomes(c, "switch", s, conn[c].old, conn[c].inst)
           /\ Switch(c) /\ active.client = 0 =>
                Becomes(c, AfterMessage, conn[c].sel, conn[c].old, conn[c].inst)
           /\ Switch(c) /\ active.client # 0 =>
                Becomes(c, "clearInput", conn[c].sel, conn[c].old, <<active.client, active.gen + 1>>)
           /\ ClearInput(c) => Becomes(c, "clearResync", conn[c].sel, conn[c].old, conn[c].inst)
           /\ ClearResyncAndStart(c) =>
                Becomes(c, AfterMessage, conn[c].sel, conn[c].old, NoInstance)
           /\ Leave(c) => Becomes(c, "exit", conn[c].sel, conn[c].old, conn[c].inst)
<1>1. conn \in [Conns -> ConnStates] /\ conn[c] \in ConnStates
  BY DEF Typed
<1>2. ASSUME NEW p \in ConnPcs, NEW s \in Sessions
      PROVE  [conn EXCEPT ![c].pc = p, ![c].sel = s] =
                [conn EXCEPT ![c] = [pc |-> p, sel |-> s, old |-> conn[c].old, inst |-> conn[c].inst]]
  <2> DEFINE x == [conn[c] EXCEPT !.pc = p, !.sel = s]
  <2>1. x \in ConnStates /\ x.pc = p /\ x.sel = s /\ x.old = conn[c].old /\ x.inst = conn[c].inst
    BY <1>1 DEF ConnStates
  <2>2. [conn EXCEPT ![c].pc = p, ![c].sel = s] = [conn EXCEPT ![c] = x]
    BY <1>1
  <2> HIDE DEF x
  <2>3. x = [pc |-> p, sel |-> s, old |-> conn[c].old, inst |-> conn[c].inst]
    BY <2>1 DEF ConnStates
  <2> QED BY <2>2, <2>3
<1>3. ASSUME NEW s \in Sessions, InfoInsert(c, s)
      PROVE  Becomes(c, IF NeedsSwitch(s) THEN "switch" ELSE AfterMessage, s, conn[c].old, conn[c].inst)
  <2>1. (IF NeedsSwitch(s) THEN "switch" ELSE AfterMessage) \in ConnPcs
    BY DEF AfterMessage, ConnPcs
  <2> QED BY <1>2, <1>3, <2>1 DEF InfoInsert, Becomes
<1>4. ConnRsp(c) => Becomes(c, "retire", selected, active, NoInstance)
  BY <1>1 DEF ConnRsp, Becomes
<1>5. Retire(c) => Becomes(c, IF conn[c].sel = NoSession THEN "default" ELSE "switch",
                           conn[c].sel, NoDisplay, conn[c].inst)
  BY <1>1 DEF Retire, Becomes, ConnStates
<1>6. ASSUME NEW s \in Sessions, SelectDefault(c, s)
      PROVE  Becomes(c, "switch", s, conn[c].old, conn[c].inst)
  BY <1>2, <1>6 DEF SelectDefault, Becomes, ConnPcs
<1>7. Switch(c) /\ active.client = 0 =>
         Becomes(c, AfterMessage, conn[c].sel, conn[c].old, conn[c].inst)
  BY <1>1 DEF Switch, To, Becomes, ConnStates
<1>8. Switch(c) /\ active.client # 0 =>
         Becomes(c, "clearInput", conn[c].sel, conn[c].old, <<active.client, active.gen + 1>>)
  BY <1>1 DEF Switch, Becomes, ConnStates
<1>9. ClearInput(c) => Becomes(c, "clearResync", conn[c].sel, conn[c].old, conn[c].inst)
  BY <1>1 DEF ClearInput, To, Becomes, ConnStates
<1>10. ClearResyncAndStart(c) => Becomes(c, AfterMessage, conn[c].sel, conn[c].old, NoInstance)
  BY <1>1 DEF ClearResyncAndStart, Becomes, ConnStates
<1>11. Leave(c) => Becomes(c, "exit", conn[c].sel, conn[c].old, conn[c].inst)
  BY <1>1 DEF Leave, To, Becomes, ConnStates
<1> QED BY <1>3, <1>4, <1>5, <1>6, <1>7, <1>8, <1>9, <1>10, <1>11

SwitchPcs == {"retire", "default", "switch"}

\* One handler more, less, or as many as before still have to switch.
LEMMA CountAfter ==
    ASSUME Typed, IsFiniteSet(Switching), NEW c \in Conns, NEW p, NEW s, NEW o, NEW i,
           Becomes(c, p, s, o, i)
    PROVE  /\ IsFiniteSet(Switching')
           /\ Cardinality(Switching) \in Nat
           /\ Cardinality(Switching') = Cardinality(Switching)
                 + (IF p \in SwitchPcs THEN (IF conn[c].pc \in SwitchPcs THEN 0 ELSE 1)
                    ELSE (IF conn[c].pc \in SwitchPcs THEN -1 ELSE 0))
<1>1. conn \in [Conns -> ConnStates]
  BY DEF Typed
<1>2. conn'[c].pc = p /\ \A d \in Conns \ {c} : conn'[d] = conn[d]
  BY <1>1 DEF Becomes
<1>3. c \in Switching <=> conn[c].pc \in SwitchPcs
  BY DEF Switching, SwitchPcs
<1>4. Switching' = IF p \in SwitchPcs THEN Switching \cup {c} ELSE Switching \ {c}
  BY <1>2 DEF Switching, SwitchPcs
<1>5. Cardinality(Switching) \in Nat
  BY FS_CardinalityType
<1>6. CASE p \in SwitchPcs
  BY <1>3, <1>4, <1>5, <1>6, FS_AddElement
<1>7. CASE p \notin SwitchPcs
  BY <1>3, <1>4, <1>5, <1>7, FS_RemoveElement
<1> QED BY <1>6, <1>7

-----------------------------------------------------------------------------
\* The types that do not follow from those of the local states.
Simple ==
    /\ active \in Displays
    /\ selected \in Sessions \cup {NoSession}
    /\ clients \in 0..MaxClients
    /\ closed \subseteq Channels
    /\ cancelled \subseteq Instances
    /\ released \subseteq Channels
    /\ serverPc \in {"run", "stop", "close", "closed"}
    /\ closing \in Displays
    /\ Started \subseteq Instances
    /\ input \in [Channels -> Instances \cup {NoInstance}]
    /\ resync \in [Channels -> Instances \cup {NoInstance}]
    /\ late \in [Instances -> Nat]
    /\ inserts \in 0..MaxInserts
    /\ frames \in 0..MaxFrames

LEMMA TypedParts ==
    Typed <=> Simple /\ conn \in [Conns -> ConnStates] /\ inst \in [Started -> InstStates]
BY DEF Typed, Simple, TypeOK, ConnStates, ConnPcs, InstStates, InstPcs

LEMMA TypedPartsAfter ==
    Simple' /\ conn' \in [Conns -> ConnStates] /\ inst' \in [Started' -> InstStates] => Typed'
BY DEF Typed, Simple, TypeOK, ConnStates, ConnPcs, InstStates, InstPcs, Displays, Instances, Channels

LEMMA InitInv1 == Init => Inv1
<1> SUFFICES ASSUME Init PROVE Inv1
  OBVIOUS
<1>1. NoDisplay \in Displays /\ NoDisplay.gen = 0 /\ NoDisplay.client = 0
  BY BoundAssumption DEF NoDisplay, Displays
<1>2. conn \in [Conns -> ConnStates]
  BY <1>1 DEF Init, ConnStates, ConnPcs
<1>3. DOMAIN inst = {} /\ inst = [i \in {} |-> inst[i]]
  BY DEF Init
<1>4. inst \in [Started -> InstStates]
  BY <1>3 DEF Started
<1>5. Simple
  BY <1>1, <1>3, BoundAssumption DEF Init, Simple, Started
<1>6. Switching = {}
  BY <1>2 DEF Init, Switching
<1>7. Counted
  BY <1>1, <1>6, FS_EmptySet, BoundAssumption DEF Init, Counted
<1>8. InHand
  BY <1>1, <1>2 DEF Init, InHand, Handling
<1> QED BY <1>2, <1>4, <1>5, <1>7, <1>8, TypedParts DEF Inv1

LEMMA DisposeTypes ==
    ASSUME Simple, NEW a \in Displays, a.client = 0 => a.gen = 0, Dispose(a)
    PROVE  cancelled' \subseteq Instances /\ released' \subseteq Channels /\ closed' \subseteq Channels
<1>1. a.client \in 0..MaxClients /\ a.gen \in 0..(MaxInserts + MaxClients)
  BY DEF Displays
<1>2. a.gen # 0 => Owner(a) \in Instances
  BY <1>1, BoundAssumption DEF Owner, Instances, Channels
<1>3. cancelled' \subseteq Instances
  BY <1>2 DEF Dispose, CancelledWith, Simple
<1>4. {a.client} \ {0} \subseteq Channels
  BY <1>1, BoundAssumption DEF Channels
<1> QED BY <1>3, <1>4 DEF Dispose, Simple

LEMMA HandlerKeepsOthers ==
    ASSUME Inv1, NEW c \in Conns, NEW p \in ConnPcs, NEW s \in Sessions \cup {NoSession},
           NEW o \in Displays, NEW i \in Instances \cup {NoInstance},
           Handling(p, s, o, i), Becomes(c, p, s, o, i)
    PROVE  /\ conn' \in [Conns -> ConnStates]
           /\ \A d \in Conns : Handling(conn'[d].pc, conn'[d].sel, conn'[d].old, conn'[d].inst)
<1>1. conn \in [Conns -> ConnStates]
  BY DEF Inv1, Typed
<1>2. [pc |-> p, sel |-> s, old |-> o, inst |-> i] \in ConnStates
  BY DEF ConnStates
<1>3. conn' \in [Conns -> ConnStates]
  BY <1>1, <1>2 DEF Becomes
<1>4. /\ conn'[c].pc = p /\ conn'[c].sel = s /\ conn'[c].old = o /\ conn'[c].inst = i
      /\ \A d \in Conns \ {c} : conn'[d] = conn[d]
  BY <1>1 DEF Becomes
<1> QED BY <1>3, <1>4 DEF Inv1, InHand

LEMMA HandlerInv1 ==
    ASSUME Inv1, NEW c \in Conns,
           \/ \E s \in Sessions : InfoInsert(c, s) \/ SelectDefault(c, s)
           \/ ConnRsp(c) \/ Retire(c) \/ Switch(c) \/ ClearInput(c)
           \/ ClearResyncAndStart(c) \/ Leave(c)
    PROVE  Inv1'
<1> USE DEF Inv1
<1>1. /\ Typed /\ Simple
      /\ conn \in [Conns -> ConnStates] /\ conn[c] \in ConnStates
      /\ inst \in [Started -> InstStates]
  BY TypedParts
<1>2. /\ conn[c].pc \in ConnPcs /\ conn[c].sel \in Sessions \cup {NoSession}
      /\ conn[c].old \in Displays /\ conn[c].inst \in Instances \cup {NoInstance}
      /\ Handling(conn[c].pc, conn[c].sel, conn[c].old, conn[c].inst)
  BY <1>1 DEF ConnStates, InHand
<1>3. AfterMessage \in {"read", "exit"}
  BY DEF AfterMessage
<1>4. NoDisplay \in Displays /\ NoDisplay.client = 0 /\ NoDisplay.gen = 0
  BY BoundAssumption DEF NoDisplay, Displays
<1>5. /\ active.client \in 0..MaxClients /\ active.gen \in 0..(MaxInserts + MaxClients)
      /\ active.session \in Sessions \cup {NoSession}
  BY <1>1 DEF Simple, Displays
<1>6. ASSUME NEW s \in Sessions, InfoInsert(c, s) PROVE Inv1'
  <2> DEFINE p == IF NeedsSwitch(s) THEN "switch" ELSE AfterMessage
  <2>1. conn[c].pc = "read" /\ Becomes(c, p, s, conn[c].old, conn[c].inst)
    BY <1>1, <1>6, HandlerShapes DEF InfoInsert
  <2>2. p \in ConnPcs /\ p \in {"switch", "read", "exit"}
    BY <1>3 DEF ConnPcs
  <2>3. Handling(p, s, conn[c].old, conn[c].inst)
    BY <1>2, <2>1, <2>2 DEF Handling
  <2> HIDE DEF p
  <2>4. /\ conn' \in [Conns -> ConnStates]
        /\ \A d \in Conns : Handling(conn'[d].pc, conn'[d].sel, conn'[d].old, conn'[d].inst)
    BY <1>2, <2>1, <2>2, <2>3, HandlerKeepsOthers
  <2>5. Counted'
    <3>1. /\ IsFiniteSet(Switching') /\ Cardinality(Switching) \in Nat
          /\ Cardinality(Switching') \in {Cardinality(Switching), Cardinality(Switching) + 1}
      BY <1>1, <2>1, CountAfter DEF Counted, SwitchPcs
    <3>2. /\ inserts \in 0..MaxInserts /\ clients \in 0..MaxClients
          /\ inserts' = inserts - 1 /\ clients' = clients /\ active' = active
      BY <1>1, <1>6 DEF InfoInsert, Simple
    <3> QED BY <1>5, <3>1, <3>2, BoundAssumption DEF Counted
  <2>6. Simple'
    <3>1. UNCHANGED <<active, clients, closed, cancelled, released, serverPc, closing, handlers,
                      inst, late, frames>>
      BY <1>6 DEF InfoInsert
    <3>2. inserts' \in 0..MaxInserts /\ selected' = s
      <4>1. inserts > 0 /\ inserts' = inserts - 1 /\ selected' = s
        BY <1>6 DEF InfoInsert
      <4>2. inserts \in 0..MaxInserts
        BY <1>1 DEF Simple
      <4> QED BY <4>1, <4>2, BoundAssumption
    <3> QED BY <1>1, <3>1, <3>2 DEF Simple, Started, handlers
  <2>7. UNCHANGED <<inst, Started, serverPc, closing, active>>
    BY <1>6 DEF InfoInsert, Started
  <2> QED BY <1>1, <2>4, <2>5, <2>6, <2>7, TypedPartsAfter DEF InHand
<1>7. CASE ConnRsp(c)
  <2>1. conn[c].pc = "read" /\ Becomes(c, "retire", selected, active, NoInstance)
    BY <1>1, <1>7, HandlerShapes DEF ConnRsp
  <2>2. Handling("retire", selected, active, NoInstance)
    BY DEF Handling, InHand
  <2>3. /\ conn' \in [Conns -> ConnStates]
        /\ \A d \in Conns : Handling(conn'[d].pc, conn'[d].sel, conn'[d].old, conn'[d].inst)
    BY <1>1, <2>1, <2>2, HandlerKeepsOthers DEF Simple, ConnPcs
  <2>4. /\ active' \in Displays /\ active'.client = clients + 1 /\ active'.gen = 0
        /\ clients' = clients + 1 /\ clients' \in 0..MaxClients
    BY <1>1, <1>4, <1>7, BoundAssumption DEF ConnRsp, Displays, Simple, NoDisplay
  <2>5. Counted'
    <3>1. /\ IsFiniteSet(Switching') /\ Cardinality(Switching) \in Nat
          /\ Cardinality(Switching') = Cardinality(Switching) + 1
      BY <1>1, <2>1, CountAfter DEF Counted, SwitchPcs
    <3>2. inserts' = inserts
      BY <1>7 DEF ConnRsp, budget
    <3> QED BY <1>1, <1>5, <2>4, <3>1, <3>2, BoundAssumption DEF Counted, Simple
  <2>6. Simple'
    BY <1>1, <1>7, <2>4 DEF ConnRsp, Simple, Started, handlers, budget
  <2>7. UNCHANGED <<inst, Started, serverPc, closing>>
    BY <1>7 DEF ConnRsp, Started
  <2> QED BY <1>1, <2>3, <2>4, <2>5, <2>6, <2>7, TypedPartsAfter DEF InHand, Simple
<1>8. CASE Retire(c)
  <2> DEFINE p == IF conn[c].sel = NoSession THEN "default" ELSE "switch"
  <2>1. conn[c].pc = "retire" /\ Becomes(c, p, conn[c].sel, NoDisplay, conn[c].inst)
    BY <1>1, <1>8, HandlerShapes DEF Retire
  <2>2. p \in ConnPcs /\ Handling(p, conn[c].sel, NoDisplay, conn[c].inst)
    BY <1>2, <1>4, <2>1 DEF Handling, ConnPcs
  <2>3. p \in SwitchPcs
    BY DEF SwitchPcs
  <2> HIDE DEF p
  <2>4. /\ conn' \in [Conns -> ConnStates]
        /\ \A d \in Conns : Handling(conn'[d].pc, conn'[d].sel, conn'[d].old, conn'[d].inst)
    BY <1>2, <1>4, <2>1, <2>2, HandlerKeepsOthers
  <2>5. Counted'
    <3>1. /\ IsFiniteSet(Switching') /\ Cardinality(Switching) \in Nat
          /\ Cardinality(Switching') = Cardinality(Switching) + 0
      BY <1>1, <2>1, <2>3, CountAfter DEF Counted, SwitchPcs
    <3>2. UNCHANGED <<inserts, active, clients>>
      BY <1>8 DEF Retire, budget
    <3> QED BY <3>1, <3>2 DEF Counted
  <2>6. cancelled' \subseteq Instances /\ released' \subseteq Channels /\ closed' \subseteq Channels
    BY <1>1, <1>2, <1>8, DisposeTypes DEF Retire, Handling
  <2>7. Simple'
    BY <1>1, <1>8, <2>6 DEF Retire, Simple, Started, handlers, budget
  <2>8. UNCHANGED <<inst, Started, serverPc, closing, active>>
    BY <1>8 DEF Retire, Started
  <2> QED BY <1>1, <2>4, <2>5, <2>7, <2>8, TypedPartsAfter DEF InHand
<1>9. ASSUME NEW s \in Sessions, SelectDefault(c, s) PROVE Inv1'
  <2>1. conn[c].pc = "default" /\ Becomes(c, "switch", s, conn[c].old, conn[c].inst)
    BY <1>1, <1>9, HandlerShapes DEF SelectDefault
  <2>2. Handling("switch", s, conn[c].old, conn[c].inst)
    BY <1>2, <2>1 DEF Handling
  <2>3. /\ conn' \in [Conns -> ConnStates]
        /\ \A d \in Conns : Handling(conn'[d].pc, conn'[d].sel, conn'[d].old, conn'[d].inst)
    BY <1>2, <2>1, <2>2, HandlerKeepsOthers DEF ConnPcs
  <2>4. Counted'
    <3>1. /\ IsFiniteSet(Switching') /\ Cardinality(Switching) \in Nat
          /\ Cardinality(Switching') = Cardinality(Switching) + 0
      BY <1>1, <2>1, CountAfter DEF Counted, SwitchPcs
    <3>2. UNCHANGED <<inserts, active, clients>>
      BY <1>9 DEF SelectDefault, budget
    <3> QED BY <3>1, <3>2 DEF Counted
  <2>5. Simple'
    BY <1>1, <1>9 DEF SelectDefault, Simple, Started, handlers, budget
  <2>6. UNCHANGED <<inst, Started, serverPc, closing, active>>
    BY <1>9 DEF SelectDefault, Started
  <2> QED BY <1>1, <2>3, <2>4, <2>5, <2>6, TypedPartsAfter DEF InHand
<1>10. CASE Switch(c) /\ active.client = 0
  <2>1. conn[c].pc = "switch" /\ Becomes(c, AfterMessage, conn[c].sel, conn[c].old, conn[c].inst)
    BY <1>1, <1>10, HandlerShapes DEF Switch
  <2>2. AfterMessage \in ConnPcs /\ Handling(AfterMessage, conn[c].sel, conn[c].old, conn[c].inst)
    BY <1>2, <1>3, <2>1 DEF Handling, ConnPcs
  <2>3. /\ conn' \in [Conns -> ConnStates]
        /\ \A d \in Conns : Handling(conn'[d].pc, conn'[d].sel, conn'[d].old, conn'[d].inst)
    BY <1>2, <2>1, <2>2, HandlerKeepsOthers
  <2>4. UNCHANGED <<active, cancelled, selected, clients, closed, released, serverPc, closing,
                    handlers, inst, late, budget>>
    BY <1>10 DEF Switch
  <2>5. Counted'
    <3>1. /\ IsFiniteSet(Switching') /\ Cardinality(Switching) \in Nat
          /\ Cardinality(Switching') = Cardinality(Switching) - 1
      BY <1>1, <1>3, <2>1, CountAfter DEF Counted, SwitchPcs
    <3> QED BY <1>1, <1>5, <2>4, <3>1, BoundAssumption DEF Counted, Simple, budget
  <2>6. Simple'
    BY <1>1, <2>4 DEF Simple, Started, handlers, budget
  <2> QED BY <1>1, <2>3, <2>4, <2>5, <2>6, TypedPartsAfter DEF InHand, Started
<1>11. CASE Switch(c) /\ active.client # 0
  <2> DEFINE new == <<active.client, active.gen + 1>>
  <2>1. /\ conn[c].pc = "switch"
        /\ Becomes(c, "clearInput", conn[c].sel, conn[c].old, new)
    BY <1>1, <1>11, HandlerShapes DEF Switch
  <2>2. /\ IsFiniteSet(Switching') /\ Cardinality(Switching) \in Nat
        /\ Cardinality(Switching') \in Nat
        /\ Cardinality(Switching') = Cardinality(Switching) - 1
    <3>1. /\ IsFiniteSet(Switching') /\ Cardinality(Switching) \in Nat
          /\ Cardinality(Switching') = Cardinality(Switching) - 1
      BY <1>1, <2>1, CountAfter DEF Counted, SwitchPcs
    <3> QED BY <3>1, FS_CardinalityType
  <2>3. /\ active'.client = active.client /\ active'.gen = active.gen + 1
        /\ active'.session = conn[c].sel
        /\ active' = [client |-> active'.client, session |-> active'.session, gen |-> active'.gen]
    BY <1>1, <1>11 DEF Switch, Simple, Displays
  <2>4. UNCHANGED <<selected, clients, closed, released, serverPc, closing, handlers, inst, late, budget>>
    BY <1>11 DEF Switch
  <2>5. Counted'
    BY <1>1, <1>5, <2>2, <2>3, <2>4, BoundAssumption DEF Counted, Simple, budget
  <2>6. active.gen + 1 \in 1..(MaxInserts + MaxClients)
    BY <1>1, <1>5, <2>2, <2>3, <2>4, <2>5, BoundAssumption DEF Counted, Simple, budget
  <2>7. new \in Instances /\ new # NoInstance /\ active' \in Displays
    BY <1>2, <1>5, <1>11, <2>3, <2>6, BoundAssumption
    DEF Instances, Channels, NoInstance, Displays
  <2>8. Handling("clearInput", conn[c].sel, conn[c].old, new)
    BY <1>2, <2>1, <2>7 DEF Handling
  <2>9. /\ conn' \in [Conns -> ConnStates]
        /\ \A d \in Conns : Handling(conn'[d].pc, conn'[d].sel, conn'[d].old, conn'[d].inst)
    BY <1>2, <2>1, <2>7, <2>8, HandlerKeepsOthers DEF ConnPcs
  <2>10. cancelled' \subseteq Instances
    <3>1. active.gen # 0 => Owner(active) \in Instances
      BY <1>5, <1>11, BoundAssumption DEF Owner, Instances, Channels
    <3> QED BY <1>1, <1>11, <3>1 DEF Switch, CancelledWith, Simple
  <2>11. Simple'
    BY <1>1, <2>4, <2>7, <2>10 DEF Simple, Started, handlers, budget
  <2> QED BY <1>1, <1>11, <2>3, <2>4, <2>5, <2>9, <2>11, TypedPartsAfter DEF InHand, Started
<1>12. CASE ClearInput(c)
  <2>1. /\ conn[c].pc = "clearInput"
        /\ Becomes(c, "clearResync", conn[c].sel, conn[c].old, conn[c].inst)
    BY <1>1, <1>12, HandlerShapes DEF ClearInput
  <2>2. Handling("clearResync", conn[c].sel, conn[c].old, conn[c].inst)
    BY <1>2, <2>1 DEF Handling
  <2>3. /\ conn' \in [Conns -> ConnStates]
        /\ \A d \in Conns : Handling(conn'[d].pc, conn'[d].sel, conn'[d].old, conn'[d].inst)
    BY <1>2, <2>1, <2>2, HandlerKeepsOthers DEF ConnPcs
  <2>4. UNCHANGED <<routing, resync, inst, late, budget>>
    BY <1>12 DEF ClearInput
  <2>5. Counted'
    <3>1. /\ IsFiniteSet(Switching') /\ Cardinality(Switching) \in Nat
          /\ Cardinality(Switching') = Cardinality(Switching) + 0
      BY <1>1, <2>1, CountAfter DEF Counted, SwitchPcs
    <3> QED BY <2>4, <3>1 DEF Counted, routing, budget
  <2>6. Simple'
    BY <1>1, <1>12, <2>4 DEF ClearInput, Simple, Started, routing, budget
  <2> QED BY <1>1, <2>3, <2>4, <2>5, <2>6, TypedPartsAfter DEF InHand, Started, routing
<1>13. CASE ClearResyncAndStart(c)
  <2>1. /\ conn[c].pc = "clearResync"
        /\ Becomes(c, AfterMessage, conn[c].sel, conn[c].old, NoInstance)
    BY <1>1, <1>13, HandlerShapes DEF ClearResyncAndStart
  <2>2. AfterMessage \in ConnPcs /\ Handling(AfterMessage, conn[c].sel, conn[c].old, NoInstance)
    BY <1>2, <1>3, <2>1 DEF Handling, ConnPcs
  <2>3. /\ conn' \in [Conns -> ConnStates]
        /\ \A d \in Conns : Handling(conn'[d].pc, conn'[d].sel, conn'[d].old, conn'[d].inst)
    BY <1>2, <2>1, <2>2, HandlerKeepsOthers
  <2>4. UNCHANGED <<routing, input, late, budget>>
    BY <1>13 DEF ClearResyncAndStart
  <2>5. Counted'
    <3>1. /\ IsFiniteSet(Switching') /\ Cardinality(Switching) \in Nat
          /\ Cardinality(Switching') = Cardinality(Switching) + 0
      BY <1>1, <1>3, <2>1, CountAfter DEF Counted, SwitchPcs
    <3> QED BY <2>4, <3>1 DEF Counted, routing, budget
  <2>6. conn[c].inst \in Instances /\ conn[c].sel \in Sessions
    BY <1>2, <2>1 DEF Handling
  <2>7. inst' \in [Started \cup {conn[c].inst} -> InstStates]
    BY <1>1, <1>13, <2>6 DEF ClearResyncAndStart, FirstPc, InstStates, InstPcs
  <2>8. Started' = Started \cup {conn[c].inst}
    BY <2>7 DEF Started
  <2>9. Simple'
    BY <1>1, <1>13, <2>4, <2>6, <2>8 DEF ClearResyncAndStart, Simple, routing, budget
  <2> QED BY <1>1, <2>3, <2>4, <2>5, <2>7, <2>8, <2>9, TypedPartsAfter DEF InHand, routing
<1>14. CASE Leave(c)
  <2>1. conn[c].pc = "read" /\ Becomes(c, "exit", conn[c].sel, conn[c].old, conn[c].inst)
    BY <1>1, <1>14, HandlerShapes DEF Leave
  <2>2. Handling("exit", conn[c].sel, conn[c].old, conn[c].inst)
    BY <1>2, <2>1 DEF Handling
  <2>3. /\ conn' \in [Conns -> ConnStates]
        /\ \A d \in Conns : Handling(conn'[d].pc, conn'[d].sel, conn'[d].old, conn'[d].inst)
    BY <1>2, <2>1, <2>2, HandlerKeepsOthers DEF ConnPcs
  <2>4. UNCHANGED <<routing, handlers, inst, late, budget>>
    BY <1>14 DEF Leave
  <2>5. Counted'
    <3>1. /\ IsFiniteSet(Switching') /\ Cardinality(Switching) \in Nat
          /\ Cardinality(Switching') = Cardinality(Switching) + 0
      BY <1>1, <2>1, CountAfter DEF Counted, SwitchPcs
    <3> QED BY <2>4, <3>1 DEF Counted, routing, budget
  <2>6. Simple'
    BY <1>1, <2>4 DEF Simple, Started, routing, handlers, budget
  <2> QED BY <1>1, <2>3, <2>4, <2>5, <2>6, TypedPartsAfter DEF InHand, Started, routing
<1> QED
  BY <1>6, <1>7, <1>8, <1>9, <1>10, <1>11, <1>12, <1>13, <1>14

LEMMA ServerInv1 ==
    ASSUME Inv1, Stop \/ CloseAll \/ CloseTaken
    PROVE  Inv1'
<1> USE DEF Inv1
<1>1. /\ Simple
      /\ conn \in [Conns -> ConnStates] /\ inst \in [Started -> InstStates]
  BY TypedParts
<1>2. NoDisplay \in Displays /\ NoDisplay.client = 0 /\ NoDisplay.gen = 0
  BY BoundAssumption DEF NoDisplay, Displays
<1>3. UNCHANGED <<conn, inst, inserts, clients>>
  BY DEF Stop, CloseAll, CloseTaken, budget
<1>4. CASE Stop
  <2>1. Simple'
    BY <1>1, <1>4 DEF Stop, Simple, Started, handlers, budget
  <2>2. Counted'
    BY <1>3, <1>4 DEF Stop, Counted, Switching
  <2>3. InHand'
    BY <1>3, <1>4 DEF Stop, InHand
  <2> QED BY <1>1, <1>3, <2>1, <2>2, <2>3, TypedPartsAfter DEF Started
<1>5. CASE CloseAll
  <2>1. /\ active' = NoDisplay /\ closing' = active
        /\ serverPc' = "close" /\ selected' = NoSession
        /\ UNCHANGED <<closed, cancelled, released, handlers, late, budget>>
    BY <1>5 DEF CloseAll
  <2>2. Simple'
    BY <1>1, <1>2, <1>3, <2>1 DEF Simple, Started, handlers, budget
  <2>3. Counted'
    <3>1. Switching' = Switching
      BY <1>3 DEF Switching
    <3>2. /\ Cardinality(Switching) \in Nat /\ active.gen \in Nat
          /\ inserts \in Nat /\ clients \in Nat
      BY <1>1, FS_CardinalityType DEF Counted, Simple, Displays
    <3> QED BY <1>2, <1>3, <2>1, <3>1, <3>2, BoundAssumption DEF Counted
  <2>4. InHand'
    BY <1>2, <1>3, <2>1 DEF InHand
  <2> QED BY <1>1, <1>3, <2>2, <2>3, <2>4, TypedPartsAfter DEF Started
<1>6. CASE CloseTaken
  <2>1. /\ closing' = NoDisplay /\ Dispose(closing) /\ serverPc' = "closed"
        /\ UNCHANGED <<active, selected, handlers, late, budget>>
    BY <1>6 DEF CloseTaken
  <2>2. cancelled' \subseteq Instances /\ released' \subseteq Channels /\ closed' \subseteq Channels
    BY <1>1, <2>1, DisposeTypes DEF InHand, Simple
  <2>3. Simple'
    BY <1>1, <1>2, <1>3, <2>1, <2>2 DEF Simple, Started, handlers, budget
  <2>4. Counted'
    BY <1>3, <2>1 DEF Counted, Switching
  <2>5. InHand'
    BY <1>2, <1>3, <2>1 DEF InHand
  <2> QED BY <1>1, <1>3, <2>3, <2>4, <2>5, TypedPartsAfter DEF Started
<1> QED BY <1>4, <1>5, <1>6

LEMMA InstanceInv1 ==
    ASSUME Inv1, NEW i \in Started, InstanceActions(i)
    PROVE  Inv1'
<1> USE DEF Inv1
<1>1. /\ Simple
      /\ conn \in [Conns -> ConnStates] /\ inst \in [Started -> InstStates]
  BY TypedParts
<1>2. /\ UNCHANGED <<routing, conn, inserts>>
      /\ \E s \in InstStates : s.session = inst[i].session /\ inst' = [inst EXCEPT ![i] = s]
      /\ input' \in [Channels -> Instances \cup {NoInstance}]
      /\ resync' \in [Channels -> Instances \cup {NoInstance}]
      /\ late' \in [Instances -> Nat]
      /\ frames' \in 0..MaxFrames
  BY InstanceStep
<1>3. inst' \in [Started -> InstStates] /\ Started' = Started
  BY <1>1, <1>2 DEF Started
<1>4. Simple'
  BY <1>1, <1>2, <1>3 DEF Simple, routing
<1>5. Counted' /\ InHand'
  BY <1>2 DEF Counted, Switching, InHand, routing
<1> QED BY <1>1, <1>2, <1>3, <1>4, <1>5, TypedPartsAfter

\* The steps of Next by who takes them.
LEMMA NextCases ==
    ASSUME Next
    PROVE  \/ \E c \in Conns :
                 \/ \E s \in Sessions : InfoInsert(c, s) \/ SelectDefault(c, s)
                 \/ ConnRsp(c) \/ Retire(c) \/ Switch(c) \/ ClearInput(c)
                 \/ ClearResyncAndStart(c) \/ Leave(c)
           \/ Stop \/ CloseAll \/ CloseTaken
           \/ \E i \in Started : InstanceActions(i)
BY DEF Next, Handle, InstanceActions

LEMMA StepInv1 == Inv1 /\ [Next]_vars => Inv1'
<1> SUFFICES ASSUME Inv1, [Next]_vars PROVE Inv1'
  OBVIOUS
<1>1. CASE UNCHANGED vars
  BY <1>1 DEF vars, routing, handlers, budget, Inv1, Typed, TypeOK, InHand, Counted, Switching,
              Started
<1>2. CASE Next
  BY <1>2, NextCases, HandlerInv1, ServerInv1, InstanceInv1
<1> QED BY <1>1, <1>2

\* Every variable keeps its type; in particular no more generations of a
\* channel are issued than there were card events and channels.
THEOREM TypeCorrect == Spec => []TypeOK
<1>1. Inv1 => TypeOK
  BY DEF Inv1, Typed
<1> QED BY <1>1, InitInv1, StepInv1, PTL DEF Spec

-----------------------------------------------------------------------------
\* What the steps do to the displays and the instances in hand.
LEMMA HandlerFields ==
    ASSUME Inv1, NEW c \in Conns, NEW p, NEW s, NEW o, NEW i, Becomes(c, p, s, o, i)
    PROVE  /\ conn'[c].pc = p /\ conn'[c].sel = s /\ conn'[c].old = o /\ conn'[c].inst = i
           /\ \A d \in Conns \ {c} : conn'[d] = conn[d]
BY DEF Inv1, Typed, Becomes

LEMMA StepReleases == Inv1 /\ ChannelsReleased /\ [Next]_vars => ChannelsReleased'
<1> SUFFICES ASSUME Inv1, ChannelsReleased, [Next]_vars PROVE ChannelsReleased'
  OBVIOUS
<1>1. Typed /\ Simple /\ conn \in [Conns -> ConnStates]
  BY TypedParts DEF Inv1
<1>2. ASSUME UNCHANGED <<active, clients, closed, closing>>,
             \A c \in Conns : conn'[c].old = conn[c].old
      PROVE  ChannelsReleased'
  BY <1>2 DEF ChannelsReleased
<1>3. CASE UNCHANGED vars
  BY <1>2, <1>3 DEF vars, routing
<1>4. ASSUME NEW c \in Conns, NEW s \in Sessions, InfoInsert(c, s) \/ SelectDefault(c, s)
      PROVE  ChannelsReleased'
  <2>1. conn'[c].old = conn[c].old /\ \A d \in Conns \ {c} : conn'[d] = conn[d]
    BY <1>1, <1>4, HandlerShapes, HandlerFields
  <2> QED BY <1>2, <1>4, <2>1 DEF InfoInsert, SelectDefault
<1>5. ASSUME NEW c \in Conns, ConnRsp(c) PROVE ChannelsReleased'
  <2>1. conn'[c].old = active /\ \A d \in Conns \ {c} : conn'[d] = conn[d]
    BY <1>1, <1>5, HandlerShapes, HandlerFields
  <2>2. conn[c].old.client = 0
    BY <1>5 DEF ConnRsp, Inv1, InHand, Handling, NoDisplay
  <2>3. clients' = clients + 1 /\ active'.client = clients + 1 /\ UNCHANGED <<closed, closing>>
    BY <1>5 DEF ConnRsp, NoDisplay
  <2>4. clients \in Nat
    BY <1>1, BoundAssumption DEF Simple
  <2> SUFFICES ASSUME NEW n \in 1..clients'
               PROVE  \/ n = active'.client \/ n \in closed' \/ n = closing'.client
                      \/ \E d \in Conns : conn'[d].old.client = n
    BY DEF ChannelsReleased
  <2>5. CASE n = clients + 1
    BY <2>3, <2>5
  <2>6. CASE n \in 1..clients
    <3>1. \/ n = active.client \/ n \in closed \/ n = closing.client
          \/ \E d \in Conns \ {c} : conn[d].old.client = n
      BY <2>2, <2>4, <2>6 DEF ChannelsReleased
    <3> QED BY <2>1, <2>3, <3>1
  <2> QED BY <2>3, <2>4, <2>5, <2>6
<1>6. ASSUME NEW c \in Conns, Retire(c) PROVE ChannelsReleased'
  <2>1. \A d \in Conns \ {c} : conn'[d] = conn[d]
    BY <1>1, <1>6, HandlerShapes, HandlerFields
  <2>2. /\ closed' = closed \cup ({conn[c].old.client} \ {0})
        /\ UNCHANGED <<active, clients, closing>>
    BY <1>6 DEF Retire, Dispose
  <2> QED BY <1>1, <2>1, <2>2 DEF ChannelsReleased
<1>7. ASSUME NEW c \in Conns, Switch(c) PROVE ChannelsReleased'
  <2>1. conn'[c].old = conn[c].old /\ \A d \in Conns \ {c} : conn'[d] = conn[d]
    BY <1>1, <1>7, HandlerShapes, HandlerFields
  <2>2. active'.client = active.client /\ UNCHANGED <<clients, closed, closing>>
    BY <1>1, <1>7 DEF Switch, Simple, Displays
  <2> QED BY <2>1, <2>2 DEF ChannelsReleased
<1>8. ASSUME NEW c \in Conns, ClearInput(c) \/ ClearResyncAndStart(c) \/ Leave(c)
      PROVE  ChannelsReleased'
  <2>1. conn'[c].old = conn[c].old /\ \A d \in Conns \ {c} : conn'[d] = conn[d]
    BY <1>1, <1>8, HandlerShapes, HandlerFields
  <2> QED BY <1>2, <1>8, <2>1 DEF ClearInput, ClearResyncAndStart, Leave, routing
<1>9. CASE Stop
  BY <1>2, <1>9 DEF Stop
<1>10. CASE CloseAll
  <2>1. closing.client = 0
    BY <1>10 DEF CloseAll, Inv1, InHand, NoDisplay
  <2> QED BY <1>10, <2>1 DEF CloseAll, ChannelsReleased
<1>11. CASE CloseTaken
  <2>1. /\ closed' = closed \cup ({closing.client} \ {0})
        /\ UNCHANGED <<active, clients, conn>>
    BY <1>11 DEF CloseTaken, Dispose
  <2> QED BY <2>1 DEF ChannelsReleased
<1>12. ASSUME NEW i \in Started, InstanceActions(i) PROVE ChannelsReleased'
  BY <1>1, <1>2, <1>12, InstanceStep DEF routing
<1> QED
  BY <1>3, <1>4, <1>5, <1>6, <1>7, <1>8, <1>9, <1>10, <1>11, <1>12, NextCases

\* Replacing a display, shutting down and both at once leak no channel: each is
\* the current one, closed, or in the hand of the handler that closes it.
THEOREM ChannelsReleasedCorrect == Spec => []ChannelsReleased
<1>1. Init => ChannelsReleased
  BY DEF Init, ChannelsReleased
<1> QED BY <1>1, InitInv1, StepInv1, StepReleases, PTL DEF Spec

-----------------------------------------------------------------------------
\* A switch gives the current channel to the next generation.
LEMMA SwitchEffect ==
    ASSUME Inv1, NEW c \in Conns, Switch(c), active.client # 0
    PROVE  /\ active'.client = active.client /\ active'.gen = active.gen + 1
           /\ active'.session = conn[c].sel
           /\ cancelled' = CancelledWith(active)
           /\ conn'[c].inst = <<active.client, active.gen + 1>>
           /\ conn'[c].pc = "clearInput" /\ conn'[c].sel = conn[c].sel
           /\ UNCHANGED <<clients, inst, closing, late, selected>>
<1>1. Typed /\ Simple
  BY TypedParts DEF Inv1
<1>2. Becomes(c, "clearInput", conn[c].sel, conn[c].old, <<active.client, active.gen + 1>>)
  BY <1>1, HandlerShapes
<1>3. /\ conn'[c].inst = <<active.client, active.gen + 1>>
      /\ conn'[c].pc = "clearInput" /\ conn'[c].sel = conn[c].sel
  BY <1>2, HandlerFields
<1>4. /\ active'.client = active.client /\ active'.gen = active.gen + 1
      /\ active'.session = conn[c].sel
  BY <1>1 DEF Switch, Simple, Displays
<1>5. cancelled' = CancelledWith(active) /\ UNCHANGED <<clients, inst, closing, late, selected>>
  BY DEF Switch
<1> QED BY <1>3, <1>4, <1>5

\* The current display and the number of channels change together: a new
\* channel, a new generation of the channel, or none at all.
LEMMA DisplaySteps ==
    ASSUME Inv1, [Next]_vars
    PROVE  \/ UNCHANGED <<active, clients>>
           \/ clients' = clients + 1 /\ active'.client = clients + 1 /\ active'.gen = 0
           \/ /\ clients' = clients /\ active.client # 0
              /\ active'.client = active.client /\ active'.gen = active.gen + 1
           \/ clients' = clients /\ active'.client = 0 /\ active'.gen = 0
<1>1. Typed /\ Simple
  BY TypedParts DEF Inv1
<1>2. CASE UNCHANGED vars
  BY <1>2 DEF vars, routing
<1>3. ASSUME NEW c \in Conns, ConnRsp(c)
      PROVE  clients' = clients + 1 /\ active'.client = clients + 1 /\ active'.gen = 0
  BY <1>3 DEF ConnRsp, NoDisplay
<1>4. ASSUME NEW c \in Conns, Switch(c), active.client # 0
      PROVE  clients' = clients /\ active'.client = active.client /\ active'.gen = active.gen + 1
  BY <1>1, <1>4 DEF Switch, Simple, Displays
<1>5. ASSUME NEW c \in Conns, Switch(c), active.client = 0
      PROVE  UNCHANGED <<active, clients>>
  BY <1>5 DEF Switch
<1>6. ASSUME NEW c \in Conns,
             \/ \E s \in Sessions : InfoInsert(c, s) \/ SelectDefault(c, s)
             \/ Retire(c) \/ ClearInput(c) \/ ClearResyncAndStart(c) \/ Leave(c)
      PROVE  UNCHANGED <<active, clients>>
  BY <1>6 DEF InfoInsert, SelectDefault, Retire, ClearInput, ClearResyncAndStart, Leave, routing
<1>7. CASE CloseAll
  BY <1>7 DEF CloseAll, NoDisplay
<1>8. CASE Stop \/ CloseTaken
  BY <1>8 DEF Stop, CloseTaken
<1>9. ASSUME NEW i \in Started, InstanceActions(i) PROVE UNCHANGED <<active, clients>>
  BY <1>1, <1>9, InstanceStep DEF routing
<1> QED BY <1>2, <1>3, <1>4, <1>5, <1>6, <1>7, <1>8, <1>9, NextCases

\* Behind and Replaced of the values an action gives to a variable.
BehindNext(i) == i[1] <= clients' /\ (i[1] = active'.client => i[2] <= active'.gen)
ReplacedNext(a) == a.client <= clients' /\ (a.client = active'.client => a.client = 0)

LEMMA StaysBehind ==
    ASSUME Inv1, [Next]_vars, NEW i \in Instances \cup {NoInstance}, Behind(i)
    PROVE  BehindNext(i)
<1>1. Simple
  BY TypedParts DEF Inv1
<1>2. /\ clients \in Nat /\ active.gen \in Nat /\ active.client \in Nat
      /\ i[1] \in Nat /\ i[2] \in Nat /\ (i[1] = 0 => i[2] = 0)
  BY <1>1, BoundAssumption DEF Simple, Displays, Instances, Channels, NoInstance
<1> QED BY <1>2, DisplaySteps DEF Behind, BehindNext

LEMMA StaysReplaced ==
    ASSUME Inv1, [Next]_vars, NEW a \in Displays, Replaced(a)
    PROVE  ReplacedNext(a)
<1>1. Simple
  BY TypedParts DEF Inv1
<1>2. clients \in Nat /\ active.client \in Nat /\ a.client \in Nat
  BY <1>1, BoundAssumption DEF Simple, Displays
<1> QED BY <1>2, DisplaySteps DEF Replaced, ReplacedNext

\* Owners that are superseded were issued, and are not ahead.
LEMMA OwnerBehind ==
    ASSUME Inv1, NEW a \in Displays, a = active \/ Replaced(a), a.gen # 0, a.client = 0 => a.gen = 0
    PROVE  Owner(a) \in Instances /\ Behind(Owner(a))
<1>1. Simple
  BY TypedParts DEF Inv1
<1>2. a.client \in 1..MaxClients /\ a.gen \in 1..(MaxInserts + MaxClients)
  BY BoundAssumption DEF Displays
<1>3. Owner(a) \in Instances
  BY <1>2 DEF Owner, Instances, Channels
<1>4. active.client <= clients
  BY DEF Inv1, Counted
<1> QED BY <1>2, <1>3, <1>4 DEF Owner, Behind, Replaced

LEMMA StepInv2 == Inv2 /\ [Next]_vars => Inv2'
<1> SUFFICES ASSUME Inv2, [Next]_vars PROVE Inv2'
  OBVIOUS
<1> USE DEF Inv2
<1>1. Inv1 /\ Inv1' /\ Typed /\ Simple /\ conn \in [Conns -> ConnStates]
  BY StepInv1, TypedParts DEF Inv1
<1>2. /\ \A i \in Started : i \in Instances
      /\ \A i \in cancelled : i \in Instances
      /\ \A c \in Conns : conn[c].inst \in Instances \cup {NoInstance} /\ conn[c].old \in Displays
      /\ active \in Displays /\ closing \in Displays
  BY <1>1 DEF Simple, ConnStates
<1>3. NoInstance \notin Instances
  BY DEF NoInstance, Instances, Channels
<1> DEFINE News == /\ \A i \in Started' : BehindNext(i)
                   /\ \A i \in cancelled' : BehindNext(i)
                   /\ \A c \in Conns : BehindNext(conn'[c].inst)
           Apart == /\ \A c \in Conns : conn'[c].inst \notin Started'
                    /\ \A c, d \in Conns : c # d =>
                          conn'[c].inst # conn'[d].inst \/ conn'[c].inst = NoInstance
           Olds == (\A c \in Conns : ReplacedNext(conn'[c].old)) /\ ReplacedNext(closing')
<1> SUFFICES News /\ Apart /\ Olds
  BY <1>1 DEF Issued, NoDisplayTwice, Behind, BehindNext, Replaced, ReplacedNext
<1>4. /\ \A i \in Started : BehindNext(i)
      /\ \A i \in cancelled : BehindNext(i)
      /\ \A c \in Conns : BehindNext(conn[c].inst) /\ ReplacedNext(conn[c].old)
      /\ ReplacedNext(closing)
  BY <1>1, <1>2, StaysBehind, StaysReplaced DEF Issued, NoDisplayTwice
<1>5. BehindNext(NoInstance) /\ ReplacedNext(NoDisplay)
  <2>1. clients' \in Nat /\ active'.gen \in Nat
    BY <1>1, BoundAssumption DEF Inv1, Typed, TypeOK, Displays
  <2> QED BY <2>1 DEF BehindNext, ReplacedNext, NoInstance, NoDisplay
<1>6. \A a \in {closing} \cup {conn[c].old : c \in Conns} :
         a.gen # 0 => Owner(a) \in Instances /\ BehindNext(Owner(a))
  BY <1>1, <1>2, OwnerBehind, StaysBehind DEF NoDisplayTwice, Inv1, InHand, Handling
<1>7. active.gen # 0 => Owner(active) \in Instances /\ BehindNext(Owner(active))
  BY <1>1, <1>2, OwnerBehind, StaysBehind DEF Inv1, InHand
<1>8. ASSUME UNCHANGED <<inst, cancelled, closing>>,
             \A c \in Conns : conn'[c].inst = conn[c].inst /\ conn'[c].old = conn[c].old
      PROVE  News /\ Apart /\ Olds
  BY <1>4, <1>8 DEF Issued, Started
<1>9. CASE UNCHANGED vars
  BY <1>8, <1>9 DEF vars, routing
<1>10. ASSUME NEW c \in Conns, \E s \in Sessions : InfoInsert(c, s) \/ SelectDefault(c, s)
       PROVE  News /\ Apart /\ Olds
  <2>1. /\ conn'[c].inst = conn[c].inst /\ conn'[c].old = conn[c].old
        /\ \A d \in Conns \ {c} : conn'[d] = conn[d]
    BY <1>1, <1>10, HandlerShapes, HandlerFields
  <2>2. UNCHANGED <<inst, cancelled, closing>>
    BY <1>10 DEF InfoInsert, SelectDefault
  <2> QED BY <1>8, <2>1, <2>2
<1>11. ASSUME NEW c \in Conns, ConnRsp(c) PROVE News /\ Apart /\ Olds
  <2>1. /\ conn'[c].inst = NoInstance /\ conn'[c].old = active
        /\ \A d \in Conns \ {c} : conn'[d] = conn[d]
    BY <1>1, <1>11, HandlerShapes, HandlerFields
  <2>2. UNCHANGED <<inst, cancelled, closing>>
    BY <1>11 DEF ConnRsp
  <2>3. ReplacedNext(active)
    <3>1. clients' = clients + 1 /\ active'.client = clients + 1
      BY <1>11 DEF ConnRsp, NoDisplay
    <3>2. active.client \in Nat /\ clients \in Nat /\ active.client <= clients
      BY <1>1, BoundAssumption DEF Simple, Displays, Inv1, Counted
    <3> QED BY <3>1, <3>2 DEF ReplacedNext
  <2> QED BY <1>2, <1>3, <1>4, <1>5, <2>1, <2>2, <2>3 DEF Issued, Started
<1>12. ASSUME NEW c \in Conns, Retire(c) PROVE News /\ Apart /\ Olds
  <2>1. /\ conn'[c].inst = conn[c].inst /\ conn'[c].old = NoDisplay
        /\ \A d \in Conns \ {c} : conn'[d] = conn[d]
    BY <1>1, <1>12, HandlerShapes, HandlerFields
  <2>2. UNCHANGED <<inst, closing>> /\ cancelled' = CancelledWith(conn[c].old)
    BY <1>12 DEF Retire, Dispose
  <2>3. \A i \in cancelled' : BehindNext(i)
    BY <1>4, <1>6, <2>2 DEF CancelledWith
  <2> QED BY <1>4, <1>5, <2>1, <2>2, <2>3 DEF Issued, Started
<1>13. ASSUME NEW c \in Conns, Switch(c) PROVE News /\ Apart /\ Olds
  <2>1. conn'[c].old = conn[c].old /\ \A d \in Conns \ {c} : conn'[d] = conn[d]
    BY <1>1, <1>13, HandlerShapes, HandlerFields
  <2>2. UNCHANGED <<inst, closing>>
    BY <1>13 DEF Switch
  <2>3. CASE active.client = 0
    <3>1. cancelled' = cancelled /\ conn'[c].inst = conn[c].inst
      BY <1>1, <1>13, <2>3, HandlerShapes, HandlerFields DEF Switch
    <3> QED BY <1>8, <2>1, <2>2, <3>1
  <2>4. CASE active.client # 0
    <3> DEFINE new == <<active.client, active.gen + 1>>
    <3>1. cancelled' = CancelledWith(active) /\ conn'[c].inst = new
      BY <1>1, <1>13, <2>4, SwitchEffect
    <3>2. ~Behind(new) /\ BehindNext(new)
      <4>1. /\ active.gen \in Nat /\ active.client <= clients /\ clients' = clients
            /\ active'.client = active.client /\ active'.gen = active.gen + 1
        BY <1>1, <1>13, <2>4, SwitchEffect, BoundAssumption DEF Simple, Displays, Inv1, Counted
      <4> QED BY <4>1 DEF Behind, BehindNext
    <3> HIDE DEF new
    <3>3. \A i \in cancelled' : BehindNext(i)
      BY <1>4, <1>7, <3>1 DEF CancelledWith
    <3>4. new \notin Started /\ \A d \in Conns : conn[d].inst # new
      BY <3>2 DEF Issued
    <3> QED BY <1>4, <2>1, <2>2, <3>1, <3>2, <3>3, <3>4 DEF Issued, Started
  <2> QED BY <2>3, <2>4
<1>14. ASSUME NEW c \in Conns, ClearInput(c) \/ Leave(c) PROVE News /\ Apart /\ Olds
  <2>1. /\ conn'[c].inst = conn[c].inst /\ conn'[c].old = conn[c].old
        /\ \A d \in Conns \ {c} : conn'[d] = conn[d]
    BY <1>1, <1>14, HandlerShapes, HandlerFields
  <2>2. UNCHANGED <<inst, cancelled, closing>>
    BY <1>14 DEF ClearInput, Leave, routing
  <2> QED BY <1>8, <2>1, <2>2
<1>15. ASSUME NEW c \in Conns, ClearResyncAndStart(c) PROVE News /\ Apart /\ Olds
  <2>1. /\ conn'[c].inst = NoInstance /\ conn'[c].old = conn[c].old
        /\ \A d \in Conns \ {c} : conn'[d] = conn[d]
    BY <1>1, <1>15, HandlerShapes, HandlerFields
  <2>2. UNCHANGED <<cancelled, closing>> /\ Started' = Started \cup {conn[c].inst}
    BY <1>15 DEF ClearResyncAndStart, routing, Started
  <2>3. conn[c].inst # NoInstance
    BY <1>15 DEF ClearResyncAndStart, Inv1, InHand, Handling
  <2>4. NoInstance \notin Started'
    BY <1>2, <1>3, <2>2, <2>3
  <2>5. \A d \in Conns \ {c} : conn[d].inst # conn[c].inst
    BY <2>3 DEF Issued
  <2> QED BY <1>4, <1>5, <2>1, <2>2, <2>4, <2>5 DEF Issued
<1>16. CASE Stop
  BY <1>8, <1>16 DEF Stop
<1>17. CASE CloseAll
  <2>1. UNCHANGED <<inst, cancelled, conn>> /\ closing' = active
    BY <1>17 DEF CloseAll
  <2>2. ReplacedNext(active)
    <3>1. clients' = clients /\ active'.client = 0
      BY <1>17 DEF CloseAll, NoDisplay
    <3> QED BY <3>1 DEF ReplacedNext, Inv1, Counted
  <2> QED BY <1>4, <2>1, <2>2 DEF Issued, Started
<1>18. CASE CloseTaken
  <2>1. UNCHANGED <<inst, conn>> /\ closing' = NoDisplay /\ cancelled' = CancelledWith(closing)
    BY <1>18 DEF CloseTaken, Dispose
  <2>2. \A i \in cancelled' : BehindNext(i)
    BY <1>4, <1>6, <2>1 DEF CancelledWith
  <2> QED BY <1>4, <1>5, <2>1, <2>2 DEF Issued, Started
<1>19. ASSUME NEW i \in Started, InstanceActions(i) PROVE News /\ Apart /\ Olds
  <2>1. UNCHANGED <<routing, conn>> /\ Started' = Started
    BY <1>1, <1>19, InstanceStep DEF Started
  <2> QED BY <1>4, <2>1 DEF Issued, routing
<1> QED
  BY <1>9, <1>10, <1>11, <1>12, <1>13, <1>14, <1>15, <1>16, <1>17, <1>18, <1>19, NextCases

LEMMA InitInv2 == Init => Inv2
<1> SUFFICES ASSUME Init PROVE Inv2
  OBVIOUS
<1>1. Inv1
  BY InitInv1
<1>2. Issued
  BY BoundAssumption DEF Init, Issued, Behind, NoInstance, NoDisplay, Started
<1>3. NoDisplayTwice
  BY DEF Init, NoDisplayTwice, Replaced, NoDisplay
<1> QED BY <1>1, <1>2, <1>3 DEF Inv2

-----------------------------------------------------------------------------
\* The refinement of DisplayOwner.
OwnerBar == IF active.gen = 0 THEN NoInstance ELSE Owner(active)

LEMMA DisposedMembers ==
    /\ \A i : i \in Disposed <=>
          /\ i[2] > 0
          /\ i \in cancelled \/ i = Owner(closing) \/ \E c \in Conns : i = Owner(conn[c].old)
    /\ \A i : i \in Disposed' <=>
          /\ i[2] > 0
          /\ i \in cancelled' \/ i = Owner(closing') \/ \E c \in Conns : i = Owner(conn'[c].old)
BY DEF Disposed, Owner

\* Every step hands the screen over, gives it up, or leaves it alone.
LEMMA OwnerSteps ==
    ASSUME Inv2, [Next]_vars
    PROVE  \/ OwnerBar' = OwnerBar /\ Disposed' = Disposed
           \/ /\ OwnerBar # NoInstance /\ OwnerBar' = NoInstance
              /\ Disposed' = Disposed \cup {OwnerBar}
           \/ /\ OwnerBar' \in Instances
              /\ OwnerBar' \notin Disposed \cup {OwnerBar}
              /\ Disposed' = IF OwnerBar = NoInstance THEN Disposed ELSE Disposed \cup {OwnerBar}
<1> USE DEF Inv2
<1>1. Inv1 /\ Inv1' /\ Typed /\ Simple /\ conn \in [Conns -> ConnStates]
  BY StepInv1, TypedParts DEF Inv1
<1>2. \A a \in Displays : a.gen \in Nat /\ Owner(a)[2] = a.gen
  BY DEF Displays, Owner
<1>3. active \in Displays /\ closing \in Displays /\ \A c \in Conns : conn[c].old \in Displays
  BY <1>1 DEF Simple, ConnStates
<1>4. OwnerBar # NoInstance <=> active.gen > 0
  BY <1>2, <1>3 DEF OwnerBar, NoInstance, Owner
<1>5. Owner(NoDisplay)[2] = 0
  BY DEF Owner, NoDisplay
<1> DEFINE Same == OwnerBar' = OwnerBar /\ Disposed' = Disposed
           Released == /\ OwnerBar # NoInstance /\ OwnerBar' = NoInstance
                       /\ Disposed' = Disposed \cup {OwnerBar}
<1>6. ASSUME UNCHANGED <<active, cancelled, closing>>, \A c \in Conns : conn'[c].old = conn[c].old
      PROVE  Same
  BY <1>6, DisposedMembers DEF OwnerBar, Owner
<1>7. CASE UNCHANGED vars
  BY <1>6, <1>7 DEF vars, routing
<1>8. ASSUME NEW c \in Conns,
             \/ \E s \in Sessions : InfoInsert(c, s) \/ SelectDefault(c, s)
             \/ ClearInput(c) \/ ClearResyncAndStart(c) \/ Leave(c)
             \/ Switch(c) /\ active.client = 0
      PROVE  Same
  <2>1. conn'[c].old = conn[c].old /\ \A d \in Conns \ {c} : conn'[d] = conn[d]
    BY <1>1, <1>8, HandlerShapes, HandlerFields
  <2>2. UNCHANGED <<active, cancelled, closing>>
    BY <1>8 DEF InfoInsert, SelectDefault, ClearInput, ClearResyncAndStart, Leave, Switch, routing
  <2> QED BY <1>6, <2>1, <2>2
<1>9. ASSUME NEW c \in Conns, ConnRsp(c) PROVE Same \/ Released
  <2>1. conn'[c].old = active /\ \A d \in Conns \ {c} : conn'[d] = conn[d]
    BY <1>1, <1>9, HandlerShapes, HandlerFields
  <2>2. conn[c].old = NoDisplay
    BY <1>9 DEF ConnRsp, Inv1, InHand, Handling
  <2>3. OwnerBar' = NoInstance /\ UNCHANGED <<cancelled, closing>>
    BY <1>9 DEF ConnRsp, OwnerBar, NoDisplay
  <2>4. \A i : i \in Disposed' <=> i \in Disposed \/ (i = Owner(active) /\ i[2] > 0)
    BY <1>5, <2>1, <2>2, <2>3, DisposedMembers
  <2>5. CASE active.gen = 0
    <3>1. Owner(active)[2] = 0
      BY <1>2, <1>3, <2>5
    <3>2. \A i : i = Owner(active) => ~(i[2] > 0)
      BY <3>1
    <3>3. \A i : i \in Disposed' <=> i \in Disposed
      BY <2>4, <3>2
    <3> QED BY <2>3, <2>5, <3>3 DEF OwnerBar
  <2>6. CASE active.gen > 0
    BY <1>2, <1>3, <1>4, <2>3, <2>4, <2>6 DEF OwnerBar
  <2> QED BY <1>2, <1>3, <2>5, <2>6
<1>10. ASSUME NEW c \in Conns, Retire(c) PROVE Same
  <2>1. conn'[c].old = NoDisplay /\ \A d \in Conns \ {c} : conn'[d] = conn[d]
    BY <1>1, <1>10, HandlerShapes, HandlerFields
  <2>2. UNCHANGED <<active, closing>> /\ cancelled' = CancelledWith(conn[c].old)
    BY <1>10 DEF Retire, Dispose
  <2>3. \A i : i[2] > 0 => (i \in cancelled' <=> i \in cancelled \/ i = Owner(conn[c].old))
    BY <1>2, <1>3, <2>2 DEF CancelledWith
  <2>4. \A i : i \in Disposed' <=> i \in Disposed
    BY <1>5, <2>1, <2>2, <2>3, DisposedMembers
  <2> QED BY <2>2, <2>4 DEF OwnerBar, Owner
<1>11. ASSUME NEW c \in Conns, Switch(c), active.client # 0
       PROVE  /\ OwnerBar' \in Instances
              /\ OwnerBar' \notin Disposed \cup {OwnerBar}
              /\ Disposed' = IF OwnerBar = NoInstance THEN Disposed ELSE Disposed \cup {OwnerBar}
  <2> DEFINE new == <<active.client, active.gen + 1>>
  <2>1. /\ active'.client = active.client /\ active'.gen = active.gen + 1
        /\ cancelled' = CancelledWith(active) /\ conn'[c].inst = new
        /\ conn'[c].pc = "clearInput" /\ closing' = closing
    BY <1>11, SwitchEffect
  <2>2. conn'[c].old = conn[c].old /\ \A d \in Conns \ {c} : conn'[d] = conn[d]
    BY <1>1, <1>11, HandlerShapes, HandlerFields
  <2>3. OwnerBar' = new
    BY <1>2, <1>3, <2>1 DEF OwnerBar, Owner
  <2>4. new \in Instances
    <3>1. conn' \in [Conns -> ConnStates]
      BY <1>1 DEF Inv1, Typed, ConnStates, Displays, Instances, Channels
    <3>2. conn'[c].inst # NoInstance
      BY <1>1, <2>1 DEF Inv1, InHand, Handling
    <3> QED BY <2>1, <3>1, <3>2 DEF ConnStates
  <2>5. ~Behind(new)
    BY <1>2, <1>3 DEF Behind
  <2>6. OwnerBar # new
    BY <1>2, <1>3 DEF OwnerBar, Owner, NoInstance
  <2>7. \A i \in Disposed : Behind(i)
    <3>1. \A a \in {closing} \cup {conn[d].old : d \in Conns} : a.gen # 0 => Behind(Owner(a))
      BY <1>3, OwnerBehind DEF NoDisplayTwice, Inv1, InHand, Handling
    <3> QED BY <1>2, <1>3, <3>1, DisposedMembers DEF Issued
  <2>8. \A i : i[2] > 0 => (i \in cancelled' <=> i \in cancelled \/ i = Owner(active))
    BY <1>2, <1>3, <2>1 DEF CancelledWith
  <2>9. \A i : i \in Disposed' <=> i \in Disposed \/ (i = Owner(active) /\ i[2] > 0)
    BY <2>1, <2>2, <2>8, DisposedMembers
  <2>10. CASE active.gen = 0
    <3>1. Owner(active)[2] = 0 /\ OwnerBar = NoInstance
      BY <1>2, <1>3, <2>10 DEF OwnerBar
    <3>2. \A i : i = Owner(active) => ~(i[2] > 0)
      BY <3>1
    <3>3. \A i : i \in Disposed' <=> i \in Disposed
      BY <2>9, <3>2
    <3>4. Disposed' = Disposed
      BY <3>3
    <3> HIDE DEF new
    <3> QED BY <2>3, <2>4, <2>5, <2>6, <2>7, <3>1, <3>4
  <2>11. CASE active.gen > 0
    <3>1. OwnerBar = Owner(active) /\ OwnerBar # NoInstance
      BY <1>3, <1>4, <2>11 DEF OwnerBar
    <3>2. Disposed' = Disposed \cup {OwnerBar}
      BY <1>2, <1>3, <2>9, <2>11, <3>1
    <3> HIDE DEF new
    <3> QED BY <2>3, <2>4, <2>5, <2>6, <2>7, <3>1, <3>2
  <2> QED BY <1>2, <1>3, <2>10, <2>11
<1>12. CASE Stop
  BY <1>6, <1>12 DEF Stop
<1>13. CASE CloseAll
  <2>1. /\ UNCHANGED <<cancelled, conn>> /\ closing' = active /\ closing = NoDisplay
        /\ OwnerBar' = NoInstance
    BY <1>13 DEF CloseAll, OwnerBar, NoDisplay, Inv1, InHand
  <2>2. \A i : i \in Disposed' <=> i \in Disposed \/ (i = Owner(active) /\ i[2] > 0)
    BY <1>5, <2>1, DisposedMembers
  <2>3. CASE active.gen = 0
    BY <1>2, <1>3, <2>1, <2>2, <2>3 DEF OwnerBar
  <2>4. CASE active.gen > 0
    BY <1>2, <1>3, <1>4, <2>1, <2>2, <2>4 DEF OwnerBar
  <2> QED BY <1>2, <1>3, <2>3, <2>4
<1>14. CASE CloseTaken
  <2>1. /\ UNCHANGED <<active, conn>> /\ closing' = NoDisplay
        /\ cancelled' = CancelledWith(closing)
    BY <1>14 DEF CloseTaken, Dispose
  <2>2. \A i : i[2] > 0 => (i \in cancelled' <=> i \in cancelled \/ i = Owner(closing))
    BY <1>2, <1>3, <2>1 DEF CancelledWith
  <2>3. \A i : i \in Disposed' <=> i \in Disposed
    BY <1>5, <2>1, <2>2, DisposedMembers
  <2> QED BY <2>1, <2>3 DEF OwnerBar, Owner
<1>15. ASSUME NEW i \in Started, InstanceActions(i) PROVE Same
  BY <1>1, <1>6, <1>15, InstanceStep DEF routing
<1> QED
  BY <1>7, <1>8, <1>9, <1>10, <1>11, <1>12, <1>13, <1>14, <1>15, NextCases

\* What the connections, the shutdown and the session instances do implements
\* DisplayOwner: the screen has one owner at most, and an owner that was
\* superseded or whose display was replaced never owns it again.
THEOREM OwnerRefinement == Spec => OwnerSpec
<1>1. Init => Display!Init
  <2> SUFFICES ASSUME Init PROVE Display!Init
    OBVIOUS
  <2>1. \A i : i \notin Disposed
    BY DisposedMembers DEF Init, NoDisplay, Owner
  <2> QED BY <2>1 DEF Init, Display!Init, NoDisplay
<1>2. Inv2 /\ [Next]_vars =>
         [Display!Next]_<<IF active.gen = 0 THEN NoInstance ELSE Owner(active), Disposed>>
  BY OwnerSteps DEF OwnerBar, Display!Next, Display!Release, Display!Acquire, Display!Retired
<1> QED BY <1>1, <1>2, InitInv2, StepInv2, PTL DEF Spec, OwnerSpec, Display!Spec

-----------------------------------------------------------------------------
\* Late drawing.

\* An instance that was issued and is superseded never becomes current again.
LEMMA CurrentWasCurrent ==
    ASSUME Inv1, [Next]_vars, NEW i \in Instances, Behind(i),
           active'.client = i[1], active'.gen = i[2]
    PROVE  IsCurrent(i)
<1>1. Simple
  BY TypedParts DEF Inv1
<1>2. clients \in Nat /\ active.gen \in Nat /\ i[1] \in Nat /\ i[2] \in Nat /\ i[1] # 0 /\ i[2] # 0
  BY <1>1, BoundAssumption DEF Simple, Displays, Instances, Channels
<1> QED BY <1>2, DisplaySteps DEF Behind, IsCurrent

\* An instance keeps count of its own drawing.
LEMMA InstanceOnTime ==
    ASSUME Typed, NEW i \in Started, OnTime(inst[i], late[i], IsCurrent(i)), InstanceActions(i)
    PROVE  /\ OnTime(inst'[i], late'[i], IsCurrent(i))
           /\ \A j \in Instances \ {i} : late'[j] = late[j]
           /\ Started' = Started /\ \A j \in Started \ {i} : inst'[j] = inst[j]
<1>1. i \in Instances /\ inst \in [Started -> InstStates] /\ inst[i] \in InstStates
  BY DEF Typed, TypeOK
<1>2. late \in [Instances -> Nat] /\ late[i] \in Nat
  BY <1>1 DEF Typed, TypeOK
<1>3. IsCurrent(i) <=> i = Owner(active)
  BY <1>1 DEF IsCurrent, Owner, Instances
<1>4. Started' = Started /\ (\A j \in Started \ {i} : inst'[j] = inst[j])
      /\ inst'[i].session = inst[i].session
  BY <1>1, InstanceStep DEF Started
<1>5. ASSUME Drawn(i)
      PROVE  /\ late'[i] \in Nat /\ late'[i] <= late[i] + 1
             /\ IsCurrent(i) => late'[i] = late[i]
             /\ \A j \in Instances \ {i} : late'[j] = late[j]
  BY <1>1, <1>2, <1>3, <1>5 DEF Drawn
<1>6. ASSUME UNCHANGED late, inst'[i].pc \notin {"check", "screen", "failed", "failure"},
             inst'[i].frame = inst[i].frame \/ inst'[i].frame # "draw"
      PROVE  OnTime(inst'[i], late'[i], IsCurrent(i))
  BY <1>2, <1>4, <1>6 DEF OnTime, Going
<1>7. AfterScreen(i) \in {"done", "setInput", "setResync"}
  BY DEF AfterScreen
<1>8. ASSUME NEW pc, Go(i, pc) PROVE inst'[i].pc = pc /\ inst'[i].frame = inst[i].frame
  BY <1>1, <1>8 DEF Go, InstStates
<1>9. CASE CheckScreen(i)
  <2>1. inst[i].pc = "check" /\ inst'[i].frame = inst[i].frame /\ late' = late
    BY <1>8, <1>9 DEF CheckScreen, Check
  <2>2. inst'[i].pc = IF IsCurrent(i) THEN "screen" ELSE AfterScreen(i)
    BY <1>8, <1>9 DEF CheckScreen, Check
  <2> QED BY <1>2, <1>4, <1>6, <1>7, <2>1, <2>2 DEF OnTime, Going
<1>10. CASE CheckFailure(i)
  <2>1. inst[i].pc = "failed" /\ inst'[i].frame = inst[i].frame /\ late' = late
    BY <1>8, <1>10 DEF CheckFailure, Check
  <2>2. inst'[i].pc = IF IsCurrent(i) THEN "failure" ELSE "done"
    BY <1>8, <1>10 DEF CheckFailure, Check
  <2> QED BY <1>2, <1>4, <1>6, <2>1, <2>2 DEF OnTime, Going
<1>11. CASE DrawScreen(i) \/ DrawFailure(i)
  <2>1. /\ Drawn(i) /\ inst[i].pc \in {"screen", "failure"}
        /\ inst'[i].pc \in {"done", "setInput", "setResync"} /\ inst'[i].frame = inst[i].frame
    BY <1>7, <1>8, <1>11 DEF DrawScreen, DrawFailure, Draw
  <2> QED BY <1>2, <1>4, <1>5, <2>1 DEF OnTime, Going
<1>12. CASE FrameDraw(i)
  <2>1. /\ Drawn(i) /\ inst[i].frame = "draw"
        /\ inst'[i].pc = inst[i].pc /\ inst'[i].frame = "idle"
    BY <1>1, <1>12 DEF FrameDraw, InstStates
  <2> QED BY <1>2, <1>4, <1>5, <2>1 DEF OnTime, Going
<1>13. CASE FrameCheck(i)
  <2>1. /\ inst[i].frame = "idle" /\ inst'[i].pc = inst[i].pc /\ late' = late
        /\ inst'[i].frame = IF IsCurrent(i) THEN "draw" ELSE "idle"
    BY <1>1, <1>13 DEF FrameCheck, InstStates
  <2> QED BY <1>2, <1>4, <2>1 DEF OnTime, Going
<1>14. CASE SetResync(i) \/ RunCancelled(i) \/ NoPassword(i)
  <2>1. /\ inst'[i].pc \in {"setInput", "done"} /\ inst'[i].frame = inst[i].frame /\ late' = late
    BY <1>8, <1>14 DEF SetResync, RunCancelled, NoPassword
  <2> QED BY <1>4, <1>6, <2>1
<1>15. CASE SetInput(i) \/ RunEnds(i)
  <2>1. /\ inst'[i].pc \in {"serve", "done"} /\ inst'[i].frame # "draw" /\ late' = late
    BY <1>1, <1>15 DEF SetInput, RunEnds, InstStates
  <2> QED BY <1>4, <1>6, <2>1
<1>16. CASE RunFails(i)
  <2>1. /\ inst[i].pc = "serve" /\ Kind[inst[i].session] = "helper" /\ late' = late
        /\ inst'[i].pc = "failed" /\ inst'[i].frame = inst[i].frame
    BY <1>8, <1>16 DEF RunFails, KindOf
  <2> QED BY <1>2, <1>4, <2>1 DEF OnTime, Going
<1> QED
  BY <1>9, <1>10, <1>11, <1>12, <1>13, <1>14, <1>15, <1>16, <1>4 DEF InstanceActions, Run

LEMMA StepLate == Inv2 /\ LateCounted /\ [Next]_vars => LateCounted'
<1> SUFFICES ASSUME Inv2, LateCounted, [Next]_vars PROVE LateCounted'
  OBVIOUS
<1>1. Inv1 /\ Typed /\ Simple /\ conn \in [Conns -> ConnStates] /\ inst \in [Started -> InstStates]
  BY TypedParts DEF Inv2, Inv1
<1>2. Started \subseteq Instances /\ \A i \in Started : Behind(i)
  BY <1>1 DEF Simple, Inv2, Issued
<1> DEFINE CurrentNext(i) == active'.client = i[1] /\ active'.gen = i[2]
<1>3. \A i \in Started : CurrentNext(i) => IsCurrent(i)
  BY <1>1, <1>2, CurrentWasCurrent
<1>4. SUFFICES /\ \A i \in Instances \ Started' : late'[i] = 0
               /\ \A i \in Started' : OnTime(inst'[i], late'[i], CurrentNext(i))
  BY DEF LateCounted, IsCurrent, Instances, Channels
<1>5. \A i \in Started : \A n : OnTime(inst'[i], n, IsCurrent(i)) => OnTime(inst'[i], n, CurrentNext(i))
  BY <1>3 DEF OnTime
<1> HIDE DEF CurrentNext
<1>6. CASE UNCHANGED <<inst, late>>
  BY <1>5, <1>6 DEF LateCounted, Started
<1>7. ASSUME NEW c \in Conns, ClearResyncAndStart(c)
      PROVE  /\ \A i \in Instances \ Started' : late'[i] = 0
             /\ \A i \in Started' : OnTime(inst'[i], late'[i], CurrentNext(i))
  <2> DEFINE new == conn[c].inst
             first == [session |-> conn[c].sel, pc |-> FirstPc(conn[c].sel), frame |-> "off"]
  <2>1. new \in Instances \ Started
    BY <1>1, <1>7 DEF ClearResyncAndStart, Inv1, InHand, Handling, Inv2, Issued, ConnStates
  <2>2. /\ Started' = Started \cup {new} /\ late' = late
        /\ inst' = [i \in Started \cup {new} |-> IF i = new THEN first ELSE inst[i]]
    BY <1>7 DEF ClearResyncAndStart, Started
  <2>3. OnTime(first, 0, CurrentNext(new))
    BY DEF OnTime, Going, FirstPc
  <2>4. late'[new] = 0 /\ inst'[new] = first
    BY <2>1, <2>2 DEF LateCounted
  <2>5. \A i \in Started : inst'[i] = inst[i]
    BY <2>1, <2>2
  <2> HIDE DEF new, first
  <2> QED BY <1>5, <2>1, <2>2, <2>3, <2>4, <2>5 DEF LateCounted
<1>8. ASSUME NEW i \in Started, InstanceActions(i)
      PROVE  /\ \A j \in Instances \ Started' : late'[j] = 0
             /\ \A j \in Started' : OnTime(inst'[j], late'[j], CurrentNext(j))
  <2>1. /\ OnTime(inst'[i], late'[i], IsCurrent(i))
        /\ \A j \in Instances \ {i} : late'[j] = late[j]
        /\ Started' = Started /\ \A j \in Started \ {i} : inst'[j] = inst[j]
    BY <1>1, <1>8, InstanceOnTime DEF LateCounted
  <2> QED BY <1>2, <1>5, <2>1 DEF LateCounted
<1>9. ASSUME NEW c \in Conns,
             \/ \E s \in Sessions : InfoInsert(c, s) \/ SelectDefault(c, s)
             \/ ConnRsp(c) \/ Retire(c) \/ Switch(c) \/ ClearInput(c) \/ Leave(c)
      PROVE  UNCHANGED <<inst, late>>
  BY <1>9 DEF InfoInsert, SelectDefault, ConnRsp, Retire, Switch, ClearInput, Leave
<1>10. CASE UNCHANGED vars \/ Stop \/ CloseAll \/ CloseTaken
  BY <1>6, <1>10 DEF vars, Stop, CloseAll, CloseTaken
<1> QED BY <1>6, <1>7, <1>8, <1>9, <1>10, NextCases

\* An instance draws over its successor at most once for each of its goroutines
\* that was between the check of isCurrentSession and the drawing when it was
\* superseded: one, and one more for the error screen of rdp and web.
THEOREM LateDrawsBoundedCorrect == Spec => []LateDrawsBounded
<1>1. Init => LateCounted
  BY DEF Init, LateCounted, Started
<1>2. Inv2 /\ LateCounted => LateDrawsBounded
  <2>1. ASSUME Inv2 PROVE \A i \in Started : late[i] \in Nat
    BY <2>1 DEF Inv2, Inv1, Typed, TypeOK
  <2> QED BY <2>1 DEF LateCounted, OnTime, Going, LateDrawsBounded, KindOf
<1> QED BY <1>1, <1>2, InitInv2, StepInv2, StepLate, PTL DEF Spec

-----------------------------------------------------------------------------
\* The selected session, when the terminal has one connection.
LEMMA StepSelecting ==
    ASSUME NEW c, Conns = {c}, Inv1, Selecting, [Next]_vars
    PROVE  Selecting'
<1>1. Typed /\ Simple /\ conn \in [Conns -> ConnStates] /\ c \in Conns
  BY TypedParts DEF Inv1
<1> DEFINE After == active'.client # 0 =>
                       CASE conn'[c].pc \in {"retire", "switch"} -> conn'[c].sel = selected'
                         [] conn'[c].pc = "default" -> TRUE
                         [] OTHER -> active'.session = selected'
<1>2. SUFFICES After
  BY DEF Selecting
<1>3. AfterMessage \in {"read", "exit"}
  BY DEF AfterMessage
<1>4. ASSUME UNCHANGED <<active, selected, conn>> PROVE After
  BY <1>1, <1>4 DEF Selecting
<1>5. ASSUME NEW s \in Sessions, InfoInsert(c, s) PROVE After
  <2>1. /\ conn'[c].pc = IF NeedsSwitch(s) THEN "switch" ELSE AfterMessage
        /\ conn'[c].sel = s /\ selected' = s /\ active' = active
    <3>1. Becomes(c, IF NeedsSwitch(s) THEN "switch" ELSE AfterMessage, s, conn[c].old, conn[c].inst)
      BY <1>1, <1>5, HandlerShapes
    <3> QED BY <1>1, <1>5, <3>1, HandlerFields DEF InfoInsert
  <2> QED BY <1>3, <2>1 DEF NeedsSwitch
<1>6. CASE ConnRsp(c)
  <2>1. conn'[c].pc = "retire" /\ conn'[c].sel = selected /\ selected' = selected
    BY <1>1, <1>6, HandlerShapes, HandlerFields DEF ConnRsp
  <2> QED BY <2>1
<1>7. CASE Retire(c)
  <2>1. /\ conn[c].pc = "retire"
        /\ conn'[c].pc = IF conn[c].sel = NoSession THEN "default" ELSE "switch"
        /\ conn'[c].sel = conn[c].sel /\ UNCHANGED <<active, selected>>
    BY <1>1, <1>7, HandlerShapes, HandlerFields DEF Retire
  <2> QED BY <1>1, <2>1 DEF Selecting
<1>8. ASSUME NEW s \in Sessions, SelectDefault(c, s) PROVE After
  <2>1. conn'[c].pc = "switch" /\ conn'[c].sel = s /\ selected' = s
    <3>1. Becomes(c, "switch", s, conn[c].old, conn[c].inst)
      BY <1>1, <1>8, HandlerShapes
    <3> QED BY <1>1, <1>8, <3>1, HandlerFields DEF SelectDefault
  <2> QED BY <2>1
<1>9. CASE Switch(c)
  <2>1. CASE active.client = 0
    BY <1>9, <2>1 DEF Switch
  <2>2. CASE active.client # 0
    <3>1. /\ conn'[c].pc = "clearInput" /\ active'.session = conn[c].sel
          /\ selected' = selected /\ conn[c].pc = "switch"
      BY <1>1, <1>9, <2>2, SwitchEffect DEF Switch
    <3> QED BY <1>1, <2>2, <3>1 DEF Selecting
  <2> QED BY <2>1, <2>2
<1>10. CASE ClearInput(c) \/ ClearResyncAndStart(c) \/ Leave(c)
  <2>1. /\ conn[c].pc \in {"clearInput", "clearResync", "read"}
        /\ conn'[c].pc \in {"clearResync", "read", "exit"} /\ UNCHANGED <<active, selected>>
    BY <1>1, <1>3, <1>10, HandlerShapes, HandlerFields
       DEF ClearInput, ClearResyncAndStart, Leave, routing
  <2> QED BY <1>1, <2>1 DEF Selecting
<1>11. CASE CloseAll
  BY <1>11 DEF CloseAll, NoDisplay
<1>12. CASE UNCHANGED vars \/ Stop \/ CloseTaken
  BY <1>4, <1>12 DEF vars, routing, Stop, CloseTaken
<1>13. ASSUME NEW i \in Started, InstanceActions(i) PROVE After
  BY <1>1, <1>4, <1>13, InstanceStep DEF routing
<1> QED
  BY <1>4, <1>5, <1>6, <1>7, <1>8, <1>9, <1>10, <1>11, <1>12, <1>13, NextCases

\* As long as the terminal has one connection, the session it shows between two
\* messages is the one the latest card event or the default route selected.
THEOREM SelectionShownCorrect ==
    ASSUME NEW c, Conns = {c}
    PROVE  Spec => []SelectionShown
<1>1. Init => Selecting
  BY DEF Init, Selecting, NoDisplay
<1>2. Inv1 /\ Selecting /\ [Next]_vars => Selecting'
  BY StepSelecting
<1>3. Selecting => SelectionShown
  BY DEF Selecting, SelectionShown
<1> QED BY <1>1, <1>2, <1>3, InitInv1, StepInv1, PTL DEF Spec
=============================================================================
