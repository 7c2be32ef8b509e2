------------------------ MODULE RemoteDesktopProofs ------------------------
(***************************************************************************)
(* An RDP or web session and the RFB connection behind it.  An error       *)
(* screen is never the consequence of our own cancelling; and client and   *)
(* server of one RFB connection are always in one of a few situations:     *)
(* where each of them is decides what is on the way in both directions.    *)
(***************************************************************************)
EXTENDS HelperStack, RFBHandshake, SequenceTheorems, TLAPS

-----------------------------------------------------------------------------
(* HelperStack *)

\* Before its context ends Run has not cancelled anything, so whatever exited
\* or failed did so on its own.
Unprovoked ==
    /\ stopped => pc \in {"returned", "failure", "done"}
    /\ ~RunCtxDone => /\ exits # <<>> => fault
                      /\ \A h \in Helpers : proc[h] = "exited" => fault
    /\ line = "junk" => fault
    /\ err /\ ctx = "live" => fault

IInv == TypeOK /\ Unprovoked /\ FailureIsReal

LEMMA StartStep ==
    ASSUME IInv, NEW h \in Helpers, NEW at \in {"xvfb", "x11vnc", "app"},
           NEW next \in {"display", "app", "bridge"}, Start(h, at, next)
    PROVE  IInv'
<1>1. UNCHANGED <<ctx, stopped, isCurrent, exits, line, bridge, frames, screen>>
  BY DEF Start, context, output
<1>2. ~stopped
  BY DEF IInv, Unprovoked, Start
<1>3. CASE /\ ~RunCtxDone
           /\ proc' = [proc EXCEPT ![h] = "alive"]
           /\ Go(next)
           /\ UNCHANGED <<err, fault>>
  <2>1. TypeOK'
    BY <1>1, <1>3 DEF IInv, TypeOK, Go
  <2>2. Unprovoked'
    BY <1>1, <1>2, <1>3 DEF IInv, TypeOK, Unprovoked, RunCtxDone, Go
  <2>3. FailureIsReal'
    BY <1>1, <1>3 DEF IInv, FailureIsReal, Go
  <2> QED
    BY <2>1, <2>2, <2>3 DEF IInv
<1>4. CASE /\ Go("unwind")
           /\ err' = TRUE
           /\ fault' = (fault \/ ~RunCtxDone)
           /\ UNCHANGED proc
  <2>1. TypeOK'
    BY <1>1, <1>4 DEF IInv, TypeOK, RunCtxDone, Go
  <2>2. Unprovoked'
    BY <1>1, <1>2, <1>4 DEF IInv, TypeOK, Unprovoked, RunCtxDone, Go
  <2>3. FailureIsReal'
    BY <1>1, <1>4 DEF IInv, FailureIsReal, Go
  <2> QED
    BY <2>1, <2>2, <2>3 DEF IInv
<1> QED
  BY <1>3, <1>4 DEF Start

LEMMA AwaitDisplayStep == IInv /\ AwaitDisplay => IInv'
<1> SUFFICES ASSUME IInv, AwaitDisplay
             PROVE  IInv'
  OBVIOUS
<1>1. /\ UNCHANGED <<ctx, stopped, isCurrent, proc, line, bridge, frames, screen>>
      /\ pc = "display"
      /\ ~stopped
  BY DEF AwaitDisplay, context, output, IInv, Unprovoked
<1>2. CASE DisplayCancelled
  BY <1>1, <1>2 DEF DisplayCancelled, DisplayFails, Go, IInv, TypeOK, Unprovoked,
     FailureIsReal, RunCtxDone
<1>3. CASE DisplayExit
  <2>1. /\ exits # <<>> /\ exits' = Tail(exits) /\ exits' \in Seq(Helpers)
        /\ pc' = "unwind" /\ err' = TRUE /\ fault' = fault
    BY <1>3 DEF DisplayExit, DisplayFails, Go, IInv, TypeOK
  <2> QED
    BY <1>1, <2>1 DEF IInv, TypeOK, Unprovoked, FailureIsReal, RunCtxDone
<1>4. CASE DisplayJunk
  BY <1>1, <1>4 DEF DisplayJunk, DisplayFails, Go, IInv, TypeOK, Unprovoked,
     FailureIsReal, RunCtxDone
<1>5. CASE DisplayTimeout
  BY <1>1, <1>5 DEF DisplayTimeout, Go, IInv, TypeOK, Unprovoked, FailureIsReal, RunCtxDone
<1>6. CASE DisplayChosen
  BY <1>1, <1>6 DEF DisplayChosen, Go, IInv, TypeOK, Unprovoked, FailureIsReal, RunCtxDone
<1> QED
  BY <1>2, <1>3, <1>4, <1>5, <1>6 DEF AwaitDisplay

LEMMA AwaitEndStep == IInv /\ AwaitEnd => IInv'
<1> SUFFICES ASSUME IInv, AwaitEnd
             PROVE  IInv'
  OBVIOUS
<1>1. /\ UNCHANGED <<ctx, stopped, isCurrent, proc, line, bridge, frames, screen, fault>>
      /\ pc = "wait" /\ pc' = "unwind"
      /\ ~stopped
  BY DEF AwaitEnd, Go, context, output, IInv, Unprovoked
<1>2. CASE ContextEnds
  BY <1>1, <1>2 DEF ContextEnds, IInv, TypeOK, Unprovoked, FailureIsReal, RunCtxDone
<1>3. CASE HelperEnds
  <2>1. /\ exits # <<>> /\ exits' = Tail(exits) /\ exits' \in Seq(Helpers)
        /\ err' = ~RunCtxDone
    BY <1>3 DEF HelperEnds, IInv, TypeOK
  <2> QED
    BY <1>1, <2>1 DEF IInv, TypeOK, Unprovoked, FailureIsReal, RunCtxDone
<1> QED
  BY <1>2, <1>3 DEF AwaitEnd

LEMMA RunStep == IInv /\ Run => IInv'
<1> SUFFICES ASSUME IInv, Run
             PROVE  IInv'
  OBVIOUS
<1> USE DEF IInv, TypeOK, Unprovoked, FailureIsReal, RunCtxDone, Go, context, output
<1>1. CASE StartXvfb \/ StartX11vnc \/ StartApp
  BY <1>1, StartStep DEF StartXvfb, StartX11vnc, StartApp, Helpers
<1>2. CASE AwaitDisplay
  BY <1>2, AwaitDisplayStep
<1>3. CASE ChoosePort
  <2>1. /\ pc = "port" /\ ~stopped
        /\ UNCHANGED <<ctx, stopped, isCurrent, proc, exits, line, bridge, frames, screen>>
    BY <1>3 DEF ChoosePort
  <2>2. CASE pc' = "x11vnc" /\ UNCHANGED <<err, fault>>
    BY <2>1, <2>2
  <2>3. CASE pc' = "unwind" /\ err' = TRUE /\ fault' = TRUE
    BY <2>1, <2>3
  <2> QED
    BY <1>3, <2>2, <2>3 DEF ChoosePort
<1>4. CASE StartBridge
  BY <1>4 DEF StartBridge
<1>5. CASE AwaitEnd
  BY <1>5, AwaitEndStep
<1>6. CASE Unwind
  BY <1>6 DEF Unwind
<1>7. CASE Returned
  BY <1>7 DEF Returned, Reports
<1>8. CASE ShowFailure
  BY <1>8 DEF ShowFailure
<1> QED
  BY <1>1, <1>2, <1>3, <1>4, <1>5, <1>6, <1>7, <1>8 DEF Run

LEMMA HelperStep ==
    ASSUME IInv, NEW h \in Helpers,
           HelperCrashes(h) \/ HelperKilled(h) \/ Reap(h)
    PROVE  IInv'
<1> USE DEF IInv, TypeOK, Unprovoked, FailureIsReal, RunCtxDone, context, output
<1>1. CASE HelperCrashes(h)
  BY <1>1 DEF HelperCrashes
<1>2. CASE HelperKilled(h)
  BY <1>2 DEF HelperKilled
<1>3. CASE Reap(h)
  <2>1. proc[h] = "exited" /\ exits' = Append(exits, h)
    BY <1>3 DEF Reap
  <2>2. exits' \in Seq(Helpers)
    BY <2>1
  <2>3. proc' \in [Helpers -> {"none", "alive", "exited", "reaped"}]
    BY <1>3 DEF Reap
  <2>4. \A g \in Helpers : proc'[g] = "exited" => proc[g] = "exited"
    BY <1>3 DEF Reap
  <2>5. UNCHANGED <<ctx, stopped, isCurrent, pc, err, line, bridge, frames, screen, fault>>
    BY <1>3 DEF Reap
  <2> QED
    BY <2>1, <2>2, <2>3, <2>4, <2>5
<1> QED
  BY <1>1, <1>2, <1>3

LEMMA StepKeepsIInv == IInv /\ [Next]_vars => IInv'
<1> SUFFICES ASSUME IInv, [Next]_vars
             PROVE  IInv'
  OBVIOUS
<1>1. CASE Run
  BY <1>1, RunStep
<1>2. ASSUME NEW h \in Helpers, HelperCrashes(h) \/ HelperKilled(h) \/ Reap(h)
      PROVE  IInv'
  BY <1>2, HelperStep
<1> USE DEF IInv, TypeOK, Unprovoked, FailureIsReal, RunCtxDone, context, output
<1>3. CASE XvfbWrites
  <2>1. UNCHANGED <<ctx, stopped, isCurrent, pc, err, proc, exits, bridge, frames, screen>>
    BY <1>3 DEF XvfbWrites
  <2>2. CASE line' = "junk" /\ fault' = TRUE
    BY <2>1, <2>2
  <2>3. CASE line' = "number" /\ fault' = fault
    BY <2>1, <2>3
  <2>4. (line' = "junk" \/ line' = "number") /\ fault' = (fault \/ line' = "junk")
    BY <1>3 DEF XvfbWrites
  <2>5. line' = "junk" => fault' = TRUE
    BY <2>4
  <2>6. line' # "junk" => fault' = fault
    BY <2>4
  <2> QED
    BY <2>2, <2>3, <2>4, <2>5, <2>6
<1>4. CASE FrameCheck
  BY <1>4, BoundAssumption DEF FrameCheck
<1>5. CASE FrameDraw
  BY <1>5 DEF FrameDraw
<1>6. CASE BridgeStops
  BY <1>6 DEF BridgeStops
<1>7. CASE Supersede
  BY <1>7 DEF Supersede
<1>8. CASE Shutdown
  BY <1>8 DEF Shutdown
<1>9. CASE UNCHANGED vars
  BY <1>9 DEF vars
<1> QED
  BY <1>1, <1>2, <1>3, <1>4, <1>5, <1>6, <1>7, <1>8, <1>9 DEF Next

LEMMA InitIInv == Init => IInv
<1> SUFFICES ASSUME Init
             PROVE  IInv
  OBVIOUS
<1>1. TypeOK
  <2>1. exits \in Seq(Helpers)
    BY DEF Init
  <2>2. frames \in 0..MaxFrames
    BY BoundAssumption DEF Init
  <2> QED
    BY <2>1, <2>2 DEF Init, TypeOK
<1>2. Unprovoked
  BY DEF Init, Unprovoked, RunCtxDone
<1>3. FailureIsReal
  BY DEF Init, FailureIsReal
<1> QED
  BY <1>1, <1>2, <1>3 DEF IInv

\* The error screen of an RDP or web session is only ever drawn after a helper
\* exited by itself, could not be started, or did not start properly.
THEOREM FailureIsRealCorrect == Spec => []FailureIsReal
<1>1. IInv => FailureIsReal
  BY DEF IInv
<1> QED
  BY <1>1, InitIInv, StepKeepsIInv, PTL DEF Spec

-----------------------------------------------------------------------------
(* RFBHandshake *)

Servers ==
    [at : {"down", "version", "security", "response", "shared", "serving", "closed"},
     minor : Minors \cup {0, 3, 7, 8}, types : SUBSET Types, accepts : BOOLEAN]

Served   == [kind : Expected.serving, value : {"any"}]
Opened   == Served \cup {Message("init", "size")}
Requests == [kind : {"format", "encodings", "request"},
             value : {"rgb", "all", "full", "incremental"}]

Situation(c, at, down, up) ==
    client = c /\ server.at = at /\ toClient = down /\ toServer = up

\* The versions are exchanged.
Greeting ==
    \/ ~closed /\ Situation("version", "down", <<>>, <<>>)
    \/ Situation("version", "version", <<Message("version", server.minor)>>, <<>>)
    \/ minor = 3 /\ Situation("security3", "version", <<>>, <<Message("version", 3)>>)
    \/ minor \in {7, 8} /\ Situation("types", "version", <<>>, <<Message("version", minor)>>)

\* Both speak the version of the client: its choice and its answers.
Choosing ==
    \/ /\ minor \in {7, 8}
       /\ Situation("types", "security", <<Message("types", server.types)>>, <<>>)
    \/ minor \in {7, 8} /\ Situation("challenge", "security", <<>>, <<Message("security", VNC)>>)
    \/ minor = 8 /\ Situation("result", "security", <<>>, <<Message("security", None)>>)
    \/ minor = 7 /\ Situation("init", "security", <<>>, <<Message("security", None), ClientInit>>)
    \/ minor = 3 /\ Situation("security3", "response",
                              <<Message("security3", VNC), Message("challenge", "16")>>, <<>>)
    \/ minor = 3 /\ \E security \in {None, "other"} :
          Situation("security3", "shared", <<Message("security3", security)>>, <<>>)

Proving ==
    \/ Situation("challenge", "response", <<Message("challenge", "16")>>, <<>>)
    \/ Situation("result", "response", <<>>, <<Message("response", "des")>>)
    \/ Situation("result", "shared", <<Message("result", "ok")>>, <<>>)
    \/ Situation("init", "shared", <<>>, <<ClientInit>>)

\* The server refused and closed; the client reads what is left.
Refused ==
    /\ closed
    /\ \/ minor \in {7, 8} /\ Situation("types", "closed", <<Message("types", {})>> \o Reason, <<>>)
       \/ Situation("security3", "closed", <<Message("security3", "refused")>> \o Reason, <<>>)
       \/ minor = 8 /\ Situation("result", "closed", <<Message("result", "wrong")>> \o Reason, <<>>)
       \/ minor # 8 /\ Situation("result", "closed", <<Message("result", "wrong")>>, <<>>)
       \/ Situation("reason", "closed", Reason, <<>>)

\* The client gave up and the server waits, or the connection is closed.
GaveUp ==
    /\ client = "failed"
    /\ closed \/ (toServer = <<>> /\ server.at \in {"security", "response", "shared"})

\* The server serves; a client that serves has a request on its way, at the
\* server, or answered by an update on its way.
Serving ==
    /\ server.at = "serving"
    /\ \/ /\ client = "init" /\ toServer = <<>>
          /\ toClient # <<>> /\ Head(toClient) = Message("init", "size")
          /\ toClient \in Seq(Opened) /\ Tail(toClient) \in Seq(Served)
       \/ /\ client = "serving"
          /\ toClient \in Seq(Served) /\ toServer \in Seq(Requests)
          /\ \/ wanted
             \/ \E i \in 1..Len(toClient) : toClient[i].kind = "update"
             \/ \E i \in 1..Len(toServer) : toServer[i].kind = "request"

Agreed == server.minor = minor /\ minor \in {3, 7, 8} /\ server.types # {} /\ (Choosing \/ Proving)

Understanding ==
    /\ server \in Servers /\ minor \in {0, 3, 7, 8} /\ closed \in BOOLEAN /\ wanted \in BOOLEAN /\ password \in BOOLEAN
    /\ closed => server.at # "down"
    /\ Greeting \/ Agreed \/ Refused \/ GaveUp \/ Serving

-----------------------------------------------------------------------------
(* Short sequences.                                                        *)

LEMMA OneMessage ==
    \A x : /\ <<x>> # <<>> /\ Head(<<x>>) = x /\ Tail(<<x>>) = <<>>
          /\ <<>> \o <<x>> = <<x>> /\ <<x>> \o <<>> = <<x>> /\ Append(<<>>, x) = <<x>>
OBVIOUS

LEMMA TwoMessages ==
    \A x, y : /\ <<x, y>> # <<>> /\ Head(<<x, y>>) = x /\ Tail(<<x, y>>) = <<y>>
             /\ <<x>> \o <<y>> = <<x, y>> /\ Append(<<x>>, y) = <<x, y>>
             /\ <<>> \o <<x, y>> = <<x, y>>
<1> TAKE x, y
<1>1. <<x, y>> # <<>> /\ Head(<<x, y>>) = x
  OBVIOUS
<1>2. Tail(<<x, y>>) = <<y>>
  <2>1. /\ Tail(<<x, y>>) \in Seq({x, y}) /\ <<y>> \in Seq({x, y})
        /\ Len(Tail(<<x, y>>)) = 1 /\ Len(<<y>>) = 1 /\ Tail(<<x, y>>)[1] = y
    OBVIOUS
  <2> QED
    BY <2>1, SeqEqual
<1>3. <<x>> \o <<y>> = <<x, y>>
  <2>1. /\ <<x>> \in Seq({x, y}) /\ <<y>> \in Seq({x, y}) /\ <<x, y>> \in Seq({x, y})
        /\ Len(<<x>>) = 1 /\ Len(<<y>>) = 1 /\ Len(<<x, y>>) = 2
        /\ <<x, y>>[1] = x /\ <<x, y>>[2] = y
    OBVIOUS
  <2>2. /\ <<x>> \o <<y>> \in Seq({x, y}) /\ Len(<<x>> \o <<y>>) = 2
        /\ (<<x>> \o <<y>>)[1] = x /\ (<<x>> \o <<y>>)[2] = y
    BY <2>1, ConcatProperties
  <2>3. \A i \in 1..Len(<<x>> \o <<y>>) : (<<x>> \o <<y>>)[i] = <<x, y>>[i]
    BY <2>1, <2>2
  <2> QED
    BY <2>1, <2>2, <2>3, SeqEqual
<1>4. Append(<<x>>, y) = <<x, y>>
  <2>1. Append(<<x>>, y) = <<x>> \o <<y>>
    OBVIOUS
  <2> QED
    BY <1>3, <2>1
<1>5. <<>> \o <<x, y>> = <<x, y>>
  OBVIOUS
<1> QED
  BY <1>1, <1>2, <1>3, <1>4, <1>5

LEMMA AppendBehind ==
    ASSUME NEW S, NEW s \in Seq(S), s # <<>>, NEW x \in S
    PROVE  /\ Append(s, x) \in Seq(S) /\ Append(s, x) # <<>>
           /\ Head(Append(s, x)) = Head(s)
           /\ Tail(Append(s, x)) = Append(Tail(s), x)
<1>1. /\ Append(s, x) \in Seq(S) /\ Append(s, x) # <<>> /\ Len(Append(s, x)) = Len(s) + 1
      /\ Len(s) \in Nat \ {0} /\ Append(s, x)[Len(s) + 1] = x
      /\ \A i \in 1..Len(s) : Append(s, x)[i] = s[i]
  OBVIOUS
<1>2. Head(Append(s, x)) = Head(s)
  BY <1>1
<1>3. /\ Tail(Append(s, x)) \in Seq(S) /\ Len(Tail(Append(s, x))) = Len(s)
      /\ \A i \in 1..Len(s) : Tail(Append(s, x))[i] = Append(s, x)[i + 1]
  BY <1>1
<1>4. /\ Tail(s) \in Seq(S) /\ Len(Tail(s)) = Len(s) - 1
      /\ \A i \in 1..Len(s) - 1 : Tail(s)[i] = s[i + 1]
  OBVIOUS
<1>5. /\ Append(Tail(s), x) \in Seq(S) /\ Len(Append(Tail(s), x)) = Len(s)
      /\ Append(Tail(s), x)[Len(s)] = x
      /\ \A i \in 1..Len(s) - 1 : Append(Tail(s), x)[i] = Tail(s)[i]
  BY <1>1, <1>4
<1>6. ASSUME NEW i \in 1..Len(s) PROVE Tail(Append(s, x))[i] = Append(Tail(s), x)[i]
  <2>1. CASE i = Len(s)
    BY <1>1, <1>3, <1>5, <2>1
  <2>2. CASE i # Len(s)
    <3>1. i \in 1..Len(s) - 1 /\ i + 1 \in 1..Len(s)
      BY <1>1, <2>2
    <3>2. Tail(Append(s, x))[i] = s[i + 1]
      BY <1>1, <1>3, <3>1
    <3>3. Append(Tail(s), x)[i] = s[i + 1]
      BY <1>4, <1>5, <3>1
    <3> QED
      BY <3>2, <3>3
  <2> QED
    BY <2>1, <2>2
<1>7. Tail(Append(s, x)) = Append(Tail(s), x)
  BY <1>3, <1>5, <1>6, SeqEqual
<1> QED
  BY <1>1, <1>2, <1>7

LEMMA ThenReason ==
    \A x : /\ <<x>> \o Reason = <<x, Message("reason", "text")>>
          /\ <<x>> \o Reason # <<>> /\ Head(<<x>> \o Reason) = x
          /\ Tail(<<x>> \o Reason) = Reason
<1> TAKE x
<1> DEFINE reason == Message("reason", "text")
<1>1. Reason = <<reason>>
  BY DEF Reason
<1> HIDE DEF reason
<1>2. <<x>> \o <<reason>> = <<x, reason>> /\ <<x, reason>> # <<>>
      /\ Head(<<x, reason>>) = x /\ Tail(<<x, reason>>) = <<reason>>
  BY TwoMessages
<1> QED
  BY <1>1, <1>2 DEF reason

LEMMA ThreeMessages ==
    \A x, y, z : <<>> \o <<x, y, z>> = <<x, y, z>> /\ <<>> \o <<>> = <<>>
OBVIOUS

-----------------------------------------------------------------------------
(* What the situations say of the next message.                            *)

LEMMA Readers == Reading = {"version", "security3", "types", "challenge", "result",
                            "reason", "init", "serving"}
BY DEF Reading, Expected

LEMMA ExpectedKinds ==
    /\ Expected["version"] = {"version"} /\ Expected["security3"] = {"security3"}
    /\ Expected["types"] = {"types"} /\ Expected["challenge"] = {"challenge"}
    /\ Expected["result"] = {"result"} /\ Expected["reason"] = {"reason"}
    /\ Expected["init"] = {"init"}
    /\ Expected["serving"] = {"update", "colours", "bell", "cut text"}
BY DEF Expected

LEMMA Fields == \A kind, value : /\ Message(kind, value).kind = kind
                                /\ Message(kind, value).value = value
BY DEF Message

LEMMA HeadKinds ==
    \A kind, value, y :
        /\ Head(<<Message(kind, value)>>).kind = kind
        /\ Head(<<Message(kind, value)>>).value = value
        /\ Head(<<Message(kind, value), y>>).kind = kind
        /\ Head(<<Message(kind, value), y>>).value = value
        /\ Head(<<Message(kind, value)>> \o Reason).kind = kind
<1> TAKE kind, value, y
<1> DEFINE x == Message(kind, value)
<1>1. x.kind = kind /\ x.value = value
  BY Fields
<1> HIDE DEF x
<1>2. Head(<<x>>) = x /\ Head(<<x, y>>) = x /\ Head(<<x>> \o Reason) = x
  BY OneMessage, TwoMessages, ThenReason
<1> QED
  BY <1>1, <1>2 DEF x

\* What a situation says of the next message of either direction.
LEMMA NextDown ==
    /\ \A c, at, up : Situation(c, at, <<>>, up) => toClient = <<>>
    /\ \A c, at, kind, value, up : Situation(c, at, <<Message(kind, value)>>, up)
              => client = c /\ Head(toClient).kind = kind
    /\ \A c, at, kind, value, y, up : Situation(c, at, <<Message(kind, value), y>>, up)
              => client = c /\ Head(toClient).kind = kind
    /\ \A c, at, kind, value, up : Situation(c, at, <<Message(kind, value)>> \o Reason, up)
              => client = c /\ Head(toClient).kind = kind
BY HeadKinds DEF Situation

LEMMA NextUp ==
    /\ \A c, at, down : Situation(c, at, down, <<>>) => toServer = <<>>
    /\ \A c, at, kind, value, down : Situation(c, at, down, <<Message(kind, value)>>)
              => server.at = at /\ Head(toServer).kind = kind
    /\ \A c, at, kind, value, y, down : Situation(c, at, down, <<Message(kind, value), y>>)
              => server.at = at /\ Head(toServer).kind = kind
BY HeadKinds DEF Situation

LEMMA UnderstoodByClient ==
    ASSUME Understanding, client \in Reading, toClient # <<>>
    PROVE  Head(toClient).kind \in Expected[client]
<1> DEFINE named == client # "serving" /\ Head(toClient).kind = client
<1>0. ASSUME named PROVE Head(toClient).kind \in Expected[client]
  BY <1>0, Readers, ExpectedKinds
<1>1. CASE Greeting
  <2>1. named
    BY <1>1, NextDown DEF Greeting
  <2> QED
    BY <1>0, <2>1
<1>2. CASE Agreed /\ Choosing
  <2>1. named
    BY <1>2, NextDown DEF Choosing
  <2> QED
    BY <1>0, <2>1
<1>3. CASE Agreed /\ Proving
  <2>1. named
    BY <1>3, NextDown DEF Proving
  <2> QED
    BY <1>0, <2>1
<1>4. CASE Refused
  <2>1. Reason = <<Message("reason", "text")>>
    BY DEF Reason
  <2>2. named
    BY <1>4, <2>1, NextDown DEF Refused
  <2> QED
    BY <1>0, <2>2
<1>5. CASE GaveUp
  BY <1>5, Readers DEF GaveUp
<1>6. CASE Serving
  <2>1. CASE client = "init"
    BY <1>6, <2>1 DEF Serving, Message, Expected
  <2>2. CASE client = "serving"
    <3>1. Head(toClient) \in Served
      BY <1>6, <2>2 DEF Serving
    <3> QED
      BY <2>2, <3>1 DEF Served, Expected
  <2> QED
    BY <1>6, <2>1, <2>2 DEF Serving
<1> QED
  BY <1>1, <1>2, <1>3, <1>4, <1>5, <1>6 DEF Understanding, Agreed

-----------------------------------------------------------------------------
(* The client.                                                             *)

LEMMA ClientLeaves ==
    ASSUME Understanding, UNCHANGED <<closed, password, server, wanted, sent>>
    PROVE  /\ server' \in Servers /\ closed' \in BOOLEAN /\ wanted' \in BOOLEAN
           /\ password' \in BOOLEAN /\ (closed' => server'.at # "down")
BY DEF Understanding

LEMMA ReadVersionStep == Understanding /\ ReadVersion => Understanding'
<1> SUFFICES ASSUME Understanding, ReadVersion PROVE Understanding'
  OBVIOUS
<1>1. /\ client = "version" /\ toClient # <<>>
      /\ toClient' = Tail(toClient) /\ minor' = SelectedMinor(Head(toClient).value)
      /\ toServer' = toServer \o <<Message("version", minor')>>
      /\ client' = IF minor' = 3 THEN "security3" ELSE "types"
      /\ UNCHANGED <<closed, password, server, wanted, sent>>
  BY DEF ReadVersion, Reads, Answers
<1>2. server.at = "version" /\ toClient = <<Message("version", server.minor)>> /\ toServer = <<>>
  BY <1>1 DEF Understanding, Greeting, Agreed, Choosing, Proving, Refused, GaveUp, Serving, Situation
<1>3. toClient' = <<>> /\ toServer' = <<Message("version", minor')>>
  BY <1>1, <1>2, OneMessage
<1>4. minor' \in {3, 7, 8}
  BY <1>1 DEF SelectedMinor
<1>5. Greeting'
  BY <1>1, <1>2, <1>3, <1>4 DEF Greeting, Situation
<1> QED
  BY <1>1, <1>4, <1>5, ClientLeaves DEF Understanding

\* What the client does with a security type.
LEMMA SecuredCases ==
    ASSUME NEW security, NEW m, NEW out, Secured(security, m, out)
    PROVE  \/ security = VNC /\ password /\ Answers(out, "challenge")
           \/ security = None /\ m >= 8 /\ Answers(out, "result")
           \/ security = None /\ ~(m >= 8) /\ Answers(Append(out, ClientInit), "init")
           \/ security # None /\ ~(security = VNC /\ password) /\ Answers(out, "failed")
<1>1. VNC # None
  BY DEF VNC, None
<1>2. ReadsResult(None, m) <=> m >= 8
  BY <1>1 DEF ReadsResult
<1>3. CASE security = VNC /\ password
  BY <1>1, <1>3 DEF Secured
<1>4. CASE security = None
  BY <1>1, <1>2, <1>4 DEF Secured
<1>5. CASE security # None /\ ~(security = VNC /\ password)
  BY <1>5 DEF Secured
<1> QED
  BY <1>3, <1>4, <1>5

LEMMA ReadSecurity3Step == Understanding /\ ReadSecurity3 => Understanding'
<1> SUFFICES ASSUME Understanding, ReadSecurity3 PROVE Understanding'
  OBVIOUS
<1> DEFINE security == Head(toClient).value
<1>1. /\ client = "security3" /\ toClient # <<>>
      /\ toClient' = Tail(toClient) /\ minor' = minor
      /\ UNCHANGED <<closed, password, server, wanted, sent>>
  BY DEF ReadSecurity3, Reads
<1>2. /\ security = "refused" => Answers(<<>>, "reason")
      /\ security # "refused" => Secured(security, minor, <<>>)
  BY DEF ReadSecurity3
<1>3. \/ /\ server.minor = 3 /\ minor = 3 /\ server.types # {}
         /\ Situation("security3", "response",
                      <<Message("security3", VNC), Message("challenge", "16")>>, <<>>)
      \/ /\ server.minor = 3 /\ minor = 3 /\ server.types # {}
         /\ \E type \in {None, "other"} :
               Situation("security3", "shared", <<Message("security3", type)>>, <<>>)
      \/ /\ closed
         /\ Situation("security3", "closed", <<Message("security3", "refused")>> \o Reason, <<>>)
  BY <1>1 DEF Understanding, Greeting, Agreed, Choosing, Proving, Refused, GaveUp, Serving,
              Situation
<1>4. CASE /\ server.minor = 3 /\ minor = 3 /\ server.types # {}
           /\ Situation("security3", "response",
                        <<Message("security3", VNC), Message("challenge", "16")>>, <<>>)
  <2>1. security = VNC /\ security # "refused" /\ security # None
    BY <1>4, TwoMessages DEF Situation, Message, VNC, None
  <2>2. /\ toClient' = <<Message("challenge", "16")>> /\ toServer = <<>>
        /\ server'.at = "response" /\ server' = server
    BY <1>1, <1>4, TwoMessages DEF Situation
  <2>3. \/ Answers(<<>>, "challenge")
        \/ Answers(<<>>, "failed")
    BY <1>2, <2>1, SecuredCases
  <2>4. toServer' = <<>> /\ client' \in {"challenge", "failed"}
    BY <2>2, <2>3, ThreeMessages DEF Answers
  <2> QED
    BY <1>1, <1>4, <2>2, <2>4, ClientLeaves DEF Understanding, Agreed, Proving, GaveUp, Situation
<1>5. CASE /\ server.minor = 3 /\ minor = 3 /\ server.types # {}
           /\ \E type \in {None, "other"} :
                 Situation("security3", "shared", <<Message("security3", type)>>, <<>>)
  <2>1. security \in {None, "other"} /\ security # "refused" /\ security # VNC
    BY <1>5, OneMessage DEF Situation, Message, VNC, None
  <2>2. toClient' = <<>> /\ toServer = <<>> /\ server'.at = "shared" /\ server' = server
    BY <1>1, <1>5, OneMessage DEF Situation
  <2>3. \/ Answers(Append(<<>>, ClientInit), "init")
        \/ Answers(<<>>, "failed")
    <3>1. ~(minor >= 8)
      BY <1>5
    <3>2. Secured(security, minor, <<>>)
      BY <1>2, <2>1
    <3> QED
      BY <2>1, <3>1, <3>2, SecuredCases
  <2>4. \/ toServer' = <<ClientInit>> /\ client' = "init"
        \/ toServer' = <<>> /\ client' = "failed"
    BY <2>2, <2>3, OneMessage, ThreeMessages DEF Answers
  <2> QED
    BY <1>1, <1>5, <2>2, <2>4, ClientLeaves DEF Understanding, Agreed, Proving, GaveUp, Situation
<1>6. CASE /\ closed
           /\ Situation("security3", "closed", <<Message("security3", "refused")>> \o Reason, <<>>)
  <2>1. security = "refused" /\ toClient' = Reason /\ toServer = <<>> /\ server.at = "closed"
    BY <1>1, <1>6, ThenReason DEF Situation, Message
  <2>2. toServer' = <<>> /\ client' = "reason"
    BY <1>2, <2>1, ThreeMessages DEF Answers
  <2> QED
    BY <1>1, <1>6, <2>1, <2>2, ClientLeaves DEF Understanding, Refused, Situation
<1> QED
  BY <1>3, <1>4, <1>5, <1>6

LEMMA ReadTypesStep == Understanding /\ ReadTypes => Understanding'
<1> SUFFICES ASSUME Understanding, ReadTypes PROVE Understanding'
  OBVIOUS
<1> DEFINE types == Head(toClient).value
           security == ChooseSecurity(types, password)
<1>1. /\ client = "types" /\ toClient # <<>>
      /\ toClient' = Tail(toClient) /\ minor' = minor
      /\ UNCHANGED <<closed, password, server, wanted, sent>>
  BY DEF ReadTypes, Reads
<1>2. /\ types = {} => Answers(<<>>, "reason")
      /\ types # {} /\ security = "unsupported" => Answers(<<>>, "failed")
      /\ types # {} /\ security # "unsupported"
            => Secured(security, minor, <<Message("security", security)>>)
  BY DEF ReadTypes
<1>3. \/ /\ server.minor = minor /\ minor \in {7, 8} /\ server.types # {}
         /\ Situation("types", "security", <<Message("types", server.types)>>, <<>>)
      \/ /\ closed
         /\ Situation("types", "closed", <<Message("types", {})>> \o Reason, <<>>)
  BY <1>1 DEF Understanding, Greeting, Agreed, Choosing, Proving, Refused, GaveUp, Serving,
              Situation
<1>4. CASE /\ server.minor = minor /\ minor \in {7, 8} /\ server.types # {}
           /\ Situation("types", "security", <<Message("types", server.types)>>, <<>>)
  <2>1. types # {}
    BY <1>4, OneMessage DEF Situation, Message
  <2>2. toClient' = <<>> /\ toServer = <<>> /\ server'.at = "security" /\ server' = server
    BY <1>1, <1>4, OneMessage DEF Situation
  <2>3. (security = VNC /\ password) \/ security = None \/ security = "unsupported"
    BY DEF ChooseSecurity
  <2>4. VNC # None /\ VNC # "unsupported" /\ None # "unsupported"
    BY DEF VNC, None
  <2>5. CASE security = VNC /\ password
    <3>1. Answers(<<Message("security", VNC)>>, "challenge")
      BY <1>2, <2>1, <2>4, <2>5, SecuredCases
    <3>2. toServer' = <<Message("security", VNC)>> /\ client' = "challenge"
      BY <2>2, <3>1, OneMessage DEF Answers
    <3> QED
      BY <1>1, <1>4, <2>2, <3>2, ClientLeaves DEF Understanding, Agreed, Choosing, Situation
  <2>6. CASE security = None
    <3>1. \/ minor = 8 /\ Answers(<<Message("security", None)>>, "result")
          \/ minor = 7 /\ Answers(Append(<<Message("security", None)>>, ClientInit), "init")
      BY <1>2, <1>4, <2>1, <2>4, <2>6, SecuredCases
    <3>2. \/ /\ minor = 8
             /\ toServer' = <<Message("security", None)>> /\ client' = "result"
          \/ /\ minor = 7
             /\ toServer' = <<Message("security", None), ClientInit>> /\ client' = "init"
      BY <2>2, <3>1, OneMessage, TwoMessages DEF Answers
    <3> QED
      BY <1>1, <1>4, <2>2, <3>2, ClientLeaves DEF Understanding, Agreed, Choosing, Situation
  <2>7. CASE security = "unsupported"
    <3>1. toServer' = <<>> /\ client' = "failed"
      BY <1>2, <2>1, <2>2, <2>7, ThreeMessages DEF Answers
    <3> QED
      BY <1>1, <2>2, <3>1, ClientLeaves DEF Understanding, GaveUp
  <2> QED
    BY <2>3, <2>5, <2>6, <2>7
<1>5. CASE /\ closed
           /\ Situation("types", "closed", <<Message("types", {})>> \o Reason, <<>>)
  <2>1. types = {} /\ toClient' = Reason /\ toServer = <<>> /\ server.at = "closed"
    BY <1>1, <1>5, ThenReason DEF Situation, Message
  <2>2. toServer' = <<>> /\ client' = "reason"
    BY <1>2, <2>1, ThreeMessages DEF Answers
  <2> QED
    BY <1>1, <1>5, <2>1, <2>2, ClientLeaves DEF Understanding, Refused, Situation
<1> QED
  BY <1>3, <1>4, <1>5

LEMMA ReadChallengeStep == Understanding /\ ReadChallenge => Understanding'
<1> SUFFICES ASSUME Understanding, ReadChallenge PROVE Understanding'
  OBVIOUS
<1>1. /\ client = "challenge" /\ toClient # <<>>
      /\ toClient' = Tail(toClient) /\ minor' = minor
      /\ Answers(<<Message("response", "des")>>, "result")
      /\ UNCHANGED <<closed, password, server, wanted, sent>>
  BY DEF ReadChallenge, Reads, ReadsResult
<1>2. /\ server.minor = minor /\ minor \in {3, 7, 8} /\ server.types # {}
      /\ Situation("challenge", "response", <<Message("challenge", "16")>>, <<>>)
  BY <1>1 DEF Understanding, Greeting, Agreed, Choosing, Proving, Refused, GaveUp, Serving,
              Situation
<1>3. toClient' = <<>> /\ toServer' = <<Message("response", "des")>> /\ client' = "result"
  BY <1>1, <1>2, OneMessage DEF Situation, Answers
<1> QED
  BY <1>1, <1>2, <1>3, ClientLeaves DEF Understanding, Agreed, Proving, Situation

LEMMA ReadResultStep == Understanding /\ ReadResult => Understanding'
<1> SUFFICES ASSUME Understanding, ReadResult PROVE Understanding'
  OBVIOUS
<1> DEFINE result == Head(toClient).value
<1>1. /\ client = "result" /\ toClient # <<>>
      /\ toClient' = Tail(toClient) /\ minor' = minor
      /\ result = "ok" => Answers(<<ClientInit>>, "init")
      /\ result # "ok" => Answers(<<>>, IF minor >= 8 THEN "reason" ELSE "failed")
      /\ UNCHANGED <<closed, password, server, wanted, sent>>
  BY DEF ReadResult, Reads, ReadsReason
<1>2. \/ /\ server.minor = minor /\ minor \in {3, 7, 8} /\ server.types # {}
         /\ Situation("result", "shared", <<Message("result", "ok")>>, <<>>)
      \/ /\ closed /\ minor = 8
         /\ Situation("result", "closed", <<Message("result", "wrong")>> \o Reason, <<>>)
      \/ /\ closed /\ minor # 8
         /\ Situation("result", "closed", <<Message("result", "wrong")>>, <<>>)
  BY <1>1 DEF Understanding, Greeting, Agreed, Choosing, Proving, Refused, GaveUp, Serving,
              Situation
<1>3. CASE /\ server.minor = minor /\ minor \in {3, 7, 8} /\ server.types # {}
           /\ Situation("result", "shared", <<Message("result", "ok")>>, <<>>)
  <2>1. result = "ok" /\ toClient' = <<>> /\ toServer = <<>>
    BY <1>1, <1>3, OneMessage DEF Situation, Message
  <2>2. toServer' = <<ClientInit>> /\ client' = "init"
    BY <1>1, <2>1, OneMessage DEF Answers
  <2> QED
    BY <1>1, <1>3, <2>1, <2>2, ClientLeaves DEF Understanding, Agreed, Proving, Situation
<1>4. CASE /\ closed /\ minor = 8
           /\ Situation("result", "closed", <<Message("result", "wrong")>> \o Reason, <<>>)
  <2>1. result = "wrong" /\ toClient' = Reason /\ toServer = <<>> /\ server.at = "closed"
    BY <1>1, <1>4, ThenReason DEF Situation, Message
  <2>2. toServer' = <<>> /\ client' = "reason"
    BY <1>1, <1>4, <2>1, ThreeMessages DEF Answers
  <2> QED
    BY <1>1, <1>4, <2>1, <2>2, ClientLeaves DEF Understanding, Refused, Situation
<1>5. CASE /\ closed /\ minor # 8
           /\ Situation("result", "closed", <<Message("result", "wrong")>>, <<>>)
  <2>1. result = "wrong" /\ toClient' = <<>> /\ toServer = <<>> /\ server.at = "closed"
    BY <1>1, <1>5, OneMessage DEF Situation, Message
  <2>2. ~(minor >= 8)
    BY <1>5 DEF Understanding
  <2>3. toServer' = <<>> /\ client' = "failed"
    BY <1>1, <2>1, <2>2, ThreeMessages DEF Answers
  <2> QED
    BY <1>1, <1>5, <2>1, <2>3, ClientLeaves DEF Understanding, GaveUp
<1> QED
  BY <1>2, <1>3, <1>4, <1>5

LEMMA ReadReasonStep == Understanding /\ ReadReason => Understanding'
<1> SUFFICES ASSUME Understanding, ReadReason PROVE Understanding'
  OBVIOUS
<1>1. /\ client = "reason" /\ minor' = minor /\ Answers(<<>>, "failed")
      /\ UNCHANGED <<closed, password, server, wanted, sent>>
  BY DEF ReadReason, Reads
<1>2. closed
  BY <1>1 DEF Understanding, Greeting, Agreed, Choosing, Proving, Refused, GaveUp, Serving,
              Situation
<1>3. client' = "failed"
  BY <1>1 DEF Answers
<1> QED
  BY <1>1, <1>2, <1>3, ClientLeaves DEF Understanding, GaveUp

LEMMA ServedTyped ==
    \A kind \in Expected.serving : Message(kind, "any") \in Served
BY DEF Served, Message

LEMMA ReadInitStep == Understanding /\ ReadInit => Understanding'
<1> SUFFICES ASSUME Understanding, ReadInit PROVE Understanding'
  OBVIOUS
<1>1. /\ client = "init" /\ toClient # <<>> /\ Head(toClient).kind = "init"
      /\ toClient' = Tail(toClient) /\ minor' = minor /\ Answers(Setup, "serving")
      /\ UNCHANGED <<closed, password, server, wanted, sent>>
  BY DEF ReadInit, Reads
<1>2. server.at = "serving" /\ toServer = <<>> /\ Tail(toClient) \in Seq(Served)
  BY <1>1 DEF Understanding, Greeting, Agreed, Choosing, Proving, Refused, GaveUp, Serving,
              Situation
<1>3. toServer' = Setup /\ client' = "serving"
  BY <1>1, <1>2, ThreeMessages DEF Answers, Setup
<1>4. /\ Setup \in Seq(Requests)
      /\ \E i \in 1..Len(Setup) : Setup[i].kind = "request"
  <2> DEFINE a == Message("format", "rgb")
             b == Message("encodings", "all")
             c == Message("request", "full")
  <2>1. a \in Requests /\ b \in Requests /\ c \in Requests /\ c.kind = "request"
    BY DEF Requests, Message
  <2>2. Setup = <<a, b, c>>
    BY DEF Setup
  <2> HIDE DEF a, b, c
  <2>3. Setup \in Seq(Requests) /\ Len(Setup) = 3 /\ Setup[3] = c
    BY <2>1, <2>2
  <2> QED
    BY <2>1, <2>3
<1> QED
  BY <1>1, <1>2, <1>3, <1>4, ClientLeaves DEF Understanding, Serving

LEMMA ServeStep == Understanding /\ Serve => Understanding'
<1> SUFFICES ASSUME Understanding, Serve PROVE Understanding'
  OBVIOUS
<1>1. PICK kind \in Expected.serving :
          /\ client = "serving" /\ toClient # <<>> /\ Head(toClient).kind = kind
          /\ toClient' = Tail(toClient) /\ minor' = minor
          /\ Answers(RequestsAfter(kind), "serving")
          /\ UNCHANGED <<closed, password, server, wanted, sent>>
  BY DEF Serve, Reads
<1>2. /\ server.at = "serving" /\ toClient \in Seq(Served) /\ toServer \in Seq(Requests)
      /\ \/ wanted
         \/ \E i \in 1..Len(toClient) : toClient[i].kind = "update"
         \/ \E i \in 1..Len(toServer) : toServer[i].kind = "request"
  BY <1>1 DEF Understanding, Greeting, Agreed, Choosing, Proving, Refused, GaveUp, Serving,
              Situation
<1>3. /\ Update \in Requests /\ Update.kind = "request"
      /\ RequestsAfter(kind) = IF kind = "update" THEN <<Update>> ELSE <<>>
  BY DEF Update, Message, Requests, RequestsAfter
<1>4. toServer' = toServer \o RequestsAfter(kind) /\ client' = "serving"
  BY <1>1 DEF Answers
<1>5. /\ toServer' \in Seq(Requests)
      /\ Len(toServer') >= Len(toServer)
      /\ \A i \in 1..Len(toServer) : toServer'[i] = toServer[i]
      /\ kind = "update" => Len(toServer') = Len(toServer) + 1 /\ toServer'[Len(toServer) + 1] = Update
  BY <1>2, <1>3, <1>4
<1>6. /\ toClient' \in Seq(Served) /\ Len(toClient) \in Nat /\ Len(toServer) \in Nat
      /\ Len(toClient') = Len(toClient) - 1 /\ Head(toClient) = toClient[1]
      /\ \A i \in 1..Len(toClient) - 1 : toClient'[i] = toClient[i + 1]
  BY <1>1, <1>2
<1>7. \/ wanted'
      \/ \E i \in 1..Len(toClient') : toClient'[i].kind = "update"
      \/ \E i \in 1..Len(toServer') : toServer'[i].kind = "request"
  <2>1. CASE wanted
    BY <1>1, <2>1
  <2>2. ASSUME NEW i \in 1..Len(toClient), toClient[i].kind = "update"
        PROVE  \/ \E j \in 1..Len(toClient') : toClient'[j].kind = "update"
               \/ \E j \in 1..Len(toServer') : toServer'[j].kind = "request"
    <3>1. CASE i = 1
      <4>1. kind = "update"
        BY <1>1, <1>6, <2>2, <3>1
      <4>2. Len(toServer') = Len(toServer) + 1 /\ toServer'[Len(toServer) + 1].kind = "request"
        BY <1>3, <1>5, <4>1
      <4> QED
        BY <1>6, <4>2
    <3>2. CASE i # 1
      <4>1. i - 1 \in 1..Len(toClient') /\ toClient'[i - 1] = toClient[i]
        BY <1>6, <3>2
      <4> QED
        BY <2>2, <4>1
    <3> QED
      BY <3>1, <3>2
  <2>3. ASSUME NEW i \in 1..Len(toServer), toServer[i].kind = "request"
        PROVE  \E j \in 1..Len(toServer') : toServer'[j].kind = "request"
    <3>1. Len(toServer') \in Nat
      BY <1>5
    <3>2. i \in 1..Len(toServer') /\ toServer'[i].kind = "request"
      BY <1>5, <1>6, <2>3, <3>1
    <3> QED
      BY <3>2
  <2> QED
    BY <1>2, <2>1, <2>2, <2>3
<1> QED
  BY <1>1, <1>2, <1>4, <1>5, <1>6, <1>7, ClientLeaves DEF Understanding, Serving

LEMMA ClientFailsStep == Understanding /\ ClientFails => Understanding'
<1> SUFFICES ASSUME Understanding, ClientFails PROVE Understanding'
  OBVIOUS
<1>1. /\ client \in Reading /\ client' = "failed"
      /\ UNCHANGED <<toClient, toServer, closed, minor, password, server, wanted, sent>>
      /\ ~(toClient = <<>> /\ closed) => toClient # <<>> /\ Head(toClient).kind \notin Expected[client]
  BY DEF ClientFails
<1>2. closed
  BY <1>1, UnderstoodByClient DEF Reading
<1> QED
  BY <1>1, <1>2 DEF Understanding, GaveUp

-----------------------------------------------------------------------------
(* The server.                                                             *)

LEMMA DialStep == Understanding /\ Dial => Understanding'
<1> SUFFICES ASSUME Understanding, Dial PROVE Understanding'
  OBVIOUS
<1>1. PICK m \in Minors, types \in SUBSET Types, accepts \in BOOLEAN :
          server' = [at |-> "version", minor |-> m, types |-> types, accepts |-> accepts]
  BY DEF Dial
<1>2. /\ server.at = "down" /\ password' \in BOOLEAN
      /\ toClient' = <<Message("version", server'.minor)>>
      /\ UNCHANGED <<toServer, closed, client, minor, wanted, sent>>
  BY DEF Dial
<1>3. client = "version" /\ toServer = <<>>
  BY <1>2 DEF Understanding, Greeting, Agreed, Choosing, Proving, Refused, GaveUp, Serving,
              Situation
<1>4. server' \in Servers /\ server'.at = "version"
  BY <1>1 DEF Servers
<1>5. Greeting'
  BY <1>2, <1>3, <1>4 DEF Greeting, Situation
<1> QED
  BY <1>2, <1>4, <1>5 DEF Understanding

\* The server reads only where a message waits for it.
LEMMA UnderstoodByServer ==
    ASSUME Understanding, server.at \in DOMAIN ServerExpected, toServer # <<>>, ~closed
    PROVE  /\ Head(toServer).kind \in ServerExpected[server.at]
           /\ \/ server.at = "version" /\ Greeting
              \/ server.at = "security" /\ Agreed /\ Choosing
              \/ server.at \in {"response", "shared"} /\ Agreed /\ Proving
              \/ server.at = "serving" /\ Serving
<1>1. /\ ServerExpected["version"] = {"version"} /\ ServerExpected["security"] = {"security"}
      /\ ServerExpected["response"] = {"response"} /\ ServerExpected["shared"] = {"client init"}
      /\ ServerExpected["serving"] = {"format", "encodings", "request"}
      /\ DOMAIN ServerExpected = {"version", "security", "response", "shared", "serving"}
  BY DEF ServerExpected
<1> DEFINE named == Head(toServer).kind = IF server.at = "shared" THEN "client init" ELSE server.at
<1>0. ASSUME named, server.at # "serving" PROVE Head(toServer).kind \in ServerExpected[server.at]
  BY <1>0, <1>1
<1>2. CASE Greeting
  <2>1. server.at = "version"
    BY <1>1, <1>2, NextUp DEF Greeting, Situation
  <2>2. Head(toServer).kind = "version"
    BY <2>1, <1>1, <1>2, NextUp DEF Greeting
  <2> QED
    BY <1>0, <1>2, <2>1, <2>2
<1>3. CASE Agreed /\ Choosing
  <2>1. server.at = "security"
    BY <1>1, <1>3, NextUp DEF Choosing
  <2>2. Head(toServer).kind = "security"
    BY <2>1, <1>1, <1>3, NextUp DEF Choosing
  <2> QED
    BY <1>0, <1>3, <2>1, <2>2
<1>4. CASE Agreed /\ Proving
  <2>1. ClientInit = Message("client init", "shared")
    BY DEF ClientInit
  <2>2. named /\ server.at \in {"response", "shared"}
    BY <1>1, <1>4, <2>1, NextUp DEF Proving
  <2> QED
    BY <1>0, <1>4, <2>2
<1>5. CASE Refused \/ GaveUp
  BY <1>5 DEF Refused, GaveUp
<1>6. CASE Serving
  <2>1. client = "serving" /\ toServer \in Seq(Requests) /\ server.at = "serving"
    BY <1>6 DEF Serving
  <2>2. Head(toServer) \in Requests
    BY <2>1
  <2> QED
    BY <1>1, <1>6, <2>1, <2>2 DEF Requests
<1> QED
  BY <1>2, <1>3, <1>4, <1>5, <1>6 DEF Understanding, Agreed

LEMMA ServerReadsVersionStep == Understanding /\ ServerReadsVersion => Understanding'
<1> SUFFICES ASSUME Understanding, ServerReadsVersion PROVE Understanding'
  OBVIOUS
<1> DEFINE m == Head(toServer).value
<1>1. /\ server.at = "version" /\ toServer # <<>> /\ ~closed /\ toServer' = Tail(toServer)
      /\ UNCHANGED <<client, minor, password, wanted, sent>>
  BY DEF ServerReadsVersion, ServerReads
<1>2. /\ server' = [server EXCEPT !.minor = m, !.at =
                       IF server.types = {} THEN "closed"
                       ELSE IF m >= 7 THEN "security"
                       ELSE IF VNC \in server.types THEN "response" ELSE "shared"]
      /\ toClient' = toClient \o
             (IF m >= 7
              THEN <<Message("types", server.types)>>
                      \o (IF server.types = {} THEN Reason ELSE <<>>)
              ELSE IF server.types = {} THEN <<Message("security3", "refused")>> \o Reason
              ELSE IF VNC \in server.types
              THEN <<Message("security3", VNC), Message("challenge", "16")>>
              ELSE <<Message("security3", IF None \in server.types THEN None ELSE "other")>>)
      /\ closed' = (server.types = {})
  BY DEF ServerReadsVersion
<1>3. \/ /\ minor = 3
         /\ Situation("security3", "version", <<>>, <<Message("version", 3)>>)
      \/ /\ minor \in {7, 8}
         /\ Situation("types", "version", <<>>, <<Message("version", minor)>>)
  <2>1. Greeting
    BY <1>1, UnderstoodByServer DEF ServerExpected
  <2> QED
    BY <1>1, <2>1 DEF Greeting, Situation
<1>4. m = minor /\ toServer' = <<>> /\ toClient = <<>> /\ m \in {3, 7, 8}
      /\ (m >= 7 <=> m # 3) /\ client = IF m = 3 THEN "security3" ELSE "types"
  BY <1>1, <1>3, OneMessage, HeadKinds DEF Situation
<1> HIDE DEF m
<1>5. server' \in Servers /\ server'.minor = m /\ server'.types = server.types
      /\ server'.at = IF server.types = {} THEN "closed"
                      ELSE IF m >= 7 THEN "security"
                      ELSE IF VNC \in server.types THEN "response" ELSE "shared"
  <2>1. server \in Servers
    BY DEF Understanding
  <2> QED
    BY <1>2, <1>4, <2>1 DEF Servers
<1>6. CASE server.types = {} /\ m # 3
  <2>1. toClient' = <<Message("types", {})>> \o Reason
    BY <1>2, <1>4, <1>6, ThenReason, TwoMessages
  <2>2. Refused'
    BY <1>1, <1>2, <1>4, <1>5, <1>6, <2>1 DEF Refused, Situation
  <2> QED
    BY <1>1, <1>2, <1>4, <1>5, <1>6, <2>2 DEF Understanding
<1>7. CASE server.types = {} /\ m = 3
  <2>1. toClient' = <<Message("security3", "refused")>> \o Reason
    BY <1>2, <1>4, <1>7, ThenReason, TwoMessages
  <2>2. Refused'
    BY <1>1, <1>2, <1>4, <1>5, <1>7, <2>1 DEF Refused, Situation
  <2> QED
    BY <1>1, <1>2, <1>4, <1>5, <1>7, <2>2 DEF Understanding
<1>8. CASE server.types # {} /\ m # 3
  <2>1. toClient' = <<Message("types", server'.types)>>
    BY <1>2, <1>4, <1>5, <1>8, OneMessage
  <2>2. Agreed' /\ Choosing'
    BY <1>1, <1>4, <1>5, <1>8, <2>1 DEF Agreed, Choosing, Situation
  <2> QED
    BY <1>1, <1>2, <1>4, <1>5, <1>8, <2>2 DEF Understanding
<1>9. CASE server.types # {} /\ m = 3 /\ VNC \in server.types
  <2>1. toClient' = <<Message("security3", VNC), Message("challenge", "16")>>
    BY <1>2, <1>4, <1>9, TwoMessages
  <2>2. Agreed' /\ Choosing'
    BY <1>1, <1>4, <1>5, <1>9, <2>1 DEF Agreed, Choosing, Situation
  <2> QED
    BY <1>1, <1>2, <1>4, <1>5, <1>9, <2>2 DEF Understanding
<1>10. CASE server.types # {} /\ m = 3 /\ VNC \notin server.types
  <2>1. \E security \in {None, "other"} : toClient' = <<Message("security3", security)>>
    BY <1>2, <1>4, <1>10, OneMessage
  <2>2. Agreed' /\ Choosing'
    BY <1>1, <1>4, <1>5, <1>10, <2>1 DEF Agreed, Choosing, Situation
  <2> QED
    BY <1>1, <1>2, <1>4, <1>5, <1>10, <2>2 DEF Understanding
<1> QED
  BY <1>6, <1>7, <1>8, <1>9, <1>10

LEMMA ServerGone ==
    ASSUME Understanding, NEW at \in {"response", "shared", "serving", "closed"}, NEW out,
           ServerGoes(at, out)
    PROVE  /\ server' \in Servers /\ server'.at = at /\ server'.minor = server.minor
           /\ server'.types = server.types /\ toClient' = toClient \o out
           /\ UNCHANGED <<client, minor, password, sent>>
BY DEF ServerGoes, Understanding, Servers

LEMMA ServerReadsSecurityStep == Understanding /\ ServerReadsSecurity => Understanding'
<1> SUFFICES ASSUME Understanding, ServerReadsSecurity PROVE Understanding'
  OBVIOUS
<1> DEFINE security == Head(toServer).value
           results == IF server.minor >= 8 THEN <<Message("result", "ok")>> ELSE <<>>
<1>1. /\ server.at = "security" /\ toServer # <<>> /\ ~closed /\ toServer' = Tail(toServer)
  BY DEF ServerReadsSecurity, ServerReads
<1>2. /\ security = VNC => Continues("response", <<Message("challenge", "16")>>)
      /\ security # VNC => Continues("shared", results)
  BY DEF ServerReadsSecurity
<1>3. /\ Agreed
      /\ \/ minor \in {7, 8} /\ Situation("challenge", "security", <<>>, <<Message("security", VNC)>>)
         \/ minor = 8 /\ Situation("result", "security", <<>>, <<Message("security", None)>>)
         \/ minor = 7 /\ Situation("init", "security", <<>>, <<Message("security", None), ClientInit>>)
  <2>1. Agreed /\ Choosing
    BY <1>1, UnderstoodByServer DEF ServerExpected
  <2> QED
    BY <1>1, <2>1 DEF Choosing, Situation
<1>4. VNC # None
  BY DEF VNC, None
<1> HIDE DEF security
<1>5. CASE minor \in {7, 8} /\ Situation("challenge", "security", <<>>, <<Message("security", VNC)>>)
  <2>1. security = VNC /\ toServer' = <<>> /\ toClient = <<>> /\ client = "challenge"
    BY <1>1, <1>5, OneMessage, HeadKinds DEF Situation, security
  <2>2. /\ ServerGoes("response", <<Message("challenge", "16")>>)
        /\ UNCHANGED <<closed, wanted>>
    BY <1>2, <2>1 DEF Continues
  <2>3. /\ server' \in Servers /\ server'.at = "response" /\ server'.minor = server.minor
        /\ server'.types = server.types /\ toClient' = <<Message("challenge", "16")>>
        /\ UNCHANGED <<client, minor, password, sent>>
    BY <2>1, <2>2, ServerGone, OneMessage
  <2>4. Agreed' /\ Proving'
    BY <1>3, <2>1, <2>3 DEF Agreed, Proving, Situation
  <2> QED
    BY <1>1, <2>2, <2>3, <2>4 DEF Understanding
<1>6. CASE minor = 8 /\ Situation("result", "security", <<>>, <<Message("security", None)>>)
  <2>1. security # VNC /\ toServer' = <<>> /\ toClient = <<>> /\ client = "result"
    BY <1>1, <1>4, <1>6, OneMessage, HeadKinds DEF Situation, security
  <2>2. ServerGoes("shared", results) /\ UNCHANGED <<closed, wanted>>
    BY <1>2, <2>1 DEF Continues
  <2>3. results = <<Message("result", "ok")>>
    BY <1>3, <1>6 DEF Agreed
  <2>4. /\ server' \in Servers /\ server'.at = "shared" /\ server'.minor = server.minor
        /\ server'.types = server.types /\ toClient' = <<Message("result", "ok")>>
        /\ UNCHANGED <<client, minor, password, sent>>
    BY <2>1, <2>2, <2>3, ServerGone, OneMessage
  <2>5. Agreed' /\ Proving'
    BY <1>3, <2>1, <2>4 DEF Agreed, Proving, Situation
  <2> QED
    BY <1>1, <2>2, <2>4, <2>5 DEF Understanding
<1>7. CASE minor = 7 /\ Situation("init", "security", <<>>, <<Message("security", None), ClientInit>>)
  <2>1. security # VNC /\ toServer' = <<ClientInit>> /\ toClient = <<>> /\ client = "init"
    BY <1>1, <1>4, <1>7, TwoMessages, Fields DEF Situation, security
  <2>2. ServerGoes("shared", results) /\ UNCHANGED <<closed, wanted>>
    BY <1>2, <2>1 DEF Continues
  <2>3. results = <<>>
    BY <1>3, <1>7 DEF Agreed
  <2>4. /\ server' \in Servers /\ server'.at = "shared" /\ server'.minor = server.minor
        /\ server'.types = server.types /\ toClient' = <<>>
        /\ UNCHANGED <<client, minor, password, sent>>
    BY <2>1, <2>2, <2>3, ServerGone, ThreeMessages
  <2>5. Agreed' /\ Proving'
    BY <1>3, <2>1, <2>4 DEF Agreed, Proving, Situation
  <2> QED
    BY <1>1, <2>2, <2>4, <2>5 DEF Understanding
<1> QED
  BY <1>3, <1>5, <1>6, <1>7

LEMMA ServerReadsResponseStep == Understanding /\ ServerReadsResponse => Understanding'
<1> SUFFICES ASSUME Understanding, ServerReadsResponse PROVE Understanding'
  OBVIOUS
<1> DEFINE wrong == <<Message("result", "wrong")>> \o (IF server.minor >= 8 THEN Reason ELSE <<>>)
<1>1. /\ server.at = "response" /\ toServer # <<>> /\ ~closed /\ toServer' = Tail(toServer)
  BY DEF ServerReadsResponse, ServerReads
<1>2. /\ server.accepts => Continues("shared", <<Message("result", "ok")>>)
      /\ ~server.accepts => Refuses(wrong)
  BY DEF ServerReadsResponse
<1>3. Agreed /\ Situation("result", "response", <<>>, <<Message("response", "des")>>)
  <2>1. Agreed /\ Proving
    BY <1>1, UnderstoodByServer DEF ServerExpected
  <2> QED
    BY <1>1, <2>1 DEF Proving, Situation
<1>4. toServer' = <<>> /\ toClient = <<>> /\ client = "result"
  BY <1>1, <1>3, OneMessage DEF Situation
<1>5. CASE server.accepts
  <2>1. ServerGoes("shared", <<Message("result", "ok")>>) /\ UNCHANGED <<closed, wanted>>
    BY <1>2, <1>5 DEF Continues
  <2>2. /\ server' \in Servers /\ server'.at = "shared" /\ server'.minor = server.minor
        /\ server'.types = server.types /\ toClient' = <<Message("result", "ok")>>
        /\ UNCHANGED <<client, minor, password, sent>>
    BY <1>4, <2>1, ServerGone, OneMessage
  <2>3. Agreed' /\ Proving'
    BY <1>3, <1>4, <2>2 DEF Agreed, Proving, Situation
  <2> QED
    BY <1>1, <2>1, <2>2, <2>3 DEF Understanding
<1>6. CASE ~server.accepts
  <2>1. ServerGoes("closed", wrong) /\ closed' = TRUE /\ UNCHANGED wanted
    BY <1>2, <1>6 DEF Refuses
  <2>2. /\ server' \in Servers /\ server'.at = "closed" /\ toClient' = <<>> \o wrong
        /\ UNCHANGED <<client, minor, password, sent>>
    BY <1>4, <2>1, ServerGone
  <2>3. /\ minor = 8 => wrong = <<Message("result", "wrong")>> \o Reason
        /\ minor # 8 => wrong = <<Message("result", "wrong")>>
    <3>1. server.minor = minor /\ (minor >= 8 <=> minor = 8)
      BY <1>3 DEF Agreed
    <3>2. minor # 8 => wrong = <<Message("result", "wrong")>> \o <<>>
      BY <3>1
    <3>3. minor = 8 => wrong = <<Message("result", "wrong")>> \o Reason
      BY <3>1
    <3> QED
      BY <3>2, <3>3, OneMessage
  <2>4. <<>> \o wrong = wrong
    BY <2>3, OneMessage, TwoMessages, ThenReason
  <2>5. Refused'
    BY <1>4, <2>1, <2>2, <2>3, <2>4 DEF Refused, Situation
  <2> QED
    BY <1>1, <2>1, <2>2, <2>5 DEF Understanding
<1> QED
  BY <1>5, <1>6

LEMMA ServerReadsClientInitStep == Understanding /\ ServerReadsClientInit => Understanding'
<1> SUFFICES ASSUME Understanding, ServerReadsClientInit PROVE Understanding'
  OBVIOUS
<1>1. /\ server.at = "shared" /\ toServer # <<>> /\ ~closed /\ toServer' = Tail(toServer)
      /\ ServerGoes("serving", <<Message("init", "size")>>) /\ UNCHANGED <<closed, wanted>>
  BY DEF ServerReadsClientInit, ServerReads, Continues
<1>2. Agreed /\ Situation("init", "shared", <<>>, <<ClientInit>>)
  <2>1. Agreed /\ Proving
    BY <1>1, UnderstoodByServer DEF ServerExpected
  <2> QED
    BY <1>1, <2>1 DEF Proving, Situation
<1>3. toServer' = <<>> /\ toClient = <<>> /\ client = "init"
  BY <1>1, <1>2, OneMessage DEF Situation
<1>4. /\ server' \in Servers /\ server'.at = "serving" /\ toClient' = <<Message("init", "size")>>
      /\ UNCHANGED <<client, minor, password, sent>>
  BY <1>1, <1>3, ServerGone, OneMessage
<1>5. /\ toClient' # <<>> /\ Head(toClient') = Message("init", "size")
      /\ Tail(toClient') \in Seq(Served)
  BY <1>4, OneMessage
<1>6. toClient' \in Seq(Opened)
  <2>1. Message("init", "size") \in Opened
    BY DEF Opened
  <2> QED
    BY <1>4, <2>1
<1>7. Serving'
  BY <1>3, <1>4, <1>5, <1>6 DEF Serving
<1> QED
  BY <1>1, <1>4, <1>7 DEF Understanding

LEMMA ServerReadsRequestStep == Understanding /\ ServerReadsRequest => Understanding'
<1> SUFFICES ASSUME Understanding, ServerReadsRequest PROVE Understanding'
  OBVIOUS
<1>1. PICK kind \in {"format", "encodings", "request"} :
          /\ server.at = "serving" /\ toServer # <<>> /\ ~closed /\ Head(toServer).kind = kind
          /\ toServer' = Tail(toServer) /\ wanted' = (wanted \/ kind = "request")
  BY DEF ServerReadsRequest, ServerReads
<1>2. UNCHANGED <<closed, toClient, client, minor, password, server, sent>>
  BY DEF ServerReadsRequest
<1>3. Serving
  BY <1>1, UnderstoodByServer DEF ServerExpected
<1>4. /\ client = "serving" /\ toClient \in Seq(Served) /\ toServer \in Seq(Requests)
      /\ \/ wanted
         \/ \E i \in 1..Len(toClient) : toClient[i].kind = "update"
         \/ \E i \in 1..Len(toServer) : toServer[i].kind = "request"
  BY <1>1, <1>3 DEF Serving
<1>5. /\ toServer' \in Seq(Requests) /\ Len(toServer) \in Nat
      /\ Len(toServer') = Len(toServer) - 1 /\ Head(toServer) = toServer[1]
      /\ \A i \in 1..Len(toServer) - 1 : toServer'[i] = toServer[i + 1]
  BY <1>1, <1>4
<1>6. \/ wanted'
      \/ \E i \in 1..Len(toClient') : toClient'[i].kind = "update"
      \/ \E i \in 1..Len(toServer') : toServer'[i].kind = "request"
  <2>1. ASSUME NEW i \in 1..Len(toServer), toServer[i].kind = "request"
        PROVE  wanted' \/ \E j \in 1..Len(toServer') : toServer'[j].kind = "request"
    <3>1. CASE i = 1
      BY <1>1, <1>5, <2>1, <3>1
    <3>2. CASE i # 1
      <4>1. i - 1 \in 1..Len(toServer') /\ toServer'[i - 1] = toServer[i]
        BY <1>5, <3>2
      <4> QED
        BY <2>1, <4>1
    <3> QED
      BY <3>1, <3>2
  <2>2. wanted => wanted'
    BY <1>1
  <2> QED
    BY <1>2, <1>4, <2>1, <2>2
<1>7. wanted' \in BOOLEAN
  BY <1>1
<1>8. server' \in Servers /\ minor' \in {0, 3, 7, 8} /\ closed' \in BOOLEAN /\ password' \in BOOLEAN
      /\ server'.at = "serving"
  BY <1>1, <1>2 DEF Understanding
<1>9. Serving'
  BY <1>2, <1>4, <1>5, <1>6, <1>8 DEF Serving
<1> QED
  BY <1>7, <1>8, <1>9 DEF Understanding

LEMMA ServerSendsStep == Understanding /\ ServerSends => Understanding'
<1> SUFFICES ASSUME Understanding, ServerSends PROVE Understanding'
  OBVIOUS
<1>1. PICK kind \in Expected.serving :
          /\ wanted' = (wanted /\ kind # "update")
          /\ toClient' = Append(toClient, Message(kind, "any"))
  BY DEF ServerSends
<1>2. /\ server.at = "serving" /\ ~closed
      /\ UNCHANGED <<toServer, closed, client, minor, password, server>>
  BY DEF ServerSends
<1>3. Serving
  BY <1>2 DEF Understanding, Greeting, Agreed, Choosing, Proving, Refused, GaveUp, Serving,
              Situation
<1> DEFINE message == Message(kind, "any")
<1>4. message \in Served /\ message.kind = kind
  BY ServedTyped, Fields
<1>5. /\ server' \in Servers /\ minor' \in {0, 3, 7, 8} /\ closed' \in BOOLEAN
      /\ wanted' \in BOOLEAN /\ password' \in BOOLEAN /\ server'.at = "serving"
  BY <1>1, <1>2 DEF Understanding
<1> HIDE DEF message
<1>6. CASE client = "init"
  <2>1. /\ toServer = <<>> /\ toClient # <<>> /\ Head(toClient) = Message("init", "size")
        /\ toClient \in Seq(Opened) /\ Tail(toClient) \in Seq(Served)
    BY <1>3, <1>6 DEF Serving
  <2>2. /\ toClient' \in Seq(Opened) /\ toClient' # <<>> /\ Head(toClient') = Head(toClient)
        /\ Tail(toClient') = Append(Tail(toClient), message)
    BY <1>1, <1>4, <2>1, AppendBehind DEF Opened, message
  <2>3. Tail(toClient') \in Seq(Served)
    <3>1. message \in Served
      BY <1>4
    <3> HIDE DEF message
    <3>2. Append(Tail(toClient), message) \in Seq(Served)
      BY <2>1, <3>1, AppendProperties
    <3> QED
      BY <2>2, <3>2
  <2> QED
    BY <1>2, <1>5, <1>6, <2>1, <2>2, <2>3 DEF Understanding, Serving
<1>7. CASE client = "serving"
  <2>1. /\ toClient \in Seq(Served) /\ toServer \in Seq(Requests)
        /\ \/ wanted
           \/ \E i \in 1..Len(toClient) : toClient[i].kind = "update"
           \/ \E i \in 1..Len(toServer) : toServer[i].kind = "request"
    BY <1>3, <1>7 DEF Serving
  <2>2. /\ toClient' \in Seq(Served) /\ Len(toClient) \in Nat
        /\ Len(toClient') = Len(toClient) + 1 /\ toClient'[Len(toClient) + 1] = message
        /\ \A i \in 1..Len(toClient) : toClient'[i] = toClient[i]
    BY <1>1, <1>4, <2>1 DEF message
  <2>3. \/ wanted'
        \/ \E i \in 1..Len(toClient') : toClient'[i].kind = "update"
        \/ \E i \in 1..Len(toServer') : toServer'[i].kind = "request"
    <3>1. CASE wanted
      <4>1. CASE kind = "update"
        <5>1. Len(toClient) + 1 \in 1..Len(toClient') /\ toClient'[Len(toClient) + 1].kind = "update"
          BY <1>4, <2>2, <4>1
        <5> QED
          BY <5>1
      <4>2. CASE kind # "update"
        BY <1>1, <3>1, <4>2
      <4> QED
        BY <4>1, <4>2
    <3>2. ASSUME NEW i \in 1..Len(toClient), toClient[i].kind = "update"
          PROVE  \E j \in 1..Len(toClient') : toClient'[j].kind = "update"
      <4>1. i \in 1..Len(toClient') /\ toClient'[i].kind = "update"
        BY <2>2, <3>2
      <4> QED
        BY <4>1
    <3>3. (\E i \in 1..Len(toServer) : toServer[i].kind = "request")
              => \E i \in 1..Len(toServer') : toServer'[i].kind = "request"
      BY <1>2
    <3> QED
      BY <2>1, <3>1, <3>2, <3>3
  <2> QED
    BY <1>2, <1>5, <1>7, <2>1, <2>2, <2>3 DEF Understanding, Serving
<1> QED
  BY <1>3, <1>6, <1>7 DEF Serving

LEMMA ServerClosesStep == Understanding /\ ServerCloses => Understanding'
<1> SUFFICES ASSUME Understanding, ServerCloses PROVE Understanding'
  OBVIOUS
<1>1. /\ server.at # "down" /\ closed' = TRUE
      /\ UNCHANGED <<toClient, toServer, client, minor, password, server, wanted, sent>>
  BY DEF ServerCloses
<1>2. Greeting => Greeting'
  BY <1>1 DEF Greeting, Situation
<1>3. Agreed => Agreed'
  BY <1>1 DEF Agreed, Choosing, Proving, Situation
<1>4. (Refused => Refused') /\ (GaveUp => GaveUp') /\ (Serving => Serving')
  BY <1>1 DEF Refused, GaveUp, Serving, Situation
<1>5. /\ server' \in Servers /\ minor' \in {0, 3, 7, 8} /\ closed' \in BOOLEAN
      /\ wanted' \in BOOLEAN /\ password' \in BOOLEAN /\ server'.at # "down"
  BY <1>1 DEF Understanding
<1> QED
  BY <1>2, <1>3, <1>4, <1>5 DEF Understanding

-----------------------------------------------------------------------------
(* The invariant and what follows from it.                                 *)

LEMMA InitUnderstood == RFBInit => Understanding
<1> SUFFICES ASSUME RFBInit PROVE Understanding
  OBVIOUS
<1>1. server \in Servers
  BY DEF RFBInit, NoServer, Servers
<1>2. Greeting
  BY DEF RFBInit, Greeting, Situation, NoServer
<1> QED
  BY <1>1, <1>2 DEF RFBInit, Understanding

LEMMA StepUnderstood == Understanding /\ [RFBNext]_rfbVars => Understanding'
<1> SUFFICES ASSUME Understanding, [RFBNext]_rfbVars PROVE Understanding'
  OBVIOUS
<1>1. CASE Client
  BY <1>1, ReadVersionStep, ReadSecurity3Step, ReadTypesStep, ReadChallengeStep,
     ReadResultStep, ReadReasonStep, ReadInitStep, ServeStep, ClientFailsStep DEF Client
<1>2. CASE Server
  BY <1>2, DialStep, ServerReadsVersionStep, ServerReadsSecurityStep, ServerReadsResponseStep,
     ServerReadsClientInitStep, ServerReadsRequestStep, ServerSendsStep, ServerClosesStep
     DEF Server
<1>3. CASE UNCHANGED rfbVars
  BY <1>3 DEF rfbVars, Understanding, Greeting, Agreed, Choosing, Proving, Refused, GaveUp,
              Serving, Situation
<1> QED
  BY <1>1, <1>2, <1>3 DEF RFBNext

\* handshake, negotiateSecurity and serve never meet a message they do not expect,
\* nor does a server that follows the protocol: whatever versions there are,
\* whatever security it offers, with and without a password.
THEOREM HandshakeUnderstoodCorrect == RFBSpec => []HandshakeUnderstood
<1>1. Understanding => HandshakeUnderstood
  BY UnderstoodByClient, UnderstoodByServer DEF HandshakeUnderstood
<1> QED
  BY <1>1, InitUnderstood, StepUnderstood, PTL DEF RFBSpec

\* Client and server never wait for each other, in any version and for any
\* number of messages: no result is read that is not sent, and while serving
\* every update is answered by a request.
THEOREM NeverBothWaitCorrect == RFBSpec => []NeverBothWait
<1>1. Understanding => NeverBothWait
  <2> SUFFICES ASSUME Understanding, client \in Reading, toClient = <<>>, toServer = <<>>, ~closed
               PROVE  server.at = "down" \/ (server.at = "serving" /\ wanted)
    BY DEF NeverBothWait
  <2>1. CASE Greeting
    BY <2>1, OneMessage DEF Greeting, Situation
  <2>2. CASE Agreed /\ Choosing
    BY <2>2, OneMessage, TwoMessages DEF Choosing, Situation
  <2>3. CASE Agreed /\ Proving
    BY <2>3, OneMessage DEF Proving, Situation
  <2>4. CASE Refused \/ GaveUp
    BY <2>4, Readers DEF Refused, GaveUp
  <2>5. CASE Serving
    BY <2>5 DEF Serving
  <2> QED
    BY <2>1, <2>2, <2>3, <2>4, <2>5 DEF Understanding, Agreed
<1> QED
  BY <1>1, InitUnderstood, StepUnderstood, PTL DEF RFBSpec
=============================================================================
