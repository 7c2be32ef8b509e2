---------------------------- MODULE HelperStack ----------------------------
(***************************************************************************)
(* rdp.Session.Run and web.Session.Run (internal/rdp/session.go and        *)
(* internal/web/session.go, the same code up to the third program) and     *)
(* what startRDP and startWeb make of their result.  Run starts Xvfb,      *)
(* x11vnc and a client program one after the other, then a VNC bridge that *)
(* draws on the terminal, and waits for the first helper to exit or for    *)
(* its context.  Beside Run there are a waiter per helper, which reports   *)
(* the exit on a channel that is no longer read once Run has returned, and *)
(* the frame loop of the bridge.                                           *)
(*                                                                         *)
(* Abstracted: ports, arguments, environments and log output; how the      *)
(* bridge gets its frames (FramePipeline); the reload timer of a web page. *)
(***************************************************************************)
EXTENDS Integers, Sequences

CONSTANT MaxFrames   \* bound: frames the bridge gets

ASSUME BoundAssumption == MaxFrames \in Nat

VARIABLES
    ctx,       \* the session's context, given to Run: "live" or "done"
    stopped,   \* Run's own cancel was called
    isCurrent, \* isCurrentSession of the instance that called Run
    pc,        \* where Run is, then where its caller is
    err,       \* Run returned an error
    proc,      \* of each helper: "none", "alive", "exited" (Wait returned), "reaped"
    exits,     \* the channel of process exits
    line,      \* what Xvfb wrote: "none", "number", "junk"
    bridge,    \* the frame loop: "none", "idle", "draw" (frame checked), "stopped"
    frames,    \* frames drawn or refused so far
    screen,    \* "other", "frame" or "failure"
    fault      \* history: something went wrong that was not our cancelling

vars == <<ctx, stopped, isCurrent, pc, err, proc, exits, line, bridge, frames, screen, fault>>
context == <<ctx, stopped, isCurrent>>
output  == <<bridge, frames, screen>>

Helpers == {"Xvfb", "x11vnc", "app"}

RunCtxDone == ctx = "done" \/ stopped

\* The context the bridge runs under.
CallersDone == ctx = "done"
BridgeDone == RunCtxDone

CapacityOne == 1
Capacity == 3

Go(next) == pc' = next

-----------------------------------------------------------------------------
(* Run *)

\* startXvfb and startProcess.  Start refuses to run under a done context.
Start(h, at, next) ==
    /\ pc = at
    /\ \/ /\ ~RunCtxDone
          /\ proc' = [proc EXCEPT ![h] = "alive"]
          /\ Go(next)
          /\ UNCHANGED <<err, fault>>
       \/ /\ Go("unwind")
          /\ err' = TRUE
          /\ fault' = (fault \/ ~RunCtxDone)
          /\ UNCHANGED proc
    /\ UNCHANGED <<context, exits, line, output>>

StartXvfb   == Start("Xvfb", "xvfb", "display")
StartX11vnc == Start("x11vnc", "x11vnc", "app")
StartApp    == Start("app", "app", "bridge")

\* The select at the end of startXvfb.
DisplayFails(next) == /\ Go("unwind")
                      /\ err' = TRUE
                      /\ exits' = next
                      /\ UNCHANGED fault

DisplayCancelled == RunCtxDone /\ DisplayFails(exits)
DisplayExit      == exits # <<>> /\ DisplayFails(Tail(exits))
DisplayJunk      == line = "junk" /\ DisplayFails(exits)
DisplayTimeout   == Go("unwind") /\ err' = TRUE /\ fault' = TRUE /\ UNCHANGED exits
DisplayChosen    == line = "number" /\ Go("port") /\ UNCHANGED <<err, exits, fault>>

AwaitDisplayUntimed ==
    /\ pc = "display"
    /\ DisplayCancelled \/ DisplayExit \/ DisplayJunk \/ DisplayChosen
    /\ UNCHANGED <<context, proc, line, output>>
AwaitDisplay ==
    /\ pc = "display"
    /\ DisplayCancelled \/ DisplayExit \/ DisplayJunk \/ DisplayTimeout \/ DisplayChosen
    /\ UNCHANGED <<context, proc, line, output>>

\* availableLoopbackPort
ChoosePort ==
    /\ pc = "port"
    /\ \/ Go("x11vnc") /\ UNCHANGED <<err, fault>>
       \/ Go("unwind") /\ err' = TRUE /\ fault' = TRUE
    /\ UNCHANGED <<context, proc, exits, line, output>>

StartBridge ==
    /\ pc = "bridge"
    /\ bridge' = "idle"
    /\ Go("wait")
    /\ UNCHANGED <<context, err, proc, exits, line, frames, screen, fault>>

\* The select at the end of Run: an exit that our own cancelling caused is no error.
ContextEnds ==
    /\ ctx = "done"
    /\ UNCHANGED <<err, exits>>
HelperEnds ==
    /\ exits # <<>>
    /\ exits' = Tail(exits)
    /\ err' = ~RunCtxDone

AwaitContext ==
    /\ pc = "wait"
    /\ ContextEnds
    /\ Go("unwind")
    /\ UNCHANGED <<context, proc, line, output, fault>>
AwaitEnd ==
    /\ pc = "wait"
    /\ ContextEnds \/ HelperEnds
    /\ Go("unwind")
    /\ UNCHANGED <<context, proc, line, output, fault>>

\* The deferred calls: forget the bridge, cancel, remove the directory.
Unwind ==
    /\ pc = "unwind"
    /\ stopped' = TRUE
    /\ Go("returned")
    /\ UNCHANGED <<ctx, isCurrent, err, proc, exits, line, output, fault>>

\* startRDP and startWeb
ReportsAnyError == err
Reports == err /\ ctx = "live"

Returned ==
    /\ pc = "returned"
    /\ Go(IF Reports /\ isCurrent THEN "failure" ELSE "done")
    /\ UNCHANGED <<context, err, proc, exits, line, output, fault>>

ShowFailure ==
    /\ pc = "failure"
    /\ screen' = "failure"
    /\ Go("done")
    /\ UNCHANGED <<context, err, proc, exits, line, bridge, frames, fault>>

-----------------------------------------------------------------------------
(* Helpers, their waiters, and the bridge *)

XvfbWrites ==
    /\ proc["Xvfb"] = "alive"
    /\ line = "none"
    /\ line' \in {"number", "junk"}
    /\ fault' = (fault \/ line' = "junk")
    /\ UNCHANGED <<context, pc, err, proc, exits, output>>

\* A helper ends on its own, or because its context is done.
HelperCrashes(h) ==
    /\ proc[h] = "alive"
    /\ ~RunCtxDone
    /\ proc' = [proc EXCEPT ![h] = "exited"]
    /\ fault' = TRUE
    /\ UNCHANGED <<context, pc, err, exits, line, output>>

HelperKilled(h) ==
    /\ proc[h] = "alive"
    /\ RunCtxDone
    /\ proc' = [proc EXCEPT ![h] = "exited"]
    /\ UNCHANGED <<context, pc, err, exits, line, output, fault>>

\* The waiter of the helper sends on a channel that may have no reader any more.
Reap(h) ==
    /\ proc[h] = "exited"
    /\ Len(exits) < Capacity
    /\ exits' = Append(exits, h)
    /\ proc' = [proc EXCEPT ![h] = "reaped"]
    /\ UNCHANGED <<context, pc, err, line, output, fault>>

\* OnFrame.  A woken frame loop may miss that its context is done meanwhile.
FrameCheck ==
    /\ bridge = "idle"
    /\ frames < MaxFrames
    /\ frames' = frames + 1
    /\ bridge' = IF isCurrent THEN "draw" ELSE "idle"
    /\ UNCHANGED <<context, pc, err, proc, exits, line, screen, fault>>

FrameDraw ==
    /\ bridge = "draw"
    /\ bridge' = "idle"
    /\ screen' = "frame"
    /\ UNCHANGED <<context, pc, err, proc, exits, line, frames, fault>>

BridgeStops ==
    /\ bridge = "idle"
    /\ BridgeDone
    /\ bridge' = "stopped"
    /\ UNCHANGED <<context, pc, err, proc, exits, line, frames, screen, fault>>

-----------------------------------------------------------------------------
(* The server *)

\* switchSession and disposeDisplay: the session is cancelled and superseded.
Supersede ==
    /\ isCurrent
    /\ isCurrent' = FALSE
    /\ ctx' = "done"
    /\ UNCHANGED <<stopped, pc, err, proc, exits, line, output, fault>>

\* The server shuts down: only the context ends.
Shutdown ==
    /\ ctx = "live"
    /\ ctx' = "done"
    /\ UNCHANGED <<stopped, isCurrent, pc, err, proc, exits, line, output, fault>>

Init ==
    /\ ctx = "live"
    /\ stopped = FALSE
    /\ isCurrent = TRUE
    /\ pc = "xvfb"
    /\ err = FALSE
    /\ proc = [h \in Helpers |-> "none"]
    /\ exits = <<>>
    /\ line = "none"
    /\ bridge = "none"
    /\ frames = 0
    /\ screen = "other"
    /\ fault = FALSE

Run ==
    \/ StartXvfb
    \/ AwaitDisplay
    \/ ChoosePort
    \/ StartX11vnc
    \/ StartApp
    \/ StartBridge
    \/ AwaitEnd
    \/ Unwind
    \/ Returned
    \/ ShowFailure

Next ==
    \/ Run
    \/ XvfbWrites
    \/ \E h \in Helpers : HelperCrashes(h) \/ HelperKilled(h) \/ Reap(h)
    \/ FrameCheck
    \/ FrameDraw
    \/ BridgeStops
    \/ Supersede
    \/ Shutdown

Spec == Init /\ [][Next]_vars

\* The threads of the program run, and a killed helper exits.  Nothing obliges
\* Xvfb to write, a helper to crash, or the server to end the session.
Fairness ==
    /\ WF_vars(Run)
    /\ \A h \in Helpers : WF_vars(HelperKilled(h)) /\ WF_vars(Reap(h))
    /\ WF_vars(FrameDraw)
    /\ WF_vars(BridgeStops)

FairSpec == Spec /\ Fairness

-----------------------------------------------------------------------------
(* Properties *)

\* Every variable has its type.
TypeOK ==
    /\ ctx \in {"live", "done"}
    /\ stopped \in BOOLEAN
    /\ isCurrent \in BOOLEAN
    /\ pc \in {"xvfb", "display", "port", "x11vnc", "app", "bridge", "wait", "unwind",
               "returned", "failure", "done"}
    /\ err \in BOOLEAN
    /\ proc \in [Helpers -> {"none", "alive", "exited", "reaped"}]
    /\ exits \in Seq(Helpers)
    /\ line \in {"none", "number", "junk"}
    /\ bridge \in {"none", "idle", "draw", "stopped"}
    /\ frames \in 0..MaxFrames
    /\ screen \in {"other", "frame", "failure"}
    /\ fault \in BOOLEAN

\* The error screen means an error: replacing the session or stopping the
\* server, at whatever moment of the start or of the run, never shows it,
\* although both make helpers exit and Run return errors.
FailureIsReal ==
    pc = "failure" \/ screen = "failure" => fault

\* A session that is starting gets to the point where it shows the helpers'
\* picture, or returns: an Xvfb that never reports its display cannot hang it.
StartsOrReturns == <>(pc \in {"wait", "unwind", "returned", "failure", "done"})

\* Once something failed or the session was cancelled, Run returns.
RunEnds == (fault \/ ctx = "done") ~> pc = "done"

\* Run leaves nothing behind: when it has returned every helper it started is
\* killed and waited for, every waiter got rid of its report although nobody
\* reads it, and the bridge stops.
TornDown ==
    pc = "returned" ~> /\ \A h \in Helpers : proc[h] \in {"none", "reaped"}
                       /\ bridge \in {"none", "stopped"}
=============================================================================
