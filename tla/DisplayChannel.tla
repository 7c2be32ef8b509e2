--------------------------- MODULE DisplayChannel ---------------------------
(***************************************************************************)
(* The display channel of one Sun Ray: internal/display/client.go and the  *)
(* update procedures of render.go.  A renderer numbers drawing operations, *)
(* keeps them in a bounded history and sends them over UDP; readLoop       *)
(* accepts NACKs and keepalives; resendLoop replays from the history or,   *)
(* when the request is too large or NACKs storm, forgets the history and   *)
(* asks the session for a full redraw.  The network loses and reorders     *)
(* operations; the terminal, external, asks again for what it misses.      *)
(***************************************************************************)
EXTENDS OperationSequence, Sequences, FiniteSets

CONSTANTS
    HistorySize,   \* maxHistorySize
    MaxCharge,     \* maxResendCharge
    StormLimit,    \* resendStormLimit
    StormOps,      \* resendStormOps
    HasResync,     \* a session that called SetResyncHandler is attached
    CanClose,      \* the channel may be closed during the run
    MaxBatch,      \* most operations of one SendBatch            (bound)
    MaxUpdates,    \* updates the session starts by itself        (bound)
    MaxLosses,     \* operations the network loses                (bound)
    MaxFaults,     \* failing socket writes                       (bound)
    MaxStray,      \* NACKs the terminal had no reason to send    (bound)
    Ranges,        \* kinds of range the terminal asks for       (bound)
    Epochs,        \* epochs the firmware writes into a NACK      (bound)
    StrayFrom      \* first operations of stray NACKs             (bound)

ASSUME HistoryAssumption == HistorySize \in Nat \ {0} /\ HistorySize < Half
ASSUME ChargeAssumption == {MaxCharge, StormLimit, StormOps} \subseteq Nat \ {0}
ASSUME SwitchAssumption == {HasResync, CanClose} \subseteq BOOLEAN
ASSUME BoundAssumption ==
    /\ MaxBatch \in Nat \ {0}
    /\ {MaxUpdates, MaxLosses, MaxFaults, MaxStray} \subseteq Nat
    /\ Ranges \subseteq {"one", "rest", "open"}
    /\ Epochs \subseteq Nat
    /\ StrayFrom \subseteq Nat

VARIABLES
    opSeq,        \* Client.opSeq
    history,      \* keys of Client.history
    closed,       \* Client.closed
    script,       \* calls the update holding renderMu still has to make
    left,         \* operations SendBatch has yet to number; mu is held
    batch,        \* operations SendBatch has numbered and not yet sent
    boundary,     \* opSeq at the latest FlushHistory (auxiliary)
    painted,      \* highest operation of an update so far (auxiliary)
    superseded,   \* operations up to it drew what a fill has covered (auxiliary)
    reading,      \* NACK readLoop has let past the cooldown check
    queue,        \* nackRequests, capacity 1
    resendPc,     \* resendLoop
    req,          \* request resendLoop took
    windowCount,  \* resendWindowCount
    windowOps,    \* resendWindowOps
    cooldown,     \* nackCooldownUntil lies in the future
    redraw,       \* the session owes a full redraw
    slipped,      \* requests resend answered during this cooldown (auxiliary)
    lost,         \* operations the terminal lacks and will ask for (external)
    abandoned,    \* operations of this frame it no longer asks for (external)
    top,          \* highest operation number the terminal has seen (external)
    stained,      \* covered pixels were replayed over the fill (auxiliary)
    budget        \* what is left of the bounds

server   == <<opSeq, history, closed>>
renderer == <<script, left, batch, boundary, painted, superseded>>
resender == <<reading, queue, resendPc, req, windowCount, windowOps, cooldown, slipped>>
terminal == <<lost, abandoned, top, stained>>
vars     == <<server, renderer, resender, redraw, terminal, budget>>

NoRequest == [from |-> -1, to |-> -1, op |-> -1, last |-> -1]

\* The calls ShowImage, ShowImageRegions and ShowCalibrationTarget make while
\* they hold renderMu.  "fill" is a send that blackens the whole screen and
\* "bitmap" one that draws the new picture on it; the target's many sends are
\* two here.  ShowCalibrationImage, which fills and flushes in the order of
\* ShowImage, is called from nowhere.
Scripts == [ image   |-> <<"fill", "flush", "bitmap">>,
             regions |-> <<"send">>,
             target  |-> <<"flush", "fill", "bitmap">> ]

Sending == {"fill", "bitmap", "send"}

Idle   == script = <<>>

\* Nobody holds mu.  While SendBatch holds it no other action is taken: what the
\* other goroutines can do meanwhile does not touch what SendBatch touches, so
\* every interleaving has an equivalent one in which they wait.
MuFree == left = 0 /\ batch = {}

Spend(name) == budget[name] > 0 /\ budget' = [budget EXCEPT ![name] = @ - 1]

-----------------------------------------------------------------------------
\* The renderer.

BeginUpdate(kind) ==
    /\ Idle
    /\ Spend("updates")
    /\ script' = Scripts[kind]
    /\ UNCHANGED <<server, left, batch, boundary, painted, superseded, resender, redraw, terminal>>

\* frameLoop answers RequestFullFrame with one ShowImage of the newest frame.
BeginRedraw ==
    /\ Idle
    /\ redraw
    /\ redraw' = FALSE
    /\ script' = Scripts.image
    /\ UNCHANGED <<server, left, batch, boundary, painted, superseded, resender, terminal, budget>>

\* FlushHistory as a call of an update.
KeptHistory == history
ClearedHistory == {}

FlushHistory ==
    /\ ~Idle
    /\ Head(script) = "flush"
    /\ MuFree
    /\ history' = ClearedHistory
    /\ boundary' = opSeq
    /\ abandoned' = {}
    /\ script' = Tail(script)
    /\ UNCHANGED <<opSeq, closed, left, batch, painted, superseded, resender, redraw, lost, top,
                   stained, budget>>

\* SendBatch takes mu; n operations are to be numbered.
LockSend(n) ==
    /\ ~Idle
    /\ Head(script) \in Sending
    /\ MuFree
    /\ ~closed
    /\ left' = n
    /\ UNCHANGED <<server, script, batch, boundary, painted, superseded, resender, redraw,
                   terminal, budget>>

\* SendBatch on a closed channel fails, and the update returns the error.
SendClosed ==
    /\ ~Idle
    /\ Head(script) \in Sending
    /\ MuFree
    /\ closed
    /\ script' = <<>>
    /\ UNCHANGED <<server, left, batch, boundary, painted, superseded, resender, redraw,
                   terminal, budget>>

\* The history after operation seq is recorded: the oldest entry goes when
\* there are too many.
RecordedTrimmingNext(h, seq) ==
    LET g == h \cup {seq}
    IN  IF Cardinality(g) > HistorySize THEN g \ {seq - HistorySize + 1} ELSE g

Recorded(h, seq) ==
    LET g == h \cup {seq}
    IN  IF Cardinality(g) > HistorySize THEN g \ {seq - HistorySize} ELSE g

\* SendBatch refuses an operation that is larger than a datagram; the encoders
\* of tiles make none, and all others are small.
EncodeOp ==
    /\ left > 0
    /\ opSeq' = opSeq + 1
    /\ history' = Recorded(history, opSeq + 1)
    /\ left' = left - 1
    /\ batch' = batch \cup {opSeq + 1}
    /\ UNCHANGED <<closed, script, boundary, painted, superseded, resender, redraw, terminal,
                   budget>>

\* What becomes of the operations in sent when the network loses those in
\* dropped.  The rest arrives; that it arrives late shows only in when the
\* terminal asks again, and a NACK may come at any time.
Arrives(sent, dropped) ==
    /\ dropped \subseteq sent
    /\ Cardinality(dropped) \in 0..budget.losses
    /\ lost' = (lost \ sent) \cup dropped
    /\ top' \in {top} \cup (sent \ dropped)
    /\ \A s \in {top} \cup (sent \ dropped) : s <= top'

\* Every datagram of the batch is written.  A fill covers all that updates drew
\* before; a fill or a bitmap covers what a replay brought back of it, as far
\* as the bitmap reaches.
Transmit(dropped) ==
    /\ left = 0
    /\ batch # {}
    /\ Arrives(batch, dropped)
    /\ budget' = [budget EXCEPT !.losses = @ - Cardinality(dropped)]
    /\ batch' = {}
    /\ script' = Tail(script)
    /\ painted' = opSeq
    /\ superseded' = IF Head(script) = "fill" THEN painted ELSE superseded
    /\ stained' = (stained /\ Head(script) = "send")
    /\ UNCHANGED <<server, left, boundary, resender, redraw, abandoned>>

\* A write fails: the datagrams before it are out, the operations from s on
\* stay in the history unsent, and the update returns the error.
TransmitFails(s) ==
    /\ left = 0
    /\ s \in batch
    /\ Spend("faults")
    /\ lost' = lost \cup {b \in batch : b >= s}
    /\ batch' = {}
    /\ script' = <<>>
    /\ painted' = opSeq
    /\ UNCHANGED <<server, left, boundary, superseded, resender, redraw, abandoned, top, stained>>

\* Send(LocalCursor()) after a frame is not under renderMu: the cursor of one
\* session instance may fall between the calls of another one's update.
SendCursor ==
    /\ MuFree
    /\ ~closed
    /\ Spend("updates")
    /\ opSeq' = opSeq + 1
    /\ history' = Recorded(history, opSeq + 1)
    /\ lost' \in {lost, lost \cup {opSeq + 1}}
    /\ UNCHANGED <<closed, renderer, resender, redraw, abandoned, top, stained>>

Close ==
    /\ CanClose
    /\ ~closed
    /\ MuFree
    /\ closed' = TRUE
    /\ UNCHANGED <<opSeq, history, renderer, resender, redraw, terminal, budget>>

-----------------------------------------------------------------------------
\* readLoop.

ReadIdle == reading = NoRequest /\ MuFree

\* An empty packet is answered with a Pad that carries opSeq and no number of
\* its own; from it the terminal learns of operations it never saw.
KeepAlive ==
    /\ ReadIdle
    /\ ~closed
    /\ top' = opSeq
    /\ UNCHANGED <<server, renderer, resender, redraw, lost, abandoned, stained, budget>>

\* queueResend up to its first select: nothing passes during the cooldown.
AcceptsAnyTime(r) == ValidNACKRange(r.from, r.to)
Accepts(r) == ~cooldown /\ ValidNACKRange(r.from, r.to)

\* A request for operation op alone, for all the terminal has seen since, or
\* for everything from op on.
Request(kind, op, epoch) ==
    LET last == CASE kind = "one" -> op [] kind = "rest" -> top [] kind = "open" -> op
        wire == WireRange(op, last, epoch)
    IN  [from |-> wire.from, to |-> IF kind = "open" THEN OpenEnded ELSE wire.to,
         op |-> op, last |-> last]

\* Requests left over from before a restart of the server name any operations;
\* requests for what is merely late name operations the terminal has by now.
StrayRequests ==
    {[from |-> f, to |-> t, op |-> -1, last |-> -1] : f \in StrayFrom, t \in StrayFrom \cup {OpenEnded}}

\* The terminal asks for the first operation it knows it lacks.
Missing(op) == op \in lost /\ op <= top /\ \A s \in lost : op <= s

RecvNack ==
    /\ ReadIdle
    /\ ~closed
    /\ \E op \in lost, kind \in Ranges, epoch \in Epochs :
          /\ Missing(op)
          /\ Accepts(Request(kind, op, epoch))
          /\ reading' = Request(kind, op, epoch)
    /\ UNCHANGED <<server, renderer, queue, resendPc, req, windowCount, windowOps, cooldown,
                   slipped, redraw, terminal, budget>>

RecvStrayNack ==
    /\ ReadIdle
    /\ ~closed
    /\ Spend("stray")
    /\ \E r \in StrayRequests \cup {Request("open", op, 0) : op \in 1..top} :
          Accepts(r) /\ reading' = r
    /\ UNCHANGED <<server, renderer, queue, resendPc, req, windowCount, windowOps, cooldown,
                   slipped, redraw, terminal>>

\* The rest of queueResend: the newest request replaces a pending one.
QueuedBehind(r) == Append(queue, r)
Queued(r) == <<r>>

QueueNack ==
    /\ reading # NoRequest
    /\ MuFree
    /\ queue' = Queued(reading)
    /\ reading' = NoRequest
    /\ UNCHANGED <<server, renderer, resendPc, req, windowCount, windowOps, cooldown, slipped,
                   redraw, terminal, budget>>

-----------------------------------------------------------------------------
\* resendLoop.

TakeNack ==
    /\ resendPc = "wait"
    /\ MuFree
    /\ queue # <<>>
    /\ req' = Head(queue)
    /\ queue' = Tail(queue)
    /\ resendPc' = "resend"
    /\ UNCHANGED <<server, renderer, reading, windowCount, windowOps, cooldown, slipped, redraw,
                   terminal, budget>>

From == ExtendFrom(req, opSeq)
To   == ExtendTo(req, opSeq)
Last == Lesser(To, opSeq)

FirstAvailable == From \in history
InRange        == From <= To /\ From <= opSeq
Snapshot       == FirstAvailable /\ ShouldReplaceResendWithSnapshot(From, To, opSeq)

\* recordResendLocked: one more request and its charge reach a storm limit.
Charge == Lesser(Last - From + 1, MaxCharge)
Storm  == windowCount + 1 >= StormLimit \/ windowOps + Charge >= StormOps

\* The operations of a request that replay: up to the first one not in history.
ReplayRunBeforeLast == {s \in From..(Last - 1) : From..s \subseteq history}
ReplayRun == {s \in From..Last : From..s \subseteq history}

Answering == resendPc = "resend" /\ MuFree

Done(pc) ==
    /\ resendPc' = pc
    /\ req' = NoRequest
    /\ slipped' = IF cooldown THEN slipped + 1 ELSE slipped
    /\ UNCHANGED <<closed, opSeq, renderer, reading, queue, redraw>>

\* Both circuit breakers forget the history and start the cooldown.
Reset ==
    /\ history' = ClearedHistory
    /\ windowCount' = 0
    /\ windowOps' = 0
    /\ cooldown' = TRUE

CountRequest ==
    /\ windowCount' = windowCount + 1
    /\ windowOps' = windowOps + Charge
    /\ UNCHANGED <<history, cooldown>>

KeepCounts == UNCHANGED <<history, windowCount, windowOps, cooldown>>

ResendClosed ==
    /\ Answering
    /\ closed
    /\ KeepCounts
    /\ Done("wait")
    /\ UNCHANGED <<terminal, budget>>

\* A long range is acknowledged without replay; the terminal stops asking when
\* the acknowledgement arrives.
ResendSnapshot ==
    /\ Answering
    /\ ~closed
    /\ Snapshot
    /\ Reset
    /\ Done("drain")
    /\ \E acked \in {{}, lost \cap From..Last} :
          lost' = lost \ acked /\ abandoned' = abandoned \cup {s \in acked : s > boundary}
    /\ UNCHANGED <<budget, top, stained>>

ResendSnapshotFails ==
    /\ Answering
    /\ ~closed
    /\ Snapshot
    /\ Spend("faults")
    /\ KeepCounts
    /\ Done("wait")
    /\ UNCHANGED terminal

ResendStorm ==
    /\ Answering
    /\ ~closed
    /\ ~Snapshot
    /\ InRange
    /\ FirstAvailable
    /\ Storm
    /\ Reset
    /\ Done("drain")
    /\ UNCHANGED <<terminal, budget>>

\* The first operation is no longer kept: no reply at all.
ResendMissing ==
    /\ Answering
    /\ ~closed
    /\ ~(InRange /\ FirstAvailable)
    /\ KeepCounts
    /\ Done("wait")
    /\ UNCHANGED <<terminal, budget>>

\* Operations that drew what a fill has covered go out again and the fill does
\* not follow them.
Stale == painted \notin ReplayRun /\ \E s \in ReplayRun : 0 < s /\ s <= superseded

\* A write that fails in the middle leaves the rest unsent, which the terminal
\* cannot tell from operations the network dropped.
ResendReplay(dropped) ==
    /\ Answering /\ ~closed
    /\ ~Snapshot
    /\ InRange
    /\ FirstAvailable
    /\ ~Storm
    /\ CountRequest
    /\ Arrives(ReplayRun, dropped)
    /\ budget' = [budget EXCEPT !.losses = @ - Cardinality(dropped)]
    /\ stained' = (stained \/ Stale)
    /\ Done("wait")
    /\ UNCHANGED abandoned

\* drainNACKRequests, then the session's handler if there is one.
DrainAndNotify ==
    /\ resendPc = "drain"
    /\ MuFree
    /\ resendPc' = "wait"
    /\ queue' = <<>>
    /\ redraw' = (redraw \/ HasResync)
    /\ UNCHANGED <<server, renderer, reading, req, windowCount, windowOps, cooldown, slipped,
                   terminal, budget>>

\* Time: the cooldown and the storm window run out.
CooldownExpires ==
    /\ cooldown
    /\ MuFree
    /\ cooldown' = FALSE
    /\ slipped' = 0
    /\ UNCHANGED <<server, renderer, reading, queue, resendPc, req, windowCount, windowOps,
                   redraw, terminal, budget>>

WindowExpires ==
    /\ windowCount > 0
    /\ MuFree
    /\ windowCount' = 0
    /\ windowOps' = 0
    /\ UNCHANGED <<server, renderer, reading, queue, resendPc, req, cooldown, slipped,
                   redraw, terminal, budget>>

-----------------------------------------------------------------------------
\* The terminal (external).

\* A request that stays unanswered is not repeated for ever.
GiveUp(s) ==
    /\ Missing(s)
    /\ MuFree
    /\ s \notin history
    /\ lost' = lost \ {s}
    /\ abandoned' = IF s > boundary THEN abandoned \cup {s} ELSE abandoned
    /\ UNCHANGED <<server, renderer, resender, redraw, top, stained, budget>>

-----------------------------------------------------------------------------
Init ==
    /\ opSeq = 0
    /\ history = {0}            \* the pad Open stores as an anchor
    /\ closed = FALSE
    /\ script = <<>>
    /\ left = 0
    /\ batch = {}
    /\ boundary = -1
    /\ painted = 0
    /\ superseded = -1
    /\ reading = NoRequest
    /\ queue = <<>>
    /\ resendPc = "wait"
    /\ req = NoRequest
    /\ windowCount = 0
    /\ windowOps = 0
    /\ cooldown = FALSE
    /\ redraw = FALSE
    /\ slipped = 0
    /\ lost = {}
    /\ abandoned = {}
    /\ top = 0
    /\ stained = FALSE
    /\ budget = [updates |-> MaxUpdates, losses |-> MaxLosses,
                 faults |-> MaxFaults, stray |-> MaxStray]

Render ==
    \/ BeginRedraw
    \/ FlushHistory
    \/ \E n \in 1..MaxBatch : LockSend(n)
    \/ SendClosed
    \/ EncodeOp
    \/ \E dropped \in SUBSET batch : Transmit(dropped)

Answer ==
    \/ ResendClosed
    \/ ResendSnapshot
    \/ ResendStorm
    \/ ResendMissing
    \/ \E dropped \in SUBSET ReplayRun : ResendReplay(dropped)

Next ==
    \/ \E kind \in DOMAIN Scripts : BeginUpdate(kind)
    \/ Render
    \/ \E s \in batch : TransmitFails(s)
    \/ SendCursor
    \/ Close
    \/ KeepAlive
    \/ RecvNack
    \/ RecvStrayNack
    \/ QueueNack
    \/ TakeNack
    \/ Answer
    \/ ResendSnapshotFails
    \/ DrainAndNotify
    \/ CooldownExpires
    \/ WindowExpires
    \/ \E s \in lost : GiveUp(s)

Spec == Init /\ [][Next]_vars

\* The goroutines and the terminal keep running, the socket works and mu is
\* fair; the network is free to lose what its bound allows.
Fairness ==
    /\ WF_vars(Render)
    /\ WF_vars(KeepAlive)
    /\ WF_vars(QueueNack)
    /\ WF_vars(TakeNack)
    /\ SF_vars(Answer)
    /\ WF_vars(DrainAndNotify)
    /\ WF_vars(CooldownExpires)
    /\ WF_vars(RecvNack)
    /\ WF_vars(\E s \in lost : GiveUp(s))

FairSpec == Spec /\ Fairness

-----------------------------------------------------------------------------
\* Properties.

Bounds == {"updates", "losses", "faults", "stray"}

Requests == [from : Int, to : Int, op : Int, last : Int]

\* Every variable has its type.
TypeOK ==
    /\ opSeq \in Nat
    /\ history \subseteq Nat
    /\ closed \in BOOLEAN
    /\ script \in Seq(Sending \cup {"flush"}) /\ (MuFree \/ ~Idle)
    /\ left \in 0..MaxBatch
    /\ batch \subseteq Nat
    /\ boundary \in Int
    /\ painted \in Nat
    /\ superseded \in Int
    /\ reading \in Requests
    /\ queue \in Seq(Requests) /\ Len(queue) <= 1
    /\ resendPc \in {"wait", "resend", "drain"}
    /\ req \in Requests
    /\ windowCount \in Nat
    /\ windowOps \in Nat
    /\ cooldown \in BOOLEAN
    /\ redraw \in BOOLEAN
    /\ slipped \in Nat
    /\ lost \subseteq Nat
    /\ abandoned \subseteq Nat
    /\ top \in Nat
    /\ stained \in BOOLEAN
    /\ budget \in [Bounds -> Nat]

\* The history is one contiguous run that ends at opSeq and it never outgrows
\* its bound, whatever updates, flushes and circuit breakers do in between.
\* resend stops at the first gap, so a gap would make everything behind it
\* unrecoverable.
HistoryIsSuffix ==
    \E lo \in 0..(opSeq + 1) :
        /\ history = lo..opSeq
        /\ opSeq - lo + 1 <= HistorySize

\* A request for an operation that is still kept is answered with exactly the
\* operations asked for, whatever wrap or epoch the 16-bit wire numbers went
\* through and however long the request waited, unless a circuit breaker
\* answers it; an older operation is never replayed in its place.
Wanted == req.op..(IF req.to = OpenEnded THEN opSeq ELSE req.last)

ReplayExact ==
    resendPc = "resend" /\ req.op \in history
        => InRange /\ FirstAvailable /\ ReplayRun = Wanted

\* A fill starts a new picture: no replay brings back on it what updates drew
\* before (the comments of FlushHistory and of ShowImage promise it).
NoStaleReplay == ~stained

\* What the code keeps of that: ShowImage flushes only after its fill, and a
\* request answered between the two does bring old pixels back, but never
\* after the flush, so that the bitmap of the very update that filled the
\* screen is still to come and covers them as far as it reaches.  Only a failing
\* write or a closed channel can keep it from coming.
StaleDrawnOver ==
    stained /\ budget.faults = MaxFaults /\ ~closed
        => ~Idle /\ script[Len(script)] = "bitmap"

\* The cooldown is checked before a request is queued and not when it is
\* answered.  One request can slip through that gap, never two.
AtMostOneSlip == slipped <= 1

\* Once the network stops losing, the terminal gets every operation of the
\* current frame: each one it lacks is replayed or superseded by a full redraw,
\* whichever requests the circuit breakers drop, drain and acknowledge.
Lacks(s) == s \in lost \cup abandoned /\ s > boundary

Repaired == <>[](closed \/ \A s \in lost \cup abandoned : ~Lacks(s))
=============================================================================
