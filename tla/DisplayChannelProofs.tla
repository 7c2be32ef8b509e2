------------------------ MODULE DisplayChannelProofs ------------------------
(***************************************************************************)
(* Invariance proofs for DisplayChannel: types, the shape and the bound of *)
(* the history, that pixels a replay brings back over a new picture have   *)
(* its bitmap still to come, that a kept operation is replayed exactly,    *)
(* and that at most one request slips past the cooldown.  First the        *)
(* arithmetic they rest on:                                                *)
(* extendOperationSequence recovers the operation a wire number stands     *)
(* for, for every modulus and every epoch, as long as that operation is    *)
(* less than half a modulus old.                                           *)
(***************************************************************************)
EXTENDS DisplayChannel, FiniteSetTheorems, TLAPS

\* Division with remainder by the modulus.
LEMMA Division ==
    ASSUME NEW a \in Int
    PROVE  /\ a \div SeqMod \in Int
           /\ a % SeqMod \in Int
           /\ 0 <= a % SeqMod /\ a % SeqMod < SeqMod
           /\ a = SeqMod * (a \div SeqMod) + (a % SeqMod)
BY SeqModAssumption, SMTT(30)

\* A multiple of the modulus strictly between -SeqMod and 2 SeqMod.
LEMMA SmallMultiple ==
    ASSUME NEW k \in Int, -SeqMod < SeqMod * k, SeqMod * k < 2 * SeqMod
    PROVE  k = 0 \/ k = 1
<1>1. SeqMod \in Nat /\ SeqMod > 0
  BY SeqModAssumption
<1>2. CASE k >= 2
  <2>1. SeqMod * k >= SeqMod * 2
    BY <1>1, <1>2, SMTT(30)
  <2> QED
    BY <2>1, <1>1
<1>3. CASE k <= -1
  <2>1. SeqMod * k <= SeqMod * (-1)
    BY <1>1, <1>3, SMTT(30)
  <2> QED
    BY <2>1, <1>1
<1> QED
  BY <1>2, <1>3

\* A number below the modulus that differs from a by a multiple of the modulus
\* is the remainder of a.
LEMMA Remainder ==
    ASSUME NEW a \in Int, NEW r \in Int, NEW k \in Int,
           0 <= r, r < SeqMod, a = SeqMod * k + r
    PROVE  a % SeqMod = r
<1> DEFINE q == a \div SeqMod
           m == a % SeqMod
<1>1. SeqMod \in Nat /\ SeqMod > 0
  BY SeqModAssumption
<1>2. q \in Int /\ m \in Int /\ 0 <= m /\ m < SeqMod /\ a = SeqMod * q + m
  BY Division
<1> HIDE DEF q, m
<1>3. SeqMod * (q - k) = r - m /\ SeqMod * (k - q) = m - r
  BY <1>1, <1>2, SMTT(30)
<1>4. (q - k = 0 \/ q - k = 1) /\ (k - q = 0 \/ k - q = 1)
  <2>1. q - k \in Int /\ k - q \in Int
    BY <1>2
  <2>2. -SeqMod < r - m /\ r - m < 2 * SeqMod /\ -SeqMod < m - r /\ m - r < 2 * SeqMod
    BY <1>1, <1>2
  <2> QED
    BY <2>1, <2>2, <1>3, SmallMultiple
<1>5. q = k
  BY <1>2, <1>4
<1>6. m = r
  BY <1>1, <1>2, <1>5
<1> QED
  BY <1>6 DEF m

LEMMA RemainderOfSum ==
    ASSUME NEW a \in Int, NEW k \in Int
    PROVE  (a + k * SeqMod) % SeqMod = a % SeqMod
<1>1. SeqMod \in Nat /\ SeqMod > 0
  BY SeqModAssumption
<1>2. /\ a \div SeqMod \in Int /\ a % SeqMod \in Int
      /\ 0 <= a % SeqMod /\ a % SeqMod < SeqMod
      /\ a = SeqMod * (a \div SeqMod) + (a % SeqMod)
  BY Division
<1>3. PICK q \in Int, r \in Int : q = a \div SeqMod /\ r = a % SeqMod
  BY <1>2
<1>4. a + k * SeqMod = SeqMod * (q + k) + r
  BY <1>1, <1>2, <1>3, SMTT(30)
<1>5. (a + k * SeqMod) % SeqMod = r
  <2>1. a + k * SeqMod \in Int /\ q + k \in Int
    BY <1>1, <1>3
  <2> QED
    BY <2>1, <1>2, <1>3, <1>4, Remainder
<1> QED
  BY <1>3, <1>5

LEMMA RemainderTwice ==
    ASSUME NEW a \in Int
    PROVE  (a % SeqMod) % SeqMod = a % SeqMod
<1>1. a % SeqMod \in Int /\ 0 <= a % SeqMod /\ a % SeqMod < SeqMod
  BY Division
<1>2. a % SeqMod = SeqMod * 0 + (a % SeqMod)
  BY <1>1, SeqModAssumption
<1> QED
  BY <1>1, <1>2, Remainder

\* extendOperationSequence maps any wire number with the low bits of operation s
\* to s itself when s is less than half a modulus behind the current operation,
\* in whatever epoch the two lie and whatever epoch the firmware wrote.
THEOREM ExtendRecovers ==
    ASSUME NEW s \in Nat, NEW current \in Nat, NEW wire \in Int,
           s <= current, current - s < Half, wire % SeqMod = s % SeqMod
    PROVE  Extend(wire, current) = s
<1>1. SeqMod \in Nat /\ SeqMod > 0 /\ Half \in Nat /\ SeqMod = 2 * Half
  BY SeqModAssumption DEF Half
<1>2. PICK q \in Int, r \in Int :
        r = current % SeqMod /\ 0 <= r /\ r < SeqMod /\ current = SeqMod * q + r
  BY Division
<1>3. PICK p \in Int, t \in Int :
        t = s % SeqMod /\ 0 <= t /\ t < SeqMod /\ s = SeqMod * p + t
  BY Division
<1>4. Candidate(wire, current) = current - r + t
  BY <1>2, <1>3 DEF Candidate
<1>5. SeqMod * (q - p) = (current - s) - (r - t)
  BY <1>1, <1>2, <1>3, SMTT(30)
<1>6. q - p \in Int /\ (q - p = 0 \/ q - p = 1)
  <2>1. -SeqMod < SeqMod * (q - p) /\ SeqMod * (q - p) < 2 * SeqMod
    BY <1>1, <1>2, <1>3, <1>5
  <2>2. q - p \in Int
    BY <1>2, <1>3
  <2> QED
    BY <2>1, <2>2, SmallMultiple
<1>7. CASE q - p = 0
  <2>1. current - s = r - t
    BY <1>1, <1>2, <1>3, <1>5, <1>7
  <2>2. Candidate(wire, current) = s
    BY <2>1, <1>2, <1>3, <1>4
  <2> QED
    BY <2>2, <1>1 DEF Extend
<1>8. CASE q - p = 1
  <2>1. SeqMod = (current - s) - (r - t)
    BY <1>1, <1>2, <1>3, <1>5, <1>8
  <2>2. Candidate(wire, current) = s + SeqMod
    BY <2>1, <1>1, <1>2, <1>3, <1>4
  <2> QED
    BY <2>2, <1>1 DEF Extend
<1> QED
  BY <1>6, <1>7, <1>8

-----------------------------------------------------------------------------
USE DEF MuFree, Idle

-----------------------------------------------------------------------------
\* Types of the helpers.

LEMMA ConstantTypes ==
    /\ SeqMod \in Nat /\ SeqMod > 0 /\ Half \in Nat /\ SeqMod = 2 * Half
    /\ OpenEnded \in Nat /\ OpenEnded >= SeqMod /\ MaxDirect \in Nat
    /\ HistorySize \in Nat /\ HistorySize > 0 /\ HistorySize < Half
    /\ MaxCharge \in Nat /\ MaxCharge > 0
    /\ StormLimit \in Nat /\ StormOps \in Nat
    /\ HasResync \in BOOLEAN /\ CanClose \in BOOLEAN
    /\ MaxBatch \in Nat /\ MaxBatch > 0
BY SeqModAssumption, OpenEndedAssumption, MaxDirectAssumption, HistoryAssumption,
   ChargeAssumption, SwitchAssumption, BoundAssumption DEF Half

LEMMA ExtendType ==
    ASSUME NEW w \in Int, NEW c \in Int
    PROVE  Extend(w, c) \in Int
BY Division, ConstantTypes DEF Extend, Candidate

LEMMA RangeType ==
    ASSUME TypeOK
    PROVE  From \in Int /\ To \in Int /\ Last \in Int /\ Last <= opSeq /\ Last <= To
<1>1. req.from \in Int /\ req.to \in Int /\ opSeq \in Int
  BY DEF TypeOK, Requests
<1>2. From \in Int /\ Extend(req.to, opSeq) \in Int
  BY <1>1, ExtendType DEF From, ExtendFrom
<1>3. To \in Int
  BY <1>1, <1>2, ConstantTypes DEF To, ExtendTo
<1> QED
  BY <1>1, <1>2, <1>3 DEF Last, Lesser

LEMMA ChargeType ==
    ASSUME TypeOK, InRange
    PROVE  Charge \in Nat
<1>1. From \in Int /\ To \in Int /\ opSeq \in Int /\ From <= To /\ From <= opSeq
  BY RangeType DEF InRange, TypeOK
<1>2. Last \in Int /\ From <= Last
  BY <1>1 DEF Last, Lesser
<1>3. MaxCharge \in Nat
  BY ConstantTypes
<1> QED
  BY <1>1, <1>2, <1>3 DEF Charge, Lesser

LEMMA ReplayRunKept ==
    ASSUME TypeOK
    PROVE  ReplayRun \subseteq history
BY RangeType DEF ReplayRun

LEMMA RequestType ==
    ASSUME NEW kind \in {"one", "rest", "open"}, NEW op \in Nat, NEW epoch \in Nat, TypeOK
    PROVE  Request(kind, op, epoch) \in Requests
<1>1. top \in Int /\ op \in Int /\ epoch * SeqMod \in Int
  BY ConstantTypes, SMTT(30) DEF TypeOK
<1>2. op % SeqMod \in Int /\ top % SeqMod \in Int
  BY <1>1, Division
<1> QED
  BY <1>1, <1>2, ConstantTypes DEF Request, WireRange, Requests

\* What an update may still have to call: a script, or what is left of one.
Remainders == { <<>>, <<"send">>, <<"fill", "flush", "bitmap">>, <<"flush", "fill", "bitmap">>,
                <<"flush", "bitmap">>, <<"fill", "bitmap">>, <<"bitmap">> }

LEMMA ScriptsType ==
    /\ \A kind \in DOMAIN Scripts : Scripts[kind] \in Remainders /\ Scripts[kind] # <<>>
    /\ \A kind \in DOMAIN Scripts :
          Scripts[kind] # <<"flush", "bitmap">> /\ Scripts[kind] # <<"fill", "bitmap">>
    /\ "image" \in DOMAIN Scripts
    /\ Remainders \subseteq Seq(Sending \cup {"flush"})
<1>1. DOMAIN Scripts = {"image", "regions", "target"}
  BY DEF Scripts
<1>2. /\ Scripts["image"] = <<"fill", "flush", "bitmap">>
      /\ Scripts["regions"] = <<"send">>
      /\ Scripts["target"] = <<"flush", "fill", "bitmap">>
  BY DEF Scripts
<1>3. Remainders \subseteq Seq(Sending \cup {"flush"})
  BY DEF Remainders, Sending
<1>4. ASSUME NEW t \in {<<"fill", "flush", "bitmap">>, <<"send">>, <<"flush", "fill", "bitmap">>}
      PROVE  t # <<>> /\ t # <<"flush", "bitmap">> /\ t # <<"fill", "bitmap">>
  OBVIOUS
<1> QED
  BY <1>1, <1>2, <1>3, <1>4 DEF Remainders

LEMMA SpendType ==
    ASSUME budget \in [Bounds -> Nat], NEW name \in Bounds, Spend(name)
    PROVE  budget' \in [Bounds -> Nat]
BY DEF Spend

LEMMA LossType ==
    ASSUME budget \in [Bounds -> Nat], NEW n \in 0..budget.losses,
           budget' = [budget EXCEPT !.losses = @ - n]
    PROVE  budget' \in [Bounds -> Nat]
<1>1. budget.losses - n \in Nat
  BY DEF Bounds
<1> QED
  BY <1>1

-----------------------------------------------------------------------------
(***************************************************************************)
(* Types.                                                                  *)
(***************************************************************************)

LEMMA TypeInit == Init => TypeOK
<1> SUFFICES ASSUME Init PROVE TypeOK
  OBVIOUS
<1>1. budget \in [Bounds -> Nat]
  BY BoundAssumption DEF Init, Bounds
<1>2. script \in Seq(Sending \cup {"flush"}) /\ queue \in Seq(Requests) /\ Len(queue) <= 1
  BY DEF Init
<1> QED
  <2>1. reading \in Requests /\ req \in Requests
    BY DEF Init, NoRequest, Requests
  <2>2. left = 0 /\ batch = {} /\ left \in 0..MaxBatch
    BY ConstantTypes DEF Init
  <2>3. /\ opSeq \in Nat /\ boundary \in Int /\ top \in Nat /\ slipped \in Nat
        /\ painted \in Nat /\ superseded \in Int
        /\ windowCount \in Nat /\ windowOps \in Nat
    BY DEF Init
  <2>4. /\ history \subseteq Nat /\ batch \subseteq Nat /\ lost \subseteq Nat
        /\ abandoned \subseteq Nat
    BY DEF Init
  <2>5. /\ closed \in BOOLEAN /\ cooldown \in BOOLEAN /\ redraw \in BOOLEAN
        /\ resendPc \in {"wait", "resend", "drain"} /\ stained \in BOOLEAN
    BY DEF Init
  <2> QED
    BY <1>1, <1>2, <2>1, <2>2, <2>3, <2>4, <2>5 DEF TypeOK

LEMMA TypeRenderer ==
    ASSUME TypeOK,
           \/ \E kind \in DOMAIN Scripts : BeginUpdate(kind)
           \/ Render
           \/ \E s \in batch : TransmitFails(s)
           \/ SendCursor
           \/ Close
    PROVE  TypeOK'
<1> USE DEF TypeOK, vars, server, renderer, resender, terminal
<1>1. ASSUME NEW kind \in DOMAIN Scripts, BeginUpdate(kind) PROVE TypeOK'
  <2>1. budget' \in [Bounds -> Nat]
    BY <1>1, SpendType DEF BeginUpdate, Bounds
  <2> QED
    BY <1>1, <2>1, ScriptsType DEF BeginUpdate
<1>2. CASE BeginRedraw
  BY <1>2, ScriptsType DEF BeginRedraw
<1>3. CASE FlushHistory
  BY <1>3 DEF FlushHistory, ClearedHistory
<1>4. ASSUME NEW n \in 1..MaxBatch, LockSend(n) PROVE TypeOK'
  BY <1>4, ConstantTypes DEF LockSend
<1>5. CASE SendClosed
  BY <1>5 DEF SendClosed
<1>6. CASE EncodeOp
  BY <1>6, ConstantTypes DEF EncodeOp, Recorded
<1>7. ASSUME NEW dropped \in SUBSET batch, Transmit(dropped) PROVE TypeOK'
  <2>1. script' \in Seq(Sending \cup {"flush"})
    BY <1>7 DEF Transmit
  <2>2. budget' \in [Bounds -> Nat]
    BY <1>7, LossType DEF Transmit, Arrives
  <2>3. stained' \in BOOLEAN
    BY <1>7, Zenon DEF Transmit
  <2>4. painted' \in Nat /\ superseded' \in Int
    BY <1>7 DEF Transmit
  <2>5. lost' \subseteq Nat /\ top' \in Nat
    BY <1>7 DEF Transmit, Arrives
  <2>6. left' = 0 /\ batch' = {} /\ UNCHANGED <<server, boundary, resender, redraw, abandoned>>
    BY <1>7 DEF Transmit
  <2> QED
    BY <2>1, <2>2, <2>3, <2>4, <2>5, <2>6, ConstantTypes
<1>8. ASSUME NEW s \in batch, TransmitFails(s) PROVE TypeOK'
  <2>1. budget' \in [Bounds -> Nat]
    BY <1>8, SpendType DEF TransmitFails, Bounds
  <2>2. script' \in Seq(Sending \cup {"flush"}) /\ left' = 0 /\ batch' = {}
    BY <1>8 DEF TransmitFails
  <2>3. lost' \subseteq Nat
    BY <1>8 DEF TransmitFails
  <2> QED
    BY <1>8, <2>1, <2>2, <2>3 DEF TransmitFails
<1>9. CASE SendCursor
  <2>1. budget' \in [Bounds -> Nat]
    BY <1>9, SpendType DEF SendCursor, Bounds
  <2>2. opSeq' \in Nat /\ history' \subseteq Nat /\ lost' \subseteq Nat
    <3>1. opSeq' = opSeq + 1 /\ history' = Recorded(history, opSeq + 1)
          /\ (lost' = lost \/ lost' = lost \cup {opSeq + 1})
      BY <1>9 DEF SendCursor
    <3>2. Recorded(history, opSeq + 1) \subseteq history \cup {opSeq + 1}
      BY DEF Recorded
    <3>3. opSeq \in Nat /\ history \subseteq Nat /\ lost \subseteq Nat
      OBVIOUS
    <3>4. opSeq + 1 \in Nat
      BY <3>3
    <3> HIDE DEF TypeOK
    <3> QED
      BY <3>1, <3>2, <3>3, <3>4, Zenon
  <2> QED
    BY <1>9, <2>1, <2>2 DEF SendCursor
<1>10. CASE Close
  BY <1>10 DEF Close
<1> QED
  BY <1>1, <1>2, <1>3, <1>4, <1>5, <1>6, <1>7, <1>8, <1>9, <1>10 DEF Render

LEMMA TypeReader ==
    ASSUME TypeOK,
           KeepAlive \/ RecvNack \/ RecvStrayNack \/ QueueNack \/ TakeNack
    PROVE  TypeOK'
<1> USE DEF TypeOK, vars, server, renderer, resender, terminal
<1>1. CASE KeepAlive
  BY <1>1 DEF KeepAlive
<1>2. CASE RecvNack
  <2>1. PICK op \in lost, kind \in Ranges, epoch \in Epochs :
          reading' = Request(kind, op, epoch)
    BY <1>2 DEF RecvNack
  <2>2. reading' \in Requests
    BY <2>1, RequestType, BoundAssumption
  <2> QED
    BY <1>2, <2>2 DEF RecvNack
<1>3. CASE RecvStrayNack
  <2>1. reading' \in StrayRequests \/ \E op \in 1..top : reading' = Request("open", op, 0)
    BY <1>3 DEF RecvStrayNack
  <2>2. reading' \in Requests
    <3>1. ASSUME NEW op \in 1..top PROVE Request("open", op, 0) \in Requests
      <4>1. op \in Nat
        OBVIOUS
      <4> QED
        BY <4>1, RequestType
    <3>2. StrayRequests \subseteq Requests
      <4>1. StrayFrom \subseteq Int /\ OpenEnded \in Int
        BY BoundAssumption, ConstantTypes
      <4> QED
        BY <4>1, SMTT(30) DEF StrayRequests, Requests
    <3> QED
      BY <2>1, <3>1, <3>2
  <2> QED
    BY <1>3, <2>2, SpendType DEF RecvStrayNack, Bounds
<1>4. CASE QueueNack
  <2>1. queue' \in Seq(Requests) /\ Len(queue') <= 1
    BY <1>4 DEF QueueNack, Queued
  <2>2. NoRequest \in Requests
    BY DEF NoRequest, Requests
  <2> QED
    BY <1>4, <2>1, <2>2 DEF QueueNack
<1>5. CASE TakeNack
  BY <1>5 DEF TakeNack
<1> QED
  BY <1>1, <1>2, <1>3, <1>4, <1>5

LEMMA TypeResender ==
    ASSUME TypeOK,
           Answer \/ ResendSnapshotFails \/ DrainAndNotify \/ CooldownExpires
             \/ WindowExpires \/ (\E s \in lost : GiveUp(s))
    PROVE  TypeOK'
<1> USE DEF TypeOK, vars, server, renderer, resender, terminal
<1>1. NoRequest \in Requests
  BY DEF NoRequest, Requests
<1>2. CASE ResendClosed
  BY <1>1, <1>2 DEF ResendClosed, Done, KeepCounts
<1>3. CASE ResendSnapshot
  <2>1. lost' \subseteq Nat /\ abandoned' \subseteq Nat
    BY <1>3 DEF ResendSnapshot
  <2>2. history' = {} /\ windowCount' = 0 /\ windowOps' = 0 /\ cooldown' = TRUE
    BY <1>3 DEF ResendSnapshot, Reset, ClearedHistory
  <2>3. UNCHANGED <<top, budget>>
    BY <1>3 DEF ResendSnapshot
  <2> QED
    BY <1>1, <1>3, <2>1, <2>2, <2>3 DEF ResendSnapshot, Done
<1>4. CASE ResendStorm
  BY <1>1, <1>4 DEF ResendStorm, Done, Reset, ClearedHistory
<1>5. CASE ResendMissing
  BY <1>1, <1>5 DEF ResendMissing, Done, KeepCounts
<1>6. ASSUME NEW dropped \in SUBSET ReplayRun, ResendReplay(dropped) PROVE TypeOK'
  <2>1. Charge \in Nat
    BY <1>6, ChargeType DEF ResendReplay
  <2>2. ReplayRun \subseteq Nat
    BY ReplayRunKept
  <2>3. lost' \subseteq Nat /\ top' \in Nat
    BY <1>6, <2>2 DEF ResendReplay, Arrives
  <2>4. budget' \in [Bounds -> Nat]
    BY <1>6, LossType DEF ResendReplay, Arrives
  <2>5. UNCHANGED <<history, cooldown, abandoned>>
    BY <1>6 DEF ResendReplay, CountRequest
  <2>6. windowCount' \in Nat /\ windowOps' \in Nat
    <3>1. windowCount' = windowCount + 1 /\ windowOps' = windowOps + Charge
      BY <1>6 DEF ResendReplay, CountRequest
    <3>2. windowCount \in Nat /\ windowOps \in Nat
      BY DEF TypeOK
    <3> QED BY <3>1, <3>2, <2>1
  <2>7. Done("wait")
    BY <1>6 DEF ResendReplay
  <2>8. stained' \in BOOLEAN
    BY <1>6, Zenon DEF ResendReplay
  <2> QED
    BY <1>1, <2>3, <2>4, <2>5, <2>6, <2>7, <2>8 DEF Done
<1>7. CASE ResendSnapshotFails
  BY <1>1, <1>7, SpendType DEF ResendSnapshotFails, Done, KeepCounts, Bounds
<1>8. CASE DrainAndNotify
  BY <1>8, ConstantTypes DEF DrainAndNotify
<1>9. CASE CooldownExpires
  BY <1>9 DEF CooldownExpires
<1>10. CASE WindowExpires
  BY <1>10 DEF WindowExpires
<1>11. ASSUME NEW s \in lost, GiveUp(s) PROVE TypeOK'
  BY <1>11 DEF GiveUp
<1> QED
  BY <1>2, <1>3, <1>4, <1>5, <1>6, <1>7, <1>8, <1>9, <1>10, <1>11 DEF Answer

LEMMA TypeStep == TypeOK /\ [Next]_vars => TypeOK'
<1> SUFFICES ASSUME TypeOK, [Next]_vars PROVE TypeOK'
  OBVIOUS
<1>1. CASE UNCHANGED vars
  BY <1>1 DEF TypeOK, vars, server, renderer, resender, terminal
<1>2. CASE Next
  BY <1>2, TypeRenderer, TypeReader, TypeResender DEF Next
<1> QED
  BY <1>1, <1>2

\* Every variable of the display channel keeps its type, for every setting of
\* the limits and bounds.
THEOREM TypeCorrect == Spec => []TypeOK
<1>1. Init => TypeOK
  BY TypeInit
<1>2. TypeOK /\ [Next]_vars => TypeOK'
  BY TypeStep
<1> QED
  BY <1>1, <1>2, PTL DEF Spec

-----------------------------------------------------------------------------
(***************************************************************************)
(* The inductive invariant.  HistoryIsSuffix is inductive by itself.       *)
(* ReplayExact needs in addition that nobody knows of operations not yet   *)
(* numbered (Known), and that every request on its way through queueResend *)
(* still denotes, modulo 2^16, the operations the terminal meant           *)
(* (Pending).  StaleDrawnOver needs to know where in its calls an update   *)
(* may be (Drawing), that operations a fill has covered are kept only      *)
(* until the flush that follows it (Covered), and that pixels they bring   *)
(* back have the bitmap to come (Excused).                                 *)
(***************************************************************************)

Known ==
    /\ batch \subseteq 1..opSeq
    /\ lost \subseteq 0..opSeq
    /\ top \in 0..opSeq

Meant(r, n) ==
    \/ r.op = -1
    \/ /\ r.op \in 0..n
       /\ r.last \in r.op..n
       /\ r.from % SeqMod = r.op % SeqMod
       /\ r.to # OpenEnded => r.to % SeqMod = r.last % SeqMod

Pending ==
    /\ Meant(reading, opSeq)
    /\ Meant(req, opSeq)
    /\ queue # <<>> => Meant(Head(queue), opSeq)

Drawing ==
    /\ script \in Remainders
    /\ ~MuFree => ~Idle /\ Head(script) \in Sending
    /\ superseded <= painted
    /\ painted <= opSeq

Covered ==
    /\ (\E s \in history : s <= superseded) => script = <<"flush", "bitmap">>
    /\ script = <<"fill", "bitmap">> => \A s \in history : s > painted

Excused ==
    /\ budget.faults <= MaxFaults
    /\ stained /\ budget.faults = MaxFaults /\ ~closed
          => script \in {<<"flush", "bitmap">>, <<"bitmap">>}

Drawn == Drawing /\ Covered /\ Excused

IInv == TypeOK /\ HistoryIsSuffix /\ Known /\ Pending /\ Drawn

LEMMA RecordedSuffix ==
    ASSUME opSeq \in Nat, HistoryIsSuffix
    PROVE  /\ \E lo \in 0..(opSeq + 2) :
                 /\ Recorded(history, opSeq + 1) = lo..(opSeq + 1)
                 /\ opSeq + 1 - lo + 1 <= HistorySize
           /\ Recorded(history, opSeq + 1) \subseteq history \cup {opSeq + 1}
<1>1. PICK lo \in 0..(opSeq + 1) : history = lo..opSeq /\ opSeq - lo + 1 <= HistorySize
  BY DEF HistoryIsSuffix
<1>2. lo \in Int /\ lo <= opSeq + 1 /\ HistorySize \in Nat /\ HistorySize > 0
  BY ConstantTypes
<1> DEFINE grown == history \cup {opSeq + 1}
<1>3. grown = lo..(opSeq + 1)
  BY <1>1, <1>2
<1>4. Cardinality(grown) = opSeq + 1 - lo + 1
  <2>1. lo \in Int /\ opSeq + 1 \in Int /\ ~(lo > opSeq + 1)
    BY <1>2
  <2>2. Cardinality(lo..(opSeq + 1)) = opSeq + 1 - lo + 1
    <3> DEFINE hi == opSeq + 1
    <3>1. hi \in Int /\ ~(lo > hi)
      BY <2>1
    <3> HIDE DEF hi
    <3>2. Cardinality(lo..hi) = hi - lo + 1
      BY <2>1, <3>1, FS_Interval
    <3> QED
      BY <3>2 DEF hi
  <2> QED
    BY <2>2, <1>3, Zenon
<1>5. CASE Cardinality(grown) > HistorySize
  <2>1. opSeq + 1 - HistorySize = lo
    BY <1>1, <1>2, <1>4, <1>5
  <2>2. Recorded(history, opSeq + 1) = grown \ {lo}
    <3>1. Recorded(history, opSeq + 1) = grown \ {opSeq + 1 - HistorySize}
      <4>1. Cardinality(grown) \in Int /\ HistorySize \in Int /\ opSeq \in Int
        BY <1>2, <1>4
      <4> QED
        BY <4>1, <1>5 DEF Recorded
    <3> QED
      BY <3>1, <2>1
  <2>3. grown \ {lo} = (lo + 1)..(opSeq + 1)
    BY <1>2, <1>3
  <2>4. lo + 1 \in 0..(opSeq + 2) /\ opSeq + 1 - (lo + 1) + 1 <= HistorySize
    BY <1>1, <1>2
  <2> QED
    BY <2>2, <2>3, <2>4
<1>6. CASE ~(Cardinality(grown) > HistorySize)
  <2>1. Recorded(history, opSeq + 1) = grown
    BY <1>6 DEF Recorded
  <2>2. lo \in 0..(opSeq + 2) /\ opSeq + 1 - lo + 1 <= HistorySize
    BY <1>2, <1>4, <1>6
  <2> QED
    BY <2>1, <2>2, <1>3
<1> QED
  BY <1>5, <1>6

\* A cleared history is the empty run after opSeq.
LEMMA ClearedSuffix ==
    ASSUME opSeq \in Nat, opSeq' = opSeq, history' = {}
    PROVE  HistoryIsSuffix'
<1>1. opSeq + 1 \in 0..(opSeq + 1) /\ {} = (opSeq + 1)..opSeq
      /\ opSeq - (opSeq + 1) + 1 <= HistorySize
  BY ConstantTypes
<1> QED
  BY <1>1 DEF HistoryIsSuffix

\* A request keeps its meaning while operations are added.
LEMMA MeaningKept ==
    ASSUME NEW m \in Nat, NEW n \in Nat, m <= n, NEW r \in Requests, Meant(r, m)
    PROVE  Meant(r, n)
BY DEF Meant, Requests

\* What the terminal writes for an operation it knows of, it means.
LEMMA RequestMeant ==
    ASSUME NEW kind \in {"one", "rest", "open"}, NEW op \in 0..top, NEW epoch \in Nat,
           TypeOK, Known
    PROVE  Meant(Request(kind, op, epoch), opSeq)
<1> DEFINE last == CASE kind = "one" -> op [] kind = "rest" -> top [] kind = "open" -> op
           r == Request(kind, op, epoch)
<1>1. op \in Int /\ top \in Int /\ op <= top /\ top <= opSeq /\ opSeq \in Nat /\ 0 <= op
  BY DEF TypeOK, Known
<1>2. last \in Int /\ op <= last /\ last <= opSeq
  BY <1>1
<1>3. /\ r.op = op /\ r.last = last
      /\ r.from = WireRange(op, last, epoch).from
      /\ r.to # OpenEnded => r.to = WireRange(op, last, epoch).to
  BY DEF Request
<1> HIDE DEF last, r
<1>4. op % SeqMod \in Int /\ last % SeqMod \in Int /\ epoch * SeqMod \in Int
  BY <1>1, <1>2, Division, ConstantTypes
<1>5. r.from % SeqMod = op % SeqMod
  <2>1. r.from = (op % SeqMod) + epoch * SeqMod
    BY <1>3 DEF WireRange
  <2>2. r.from % SeqMod = (op % SeqMod) % SeqMod
    BY <2>1, <1>4, RemainderOfSum
  <2>3. (op % SeqMod) % SeqMod = op % SeqMod
    BY <1>1, RemainderTwice
  <2> QED
    BY <2>2, <2>3
<1>6. r.to # OpenEnded => r.to % SeqMod = last % SeqMod
  <2> SUFFICES ASSUME r.to # OpenEnded PROVE r.to % SeqMod = last % SeqMod
    OBVIOUS
  <2>1. CASE epoch = 0
    <3>1. r.to = last % SeqMod
      BY <2>1, <1>3 DEF WireRange
    <3> QED
      BY <3>1, <1>2, RemainderTwice
  <2>2. CASE epoch # 0
    <3>1. r.to = (op % SeqMod) + epoch * SeqMod + last - op
      BY <2>2, <1>3 DEF WireRange
    <3>2. PICK q \in Int : op = SeqMod * q + (op % SeqMod)
      BY <1>1, Division
    <3>3. r.to = last + (epoch - q) * SeqMod
      <4>1. SeqMod \in Int /\ epoch \in Int
        BY ConstantTypes
      <4>2. (epoch - q) * SeqMod = epoch * SeqMod - SeqMod * q
        BY <4>1, SMTT(30)
      <4>3. PICK m \in Int, e \in Int, n \in Int :
              m = op % SeqMod /\ e = epoch * SeqMod /\ n = SeqMod * q
        BY <4>1, <1>4, <3>2
      <4>4. r.to = m + e + last - op /\ op = n + m /\ (epoch - q) * SeqMod = e - n
        BY <4>2, <4>3, <3>1, <3>2
      <4> QED
        BY <4>3, <4>4, <1>1, <1>2
    <3>4. epoch - q \in Int
      BY <3>2
    <3> QED
      BY <3>3, <3>4, <1>2, RemainderOfSum
  <2> QED
    BY <2>1, <2>2
<1> QED
  BY <1>1, <1>2, <1>3, <1>5, <1>6 DEF Meant, r

-----------------------------------------------------------------------------
(***************************************************************************)
(* The steps.  What a step does to the history is one of three things.     *)
(***************************************************************************)

Keeps   == opSeq' = opSeq /\ history' = history
Clears  == opSeq' = opSeq /\ history' = {}
Records == opSeq' = opSeq + 1 /\ history' = Recorded(history, opSeq + 1)

LEMMA HistoryMoves ==
    ASSUME [Next]_vars
    PROVE  Keeps \/ Clears \/ Records
<1> USE DEF Keeps, Clears, Records, server, renderer, resender, terminal, vars
<1>1. CASE UNCHANGED vars
  BY <1>1
<1>2. ASSUME NEW kind \in DOMAIN Scripts, BeginUpdate(kind) PROVE Keeps
  BY <1>2 DEF BeginUpdate
<1>3. CASE Render
  <2>1. CASE BeginRedraw
    BY <2>1 DEF BeginRedraw
  <2>2. CASE FlushHistory
    BY <2>2 DEF FlushHistory, ClearedHistory
  <2>3. ASSUME NEW n \in 1..MaxBatch, LockSend(n) PROVE Keeps
    BY <2>3 DEF LockSend
  <2>4. CASE SendClosed
    BY <2>4 DEF SendClosed
  <2>5. CASE EncodeOp
    BY <2>5 DEF EncodeOp
  <2>6. ASSUME NEW dropped \in SUBSET batch, Transmit(dropped) PROVE Keeps
    BY <2>6 DEF Transmit
  <2> QED
    BY <1>3, <2>1, <2>2, <2>3, <2>4, <2>5, <2>6 DEF Render
<1>4. ASSUME NEW s \in batch, TransmitFails(s) PROVE Keeps
  BY <1>4 DEF TransmitFails
<1>5. CASE SendCursor
  BY <1>5 DEF SendCursor
<1>6. CASE Close \/ KeepAlive \/ RecvNack \/ RecvStrayNack \/ QueueNack \/ TakeNack
  BY <1>6 DEF Close, KeepAlive, RecvNack, RecvStrayNack, QueueNack, TakeNack
<1>7. CASE Answer
  <2>1. CASE ResendClosed \/ ResendMissing
    BY <2>1 DEF ResendClosed, ResendMissing, Done, KeepCounts
  <2>2. CASE ResendSnapshot \/ ResendStorm
    BY <2>2 DEF ResendSnapshot, ResendStorm, Done, Reset, ClearedHistory
  <2>3. ASSUME NEW dropped \in SUBSET ReplayRun, ResendReplay(dropped) PROVE Keeps
    BY <2>3 DEF ResendReplay, Done, CountRequest
  <2> QED
    BY <1>7, <2>1, <2>2, <2>3 DEF Answer
<1>8. CASE ResendSnapshotFails \/ DrainAndNotify \/ CooldownExpires \/ WindowExpires
  BY <1>8 DEF ResendSnapshotFails, DrainAndNotify, CooldownExpires, WindowExpires, Done, KeepCounts
<1>9. ASSUME NEW s \in lost, GiveUp(s) PROVE Keeps
  BY <1>9 DEF GiveUp
<1> QED
  BY <1>1, <1>2, <1>3, <1>4, <1>5, <1>6, <1>7, <1>8, <1>9 DEF Next

LEMMA SuffixStep ==
    ASSUME TypeOK, HistoryIsSuffix, [Next]_vars
    PROVE  HistoryIsSuffix'
<1>1. opSeq \in Nat
  BY DEF TypeOK
<1>2. CASE Keeps
  BY <1>2 DEF Keeps, HistoryIsSuffix
<1>3. CASE Clears
  BY <1>1, <1>3, ClearedSuffix DEF Clears
<1>4. CASE Records
  <2>1. PICK lo \in 0..(opSeq + 2) :
          /\ history' = lo..opSeq'
          /\ opSeq' - lo + 1 <= HistorySize
    BY <1>1, <1>4, RecordedSuffix DEF Records
  <2>2. 0..(opSeq + 2) = 0..(opSeq' + 1)
    BY <1>1, <1>4 DEF Records
  <2> QED
    BY <2>1, <2>2 DEF HistoryIsSuffix
<1> QED
  BY <1>2, <1>3, <1>4, HistoryMoves

LEMMA OpSeqGrows ==
    ASSUME TypeOK, [Next]_vars
    PROVE  opSeq \in Nat /\ opSeq' \in Nat /\ opSeq <= opSeq'
BY HistoryMoves DEF TypeOK, Keeps, Clears, Records

LEMMA KnownStep ==
    ASSUME TypeOK, HistoryIsSuffix, Known, [Next]_vars
    PROVE  Known'
<1> USE DEF Known, server, renderer, resender, terminal, vars
<1>1. opSeq \in Nat /\ opSeq' \in Nat /\ opSeq <= opSeq'
  BY OpSeqGrows
<1>2. CASE UNCHANGED vars
  BY <1>2
<1>3. ASSUME NEW kind \in DOMAIN Scripts, BeginUpdate(kind) PROVE Known'
  BY <1>3 DEF BeginUpdate
<1>4. CASE Render
  <2>1. CASE FlushHistory \/ BeginRedraw \/ SendClosed
    BY <2>1 DEF FlushHistory, BeginRedraw, SendClosed
  <2>2. ASSUME NEW n \in 1..MaxBatch, LockSend(n) PROVE Known'
    BY <2>2 DEF LockSend
  <2>3. CASE EncodeOp
    BY <1>1, <2>3 DEF EncodeOp
  <2>4. ASSUME NEW dropped \in SUBSET batch, Transmit(dropped) PROVE Known'
    BY <1>1, <2>4 DEF Transmit, Arrives
  <2> QED
    BY <1>4, <2>1, <2>2, <2>3, <2>4 DEF Render
<1>5. ASSUME NEW s \in batch, TransmitFails(s) PROVE Known'
  <2>1. batch' = {} /\ lost' \subseteq lost \cup batch /\ UNCHANGED <<opSeq, top>>
    BY <1>5 DEF TransmitFails
  <2> QED
    BY <1>1, <2>1
<1>6. CASE SendCursor
  <2>1. opSeq' = opSeq + 1 /\ lost' \subseteq lost \cup {opSeq + 1} /\ UNCHANGED <<batch, top>>
    BY <1>6 DEF SendCursor
  <2> QED
    BY <1>1, <2>1
<1>7. CASE KeepAlive
  BY <1>1, <1>7 DEF KeepAlive
<1>8. CASE Close \/ RecvNack \/ RecvStrayNack \/ QueueNack \/ TakeNack
  BY <1>8 DEF Close, RecvNack, RecvStrayNack, QueueNack, TakeNack
<1>9. CASE Answer
  <2>1. CASE ResendClosed \/ ResendStorm \/ ResendMissing
    BY <2>1 DEF ResendClosed, ResendStorm, ResendMissing, Done
  <2>2. CASE ResendSnapshot
    <3>1. lost' \subseteq lost /\ UNCHANGED <<opSeq, batch, top>>
      BY <2>2 DEF ResendSnapshot, Done
    <3> QED
      BY <3>1
  <2>3. ASSUME NEW dropped \in SUBSET ReplayRun, ResendReplay(dropped) PROVE Known'
    <3>1. ReplayRun \subseteq 0..opSeq
      BY <1>1, ReplayRunKept DEF HistoryIsSuffix
    <3>2. UNCHANGED <<opSeq, batch>>
      BY <2>3 DEF ResendReplay, Done
    <3>3. lost' \subseteq lost \cup ReplayRun /\ top' \in {top} \cup ReplayRun
      BY <2>3 DEF ResendReplay, Arrives
    <3> QED
      BY <1>1, <3>1, <3>2, <3>3
  <2> QED
    BY <1>9, <2>1, <2>2, <2>3 DEF Answer
<1>10. CASE ResendSnapshotFails \/ DrainAndNotify \/ CooldownExpires \/ WindowExpires
  BY <1>10 DEF ResendSnapshotFails, DrainAndNotify, CooldownExpires, WindowExpires, Done
<1>11. ASSUME NEW s \in lost, GiveUp(s) PROVE Known'
  BY <1>11 DEF GiveUp
<1> QED
  BY <1>2, <1>3, <1>4, <1>5, <1>6, <1>7, <1>8, <1>9, <1>10, <1>11 DEF Next

\* Requests only move from one stage to the next, or disappear.
LEMMA RequestMoves ==
    ASSUME [Next]_vars, ~RecvNack, ~RecvStrayNack
    PROVE  /\ reading' = reading \/ reading' = NoRequest
           /\ req' = req \/ req' = NoRequest \/ (queue # <<>> /\ req' = Head(queue))
           /\ queue' = queue \/ queue' = <<>> \/ queue' = <<reading>> \/ TakeNack
<1> USE DEF server, renderer, resender, terminal, vars
<1>1. CASE UNCHANGED vars
  BY <1>1
<1>2. ASSUME NEW kind \in DOMAIN Scripts, BeginUpdate(kind) PROVE UNCHANGED <<reading, req, queue>>
  BY <1>2 DEF BeginUpdate
<1>3. CASE Render
  BY <1>3 DEF Render, BeginRedraw, FlushHistory, LockSend, SendClosed, EncodeOp, Transmit
<1>4. ASSUME NEW s \in batch, TransmitFails(s) PROVE UNCHANGED <<reading, req, queue>>
  BY <1>4 DEF TransmitFails
<1>5. CASE SendCursor \/ Close \/ KeepAlive
  BY <1>5 DEF SendCursor, Close, KeepAlive
<1>6. CASE QueueNack
  BY <1>6 DEF QueueNack, Queued
<1>7. CASE TakeNack
  BY <1>7 DEF TakeNack
<1>8. CASE Answer
  BY <1>8 DEF Answer, ResendClosed, ResendSnapshot, ResendStorm, ResendMissing, ResendReplay, Done
<1>9. CASE ResendSnapshotFails \/ DrainAndNotify \/ CooldownExpires \/ WindowExpires
  BY <1>9 DEF ResendSnapshotFails, DrainAndNotify, CooldownExpires, WindowExpires, Done
<1>10. ASSUME NEW s \in lost, GiveUp(s) PROVE UNCHANGED <<reading, req, queue>>
  BY <1>10 DEF GiveUp
<1> QED
  BY <1>1, <1>2, <1>3, <1>4, <1>5, <1>6, <1>7, <1>8, <1>9, <1>10 DEF Next

LEMMA PendingStep ==
    ASSUME TypeOK, Known, Pending, [Next]_vars
    PROVE  Pending'
<1>1. opSeq \in Nat /\ opSeq' \in Nat /\ opSeq <= opSeq'
  BY OpSeqGrows
<1>2. Meant(NoRequest, opSeq')
  BY DEF Meant, NoRequest
<1>3. /\ Meant(reading, opSeq')
      /\ Meant(req, opSeq')
      /\ queue # <<>> => Meant(Head(queue), opSeq')
  <2>1. reading \in Requests /\ req \in Requests /\ (queue # <<>> => Head(queue) \in Requests)
    BY DEF TypeOK
  <2> QED
    BY <2>1, <1>1, MeaningKept DEF Pending
<1>4. ASSUME ~RecvNack, ~RecvStrayNack PROVE Pending'
  <2>1. Meant(reading', opSeq') /\ Meant(req', opSeq')
    BY <1>2, <1>3, <1>4, RequestMoves
  <2>2. CASE queue' = queue \/ queue' = <<>>
    BY <2>1, <2>2, <1>3 DEF Pending
  <2>3. CASE queue' = <<reading>>
    <3>1. Head(queue') = reading
      BY <2>3
    <3> QED
      BY <2>1, <3>1, <1>3 DEF Pending
  <2>4. CASE TakeNack
    <3>1. queue' = <<>>
      BY <2>4 DEF TakeNack, TypeOK
    <3> QED
      BY <2>1, <3>1 DEF Pending
  <2> QED
    BY <1>4, <2>2, <2>3, <2>4, RequestMoves
<1>5. CASE RecvNack
  <2>1. PICK op \in lost, kind \in Ranges, epoch \in Epochs :
          Missing(op) /\ reading' = Request(kind, op, epoch)
    BY <1>5 DEF RecvNack
  <2>2. op \in 0..top /\ kind \in {"one", "rest", "open"} /\ epoch \in Nat
    BY <2>1, BoundAssumption DEF Missing, Known, TypeOK
  <2>3. Meant(reading', opSeq)
    BY <2>1, <2>2, RequestMeant
  <2>4. UNCHANGED <<opSeq, queue, req>>
    BY <1>5 DEF RecvNack, server
  <2> QED
    BY <2>3, <2>4 DEF Pending
<1>6. CASE RecvStrayNack
  <2>1. UNCHANGED <<opSeq, queue, req>>
        /\ reading' \in StrayRequests \cup {Request("open", op, 0) : op \in 1..top}
    BY <1>6 DEF RecvStrayNack, server
  <2>2. CASE reading' \in StrayRequests
    <3>1. reading'.op = -1
      BY <2>2 DEF StrayRequests
    <3> QED
      BY <2>1, <3>1 DEF Pending, Meant
  <2>3. ASSUME NEW op \in 1..top, reading' = Request("open", op, 0) PROVE Pending'
    <3>1. op \in 0..top
      BY <2>3 DEF Known
    <3>2. Meant(reading', opSeq)
      BY <2>3, <3>1, RequestMeant
    <3> QED
      BY <2>1, <3>2 DEF Pending
  <2> QED
    BY <2>1, <2>2, <2>3
<1> QED
  BY <1>4, <1>5, <1>6

\* The faults that are left never grow.
LEMMA FaultsFall ==
    ASSUME budget \in [Bounds -> Nat], NEW name \in Bounds, Spend(name)
    PROVE  /\ budget.faults \in Nat /\ budget'.faults \in Nat
           /\ budget'.faults <= budget.faults
           /\ name = "faults" => budget'.faults < budget.faults
<1>1. budget[name] \in Nat /\ budget[name] > 0 /\ budget' = [budget EXCEPT ![name] = @ - 1]
  BY DEF Spend
<1>2. "faults" \in Bounds /\ budget["faults"] \in Nat
  BY DEF Bounds
<1>3. CASE name = "faults"
  <2>1. budget'.faults = budget.faults - 1
    BY <1>1, <1>2, <1>3
  <2> QED BY <1>1, <1>2, <1>3, <2>1
<1>4. CASE name # "faults"
  <2>1. budget'.faults = budget.faults
    BY <1>1, <1>2, <1>4
  <2> QED BY <1>2, <1>4, <2>1
<1> QED BY <1>3, <1>4

LEMMA FaultsStay ==
    ASSUME budget \in [Bounds -> Nat], NEW n, budget' = [budget EXCEPT !.losses = @ - n]
    PROVE  budget'.faults = budget.faults
BY DEF Bounds

\* What is kept after a step was kept before or has just been numbered.
LEMMA KeptOrNew ==
    ASSUME TypeOK, HistoryIsSuffix, [Next]_vars
    PROVE  \A s \in history' : s \in history \/ s = opSeq + 1
BY HistoryMoves, RecordedSuffix DEF Keeps, Clears, Records, TypeOK

\* A replay that brings back covered operations finds the update between its
\* fill and its flush.
LEMMA StaleBeforeFlush ==
    ASSUME TypeOK, Covered, Stale
    PROVE  script = <<"flush", "bitmap">>
BY ReplayRunKept DEF Covered, Stale

\* Each call of an update leaves one of the remainders.
LEMMA NextCall ==
    ASSUME NEW t \in Remainders, t # <<>>
    PROVE  \/ t = <<"send">> /\ Head(t) = "send" /\ Tail(t) = <<>>
           \/ t = <<"bitmap">> /\ Head(t) = "bitmap" /\ Tail(t) = <<>>
           \/ t = <<"fill", "bitmap">> /\ Head(t) = "fill" /\ Tail(t) = <<"bitmap">>
           \/ /\ t = <<"fill", "flush", "bitmap">> /\ Head(t) = "fill"
              /\ Tail(t) = <<"flush", "bitmap">>
           \/ t = <<"flush", "bitmap">> /\ Head(t) = "flush" /\ Tail(t) = <<"bitmap">>
           \/ /\ t = <<"flush", "fill", "bitmap">> /\ Head(t) = "flush"
              /\ Tail(t) = <<"fill", "bitmap">>
<1>1. CASE t = <<"send">>
  BY <1>1
<1>2. CASE t = <<"bitmap">>
  BY <1>2
<1>3. CASE t = <<"fill", "bitmap">>
  BY <1>3
<1>4. CASE t = <<"fill", "flush", "bitmap">>
  BY <1>4
<1>5. CASE t = <<"flush", "bitmap">>
  BY <1>5
<1>6. CASE t = <<"flush", "fill", "bitmap">>
  BY <1>6
<1> QED BY <1>1, <1>2, <1>3, <1>4, <1>5, <1>6, Zenon DEF Remainders

\* Steps that leave the update where it is.
LEMMA DrawnKept ==
    ASSUME TypeOK, HistoryIsSuffix, Drawn, [Next]_vars,
           UNCHANGED <<script, painted, superseded, stained>>,
           (left' = left /\ batch' = batch) \/ (~Idle /\ Head(script) \in Sending),
           budget'.faults \in Nat, budget'.faults <= budget.faults,
           closed => closed'
    PROVE  Drawn'
<1>1. /\ opSeq \in Nat /\ opSeq' \in Nat /\ opSeq <= opSeq' /\ painted \in Nat
      /\ superseded \in Int /\ history \subseteq Nat /\ budget.faults \in Nat
      /\ MaxFaults \in Nat
  BY OpSeqGrows, BoundAssumption DEF TypeOK, Bounds
<1>2. Drawing'
  BY <1>1 DEF Drawn, Drawing
<1>3. Covered'
  <2>1. \A s \in history' : s \in history \/ s = opSeq + 1
    BY KeptOrNew
  <2>2. opSeq + 1 > painted /\ opSeq + 1 > superseded /\ ~(opSeq + 1 <= superseded)
    BY <1>1 DEF Drawn, Drawing
  <2> QED BY <2>1, <2>2 DEF Drawn, Covered
<1>4. Excused'
  BY <1>1 DEF Drawn, Excused
<1> QED BY <1>2, <1>3, <1>4 DEF Drawn

\* The update sends its next piece.
LEMMA DrawnTransmit ==
    ASSUME TypeOK, HistoryIsSuffix, Drawn, NEW dropped \in SUBSET batch, Transmit(dropped)
    PROVE  Drawn'
<1>1. /\ opSeq \in Nat /\ opSeq' = opSeq /\ history' = history /\ history \subseteq Nat
      /\ painted \in Nat /\ superseded \in Int /\ painted' = opSeq
      /\ superseded' = IF Head(script) = "fill" THEN painted ELSE superseded
      /\ stained' = (stained /\ Head(script) = "send")
      /\ script' = Tail(script) /\ left' = 0 /\ batch' = {} /\ closed' = closed
      /\ budget'.faults = budget.faults
  BY FaultsStay DEF Transmit, TypeOK, server
<1>2. script \in Remainders /\ ~Idle /\ Head(script) \in Sending
  BY DEF Drawn, Drawing, Transmit
<1>3. superseded <= painted /\ painted <= opSeq
  BY DEF Drawn, Drawing
<1>4. \/ script = <<"send">> /\ script' = <<>>
      \/ script = <<"bitmap">> /\ script' = <<>>
      \/ script = <<"fill", "bitmap">> /\ script' = <<"bitmap">>
      \/ script = <<"fill", "flush", "bitmap">> /\ script' = <<"flush", "bitmap">>
  <2>1. Head(script) # "flush"
    BY <1>2 DEF Sending
  <2> QED BY <1>1, <1>2, <2>1, NextCall
<1>5. Drawing'
  <2>1. script' \in Remainders
    BY <1>4 DEF Remainders
  <2> QED BY <1>1, <1>3, <2>1 DEF Drawing
<1>6. Covered'
  <2>1. CASE script = <<"send">> \/ script = <<"bitmap">>
    <3>1. script' = <<>> /\ superseded' = superseded /\ script # <<"flush", "bitmap">>
      BY <1>1, <1>4, <2>1
    <3> QED BY <1>1, <3>1 DEF Drawn, Covered
  <2>2. CASE script = <<"fill", "bitmap">>
    <3>1. script' = <<"bitmap">> /\ superseded' = painted /\ \A s \in history : s > painted
      BY <1>1, <1>4, <2>2 DEF Drawn, Covered
    <3>2. script' # <<"fill", "bitmap">>
      BY <3>1
    <3>3. ~ \E s \in history' : s <= superseded'
      BY <1>1, <3>1
    <3> QED BY <3>2, <3>3 DEF Covered
  <2>3. CASE script = <<"fill", "flush", "bitmap">>
    <3>1. script' = <<"flush", "bitmap">> /\ script' # <<"fill", "bitmap">>
      BY <1>4, <2>3
    <3> QED BY <3>1 DEF Covered
  <2> QED BY <1>4, <2>1, <2>2, <2>3
<1>7. Excused'
  <2>1. CASE script = <<"send">>
    <3>1. script \notin {<<"flush", "bitmap">>, <<"bitmap">>}
      BY <2>1
    <3> QED BY <1>1, <3>1 DEF Drawn, Excused
  <2>2. CASE script # <<"send">>
    <3>1. Head(script) # "send"
      BY <1>2, <2>2, NextCall
    <3> QED BY <1>1, <3>1 DEF Drawn, Excused
  <2> QED BY <2>1, <2>2
<1> QED BY <1>5, <1>6, <1>7 DEF Drawn

\* An update begins, or ends early.
LEMMA DrawnScript ==
    ASSUME TypeOK, Drawn, UNCHANGED <<opSeq, history, superseded, stained, closed>>,
           painted' \in {painted, opSeq}, left' = 0, batch' = {},
           script # <<"flush", "bitmap">>, script' \in Remainders,
           script' # <<"flush", "bitmap">>, script' # <<"fill", "bitmap">>,
           budget'.faults \in Nat, budget'.faults <= budget.faults,
           Idle \/ budget'.faults < budget.faults \/ closed
    PROVE  Drawn'
<1>1. /\ opSeq \in Nat /\ painted \in Nat /\ superseded \in Int /\ budget.faults \in Nat
      /\ MaxFaults \in Nat
  BY BoundAssumption DEF TypeOK, Bounds
<1>2. Drawing'
  BY <1>1 DEF Drawn, Drawing
<1>3. Covered'
  BY DEF Drawn, Covered
<1>4. Excused'
  <2>1. budget'.faults <= MaxFaults /\ (budget'.faults = MaxFaults => budget.faults = MaxFaults)
    BY <1>1 DEF Drawn, Excused
  <2>2. CASE Idle
    <3>1. script \notin {<<"flush", "bitmap">>, <<"bitmap">>}
      BY <2>2
    <3> QED BY <2>1, <3>1, Zenon DEF Drawn, Excused
  <2>3. CASE closed
    BY <2>1, <2>3 DEF Excused
  <2>4. CASE budget'.faults < budget.faults
    <3>1. budget'.faults # MaxFaults
      BY <1>1, <2>1, <2>4
    <3> QED BY <2>1, <3>1 DEF Excused
  <2> QED BY <2>2, <2>3, <2>4
<1> QED BY <1>2, <1>3, <1>4 DEF Drawn

LEMMA DrawnFlush ==
    ASSUME TypeOK, Drawn, FlushHistory
    PROVE  Drawn'
<1>1. /\ history' = {} /\ script' = Tail(script) /\ left' = 0 /\ batch' = {}
      /\ UNCHANGED <<opSeq, closed, painted, superseded, stained, budget>>
  BY DEF FlushHistory, ClearedHistory
<1>2. \/ script = <<"flush", "bitmap">> /\ script' = <<"bitmap">>
      \/ script = <<"flush", "fill", "bitmap">> /\ script' = <<"fill", "bitmap">>
  <2>1. script \in Remainders /\ script # <<>> /\ Head(script) = "flush"
    BY DEF FlushHistory, Drawn, Drawing
  <2> QED BY <1>1, <2>1, NextCall
<1>3. Drawing'
  BY <1>1, <1>2 DEF Drawn, Drawing, Remainders
<1>4. Covered'
  BY <1>1 DEF Covered
<1>5. Excused'
  <2>1. CASE script = <<"flush", "bitmap">>
    BY <1>1, <1>2, <2>1 DEF Drawn, Excused
  <2>2. CASE script = <<"flush", "fill", "bitmap">>
    <3>1. script \notin {<<"flush", "bitmap">>, <<"bitmap">>}
      BY <2>2
    <3> QED BY <1>1, <3>1 DEF Drawn, Excused
  <2> QED BY <1>2, <2>1, <2>2
<1> QED BY <1>3, <1>4, <1>5 DEF Drawn

LEMMA DrawnReplay ==
    ASSUME TypeOK, Drawn, NEW dropped \in SUBSET ReplayRun, ResendReplay(dropped)
    PROVE  Drawn'
<1>1. /\ UNCHANGED <<opSeq, history, closed, script, left, batch, painted, superseded>>
      /\ stained' = (stained \/ Stale) /\ budget'.faults = budget.faults
  BY FaultsStay DEF ResendReplay, Done, CountRequest, renderer, TypeOK
<1>2. Stale => script = <<"flush", "bitmap">>
  BY StaleBeforeFlush DEF Drawn
<1>3. Drawing' /\ Covered'
  BY <1>1 DEF Drawn, Drawing, Covered
<1>4. Excused'
  BY <1>1, <1>2 DEF Drawn, Excused
<1> QED BY <1>3, <1>4 DEF Drawn

LEMMA DrawnStep ==
    ASSUME TypeOK, HistoryIsSuffix, Drawn, [Next]_vars
    PROVE  Drawn'
<1> USE DEF server, renderer, resender, terminal, vars
<1>1. budget \in [Bounds -> Nat] /\ budget.faults \in Nat
  BY DEF TypeOK, Bounds
<1>2. {"updates", "faults", "stray"} \subseteq Bounds
  BY DEF Bounds
<1>3. ASSUME UNCHANGED <<script, painted, superseded, stained, closed, budget>>,
             (left' = left /\ batch' = batch) \/ (~Idle /\ Head(script) \in Sending)
      PROVE  Drawn'
  BY <1>1, <1>3, DrawnKept
<1>4. CASE UNCHANGED vars
  BY <1>3, <1>4
<1>5. ASSUME NEW kind \in DOMAIN Scripts, BeginUpdate(kind) PROVE Drawn'
  <2>1. budget'.faults \in Nat /\ budget'.faults <= budget.faults
    BY <1>1, <1>2, <1>5, FaultsFall DEF BeginUpdate
  <2>2. /\ UNCHANGED <<opSeq, history, painted, superseded, stained, closed, left, batch>>
        /\ Idle /\ script' = Scripts[kind]
    BY <1>5 DEF BeginUpdate
  <2>3. left' = 0 /\ batch' = {} /\ script # <<"flush", "bitmap">>
    BY <2>2 DEF TypeOK
  <2> QED BY <2>1, <2>2, <2>3, ScriptsType, DrawnScript
<1>6. CASE Render
  <2>1. CASE BeginRedraw
    <3>1. /\ UNCHANGED <<opSeq, history, painted, superseded, stained, closed, left, batch, budget>>
          /\ Idle /\ script' = Scripts["image"]
      BY <2>1 DEF BeginRedraw
    <3>2. left' = 0 /\ batch' = {} /\ script # <<"flush", "bitmap">>
      BY <3>1 DEF TypeOK
    <3> QED BY <1>1, <3>1, <3>2, ScriptsType, DrawnScript
  <2>2. CASE FlushHistory
    BY <2>2, DrawnFlush
  <2>3. ASSUME NEW n \in 1..MaxBatch, LockSend(n) PROVE Drawn'
    BY <1>3, <2>3 DEF LockSend
  <2>4. CASE SendClosed
    <3>1. /\ UNCHANGED <<opSeq, history, painted, superseded, stained, closed, left, batch, budget>>
          /\ script' = <<>> /\ closed /\ left = 0 /\ batch = {} /\ Head(script) \in Sending
      BY <2>4 DEF SendClosed
    <3>2. /\ script # <<"flush", "bitmap">> /\ script' \in Remainders
          /\ script' # <<"flush", "bitmap">> /\ script' # <<"fill", "bitmap">>
      BY <3>1 DEF Sending, Remainders
    <3> QED BY <1>1, <3>1, <3>2, DrawnScript
  <2>5. CASE EncodeOp
    <3>1. ~Idle /\ Head(script) \in Sending
      BY <2>5 DEF EncodeOp, Drawn, Drawing, TypeOK
    <3> QED BY <1>3, <2>5, <3>1 DEF EncodeOp
  <2>6. ASSUME NEW dropped \in SUBSET batch, Transmit(dropped) PROVE Drawn'
    BY <2>6, DrawnTransmit
  <2> QED BY <1>6, <2>1, <2>2, <2>3, <2>4, <2>5, <2>6 DEF Render
<1>7. ASSUME NEW s \in batch, TransmitFails(s) PROVE Drawn'
  <2>1. budget'.faults \in Nat /\ budget'.faults < budget.faults
    BY <1>1, <1>2, <1>7, FaultsFall DEF TransmitFails
  <2>2. /\ UNCHANGED <<opSeq, history, superseded, stained, closed>> /\ painted' = opSeq
        /\ script' = <<>> /\ left' = 0 /\ batch' = {}
    BY <1>7 DEF TransmitFails
  <2>3. Head(script) \in Sending
    BY <1>7 DEF Drawn, Drawing
  <2>4. /\ script # <<"flush", "bitmap">> /\ script' \in Remainders
        /\ script' # <<"flush", "bitmap">> /\ script' # <<"fill", "bitmap">>
    BY <2>2, <2>3 DEF Sending, Remainders
  <2> QED BY <1>1, <2>1, <2>2, <2>4, DrawnScript
<1>8. CASE SendCursor
  <2>1. budget'.faults \in Nat /\ budget'.faults <= budget.faults
    BY <1>1, <1>2, <1>8, FaultsFall DEF SendCursor
  <2> QED BY <1>8, <2>1, DrawnKept DEF SendCursor
<1>9. CASE Close
  <2>1. closed' = TRUE /\ UNCHANGED <<opSeq, history, renderer, resender, redraw, terminal, budget>>
    BY <1>9 DEF Close
  <2>2. closed => closed'
    BY <2>1
  <2>3. UNCHANGED <<script, painted, superseded, stained, left, batch, budget>>
    BY <2>1
  <2>4. budget'.faults <= budget.faults /\ budget'.faults \in Nat
    BY <1>1, <2>3
  <2> QED BY <2>2, <2>3, <2>4, DrawnKept
<1>10. CASE KeepAlive \/ RecvNack \/ QueueNack \/ TakeNack
  BY <1>3, <1>10 DEF KeepAlive, RecvNack, QueueNack, TakeNack
<1>11. CASE RecvStrayNack
  <2>1. budget'.faults \in Nat /\ budget'.faults <= budget.faults
    BY <1>1, <1>2, <1>11, FaultsFall DEF RecvStrayNack
  <2> QED BY <1>11, <2>1, DrawnKept DEF RecvStrayNack
<1>12. CASE Answer
  <2>1. CASE ResendClosed \/ ResendSnapshot \/ ResendStorm \/ ResendMissing
    BY <1>3, <2>1 DEF ResendClosed, ResendSnapshot, ResendStorm, ResendMissing, Done
  <2>2. ASSUME NEW dropped \in SUBSET ReplayRun, ResendReplay(dropped) PROVE Drawn'
    BY <2>2, DrawnReplay
  <2> QED BY <1>12, <2>1, <2>2 DEF Answer
<1>13. CASE ResendSnapshotFails
  <2>1. budget'.faults \in Nat /\ budget'.faults <= budget.faults
    BY <1>1, <1>2, <1>13, FaultsFall DEF ResendSnapshotFails
  <2> QED BY <1>13, <2>1, DrawnKept DEF ResendSnapshotFails, Done
<1>14. CASE DrainAndNotify \/ CooldownExpires \/ WindowExpires
  BY <1>3, <1>14 DEF DrainAndNotify, CooldownExpires, WindowExpires
<1>15. ASSUME NEW s \in lost, GiveUp(s) PROVE Drawn'
  BY <1>3, <1>15 DEF GiveUp
<1> QED
  BY <1>4, <1>5, <1>6, <1>7, <1>8, <1>9, <1>10, <1>11, <1>12, <1>13, <1>14, <1>15 DEF Next

LEMMA IInvInit == Init => IInv
<1> SUFFICES ASSUME Init PROVE IInv
  OBVIOUS
<1>1. TypeOK
  BY TypeInit
<1>2. HistoryIsSuffix
  <2>1. opSeq = 0 /\ history = 0..0 /\ 0 \in 0..(opSeq + 1) /\ 0 - 0 + 1 <= HistorySize
    BY ConstantTypes DEF Init
  <2> QED
    BY <2>1 DEF HistoryIsSuffix
<1>3. Known /\ Pending
  BY DEF Init, Known, Pending, Meant, NoRequest
<1>4. Drawn
  <2>1. /\ script = <<>> /\ left = 0 /\ batch = {} /\ opSeq = 0 /\ painted = 0 /\ superseded = -1
        /\ history = {0} /\ stained = FALSE /\ budget.faults = MaxFaults
    BY DEF Init
  <2>2. Drawing
    BY <2>1 DEF Drawing, Remainders
  <2>3. Covered /\ Excused
    BY <2>1, BoundAssumption DEF Covered, Excused
  <2> QED BY <2>2, <2>3 DEF Drawn
<1> QED
  BY <1>1, <1>2, <1>3, <1>4 DEF IInv

LEMMA IInvStep == IInv /\ [Next]_vars => IInv'
BY TypeStep, SuffixStep, KnownStep, PendingStep, DrawnStep DEF IInv

LEMMA Inductive == Spec => []IInv
<1>1. Init => IInv
  BY IInvInit
<1>2. IInv /\ [Next]_vars => IInv'
  BY IInvStep
<1> QED
  BY <1>1, <1>2, PTL DEF Spec

-----------------------------------------------------------------------------
(***************************************************************************)
(* What follows from the invariant.                                        *)
(***************************************************************************)

\* The history is always one contiguous run of at most HistorySize operations
\* ending at opSeq, for every size, every sequence of updates and every reset.
THEOREM HistoryCorrect == Spec => []HistoryIsSuffix
<1>1. IInv => HistoryIsSuffix
  BY DEF IInv
<1> QED
  BY <1>1, Inductive, PTL

\* Pixels that a replay brings back over a new picture, whatever is requested
\* and however late it is answered, still have the bitmap of that picture to
\* come, unless a write failed or the channel is closed.
THEOREM StaleDrawnOverCorrect == Spec => []StaleDrawnOver
<1>1. IInv => StaleDrawnOver
  <2> SUFFICES ASSUME Excused, stained /\ budget.faults = MaxFaults /\ ~closed
               PROVE  ~Idle /\ script[Len(script)] = "bitmap"
    BY DEF IInv, Drawn, StaleDrawnOver
  <2>1. CASE script = <<"flush", "bitmap">>
    BY <2>1
  <2>2. CASE script = <<"bitmap">>
    BY <2>2
  <2> QED BY <2>1, <2>2 DEF Excused
<1> QED
  BY <1>1, Inductive, PTL

LEMMA ReplayOfKept ==
    ASSUME IInv, req.op \in history
    PROVE  InRange /\ FirstAvailable /\ ReplayRun = Wanted
<1>1. PICK lo \in 0..(opSeq + 1) : history = lo..opSeq /\ opSeq - lo + 1 <= HistorySize
  BY DEF IInv, HistoryIsSuffix
<1>2. /\ opSeq \in Nat /\ req.from \in Int /\ req.to \in Int
      /\ req.op \in Int /\ req.last \in Int
  BY DEF IInv, TypeOK, Requests
<1>3. lo <= req.op /\ req.op <= opSeq /\ lo \in Nat
  BY <1>1, <1>2
<1>4. /\ req.last \in req.op..opSeq
      /\ req.from % SeqMod = req.op % SeqMod
      /\ req.to # OpenEnded => req.to % SeqMod = req.last % SeqMod
  BY <1>2, <1>3 DEF IInv, Pending, Meant
<1>5. opSeq - req.op < Half
  BY <1>1, <1>2, <1>3, ConstantTypes
<1>6. From = req.op
  <2>1. req.op \in Nat
    BY <1>2, <1>3
  <2> QED
    BY <2>1, <1>2, <1>3, <1>4, <1>5, ExtendRecovers DEF From, ExtendFrom
<1>7. To = IF req.to = OpenEnded THEN opSeq ELSE req.last
  <2>1. CASE req.to = OpenEnded
    BY <2>1 DEF To, ExtendTo
  <2>2. CASE req.to # OpenEnded
    <3>1. /\ req.last \in Nat /\ req.last <= opSeq /\ opSeq - req.last < Half
          /\ req.op <= req.last
      BY <1>2, <1>3, <1>4, <1>5, ConstantTypes
    <3>2. Extend(req.to, opSeq) = req.last
      BY <3>1, <1>2, <1>4, <2>2, ExtendRecovers
    <3>3. ~(req.last < ExtendFrom(req, opSeq))
      BY <3>1, <1>2, <1>6 DEF From
    <3> QED
      BY <2>2, <3>2, <3>3 DEF To, ExtendTo
  <2> QED
    BY <2>1, <2>2
<1>8. Last = To /\ From <= To /\ To <= opSeq /\ To \in Int
  BY <1>2, <1>3, <1>4, <1>6, <1>7 DEF Last, Lesser
<1>9. Wanted = From..Last
  BY <1>6, <1>7, <1>8 DEF Wanted
<1>10. \A s \in From..Last : From..s \subseteq history
  BY <1>1, <1>2, <1>3, <1>6, <1>8
<1> QED
  BY <1>1, <1>2, <1>3, <1>6, <1>8, <1>9, <1>10 DEF InRange, FirstAvailable, ReplayRun

\* A request for an operation that is still kept denotes, when it is answered,
\* exactly the operations the terminal asked for: for every modulus, history
\* size below half of it, epoch of the firmware and delay in the queue.
THEOREM ReplayExactCorrect == Spec => []ReplayExact
<1>1. IInv => ReplayExact
  BY ReplayOfKept DEF ReplayExact
<1> QED
  BY <1>1, Inductive, PTL

-----------------------------------------------------------------------------
(***************************************************************************)
(* The cooldown.  While it lasts no request enters readLoop's hands, so    *)
(* the requests that were answered during it and those that still can be   *)
(* are one at most: the drain that follows a reset drops the queue, and    *)
(* what is left is the request readLoop had already let past.              *)
(***************************************************************************)

\* Requests that may still be answered without passing the cooldown check.
Underway ==
    (IF reading = NoRequest THEN 0 ELSE 1)
        + (CASE resendPc = "wait"   -> Len(queue)
             [] resendPc = "resend" -> Len(queue) + 1
             [] OTHER               -> 0)

SlipsCounted == IF cooldown THEN slipped + Underway <= 1 ELSE slipped = 0

LEMMA SlipsInit == Init => SlipsCounted
BY DEF Init, SlipsCounted

\* Answering a request without a reset uses it up; a reset leaves what readLoop
\* has in hand.
LEMMA SlipsAnswer ==
    ASSUME TypeOK, SlipsCounted, Answer \/ ResendSnapshotFails
    PROVE  SlipsCounted'
<1>1. slipped \in Nat /\ Len(queue) \in Nat /\ cooldown \in BOOLEAN
  BY DEF TypeOK
<1>2. ASSUME Answering, Done("wait"), cooldown' = cooldown PROVE SlipsCounted'
  BY <1>1, <1>2 DEF Answering, Done, SlipsCounted, Underway
<1>3. ASSUME Answering, Done("drain"), cooldown' = TRUE PROVE SlipsCounted'
  <2>1. /\ resendPc = "resend" /\ resendPc' = "drain" /\ reading' = reading
        /\ slipped' = IF cooldown THEN slipped + 1 ELSE slipped
    BY <1>3 DEF Answering, Done
  <2>2. SlipsCounted' <=> slipped' + (IF reading = NoRequest THEN 0 ELSE 1) <= 1
    BY <1>1, <1>3, <2>1 DEF SlipsCounted, Underway
  <2> QED BY <1>1, <2>1, <2>2 DEF SlipsCounted, Underway
<1>4. CASE ResendClosed \/ ResendMissing \/ ResendSnapshotFails
  BY <1>2, <1>4 DEF ResendClosed, ResendMissing, ResendSnapshotFails, KeepCounts
<1>5. CASE ResendSnapshot \/ ResendStorm
  BY <1>3, <1>5 DEF ResendSnapshot, ResendStorm, Reset
<1>6. ASSUME NEW dropped \in SUBSET ReplayRun, ResendReplay(dropped) PROVE SlipsCounted'
  BY <1>2, <1>6 DEF ResendReplay, CountRequest
<1> QED BY <1>4, <1>5, <1>6 DEF Answer

LEMMA SlipsStep ==
    ASSUME TypeOK, SlipsCounted, [Next]_vars
    PROVE  SlipsCounted'
<1>1. /\ slipped \in Nat /\ cooldown \in BOOLEAN /\ Len(queue) \in Nat
      /\ resendPc \in {"wait", "resend", "drain"}
  BY DEF TypeOK
<1>2. ASSUME UNCHANGED <<reading, queue, resendPc, cooldown, slipped>> PROVE SlipsCounted'
  BY <1>2 DEF SlipsCounted, Underway
<1>3. CASE UNCHANGED vars
  BY <1>2, <1>3 DEF vars, resender
<1>4. ASSUME NEW kind \in DOMAIN Scripts, BeginUpdate(kind) PROVE SlipsCounted'
  BY <1>2, <1>4 DEF BeginUpdate, resender
<1>5. CASE Render
  BY <1>2, <1>5
     DEF Render, BeginRedraw, FlushHistory, LockSend, SendClosed, EncodeOp, Transmit, resender
<1>6. ASSUME NEW s \in batch, TransmitFails(s) PROVE SlipsCounted'
  BY <1>2, <1>6 DEF TransmitFails, resender
<1>7. CASE SendCursor \/ Close \/ KeepAlive \/ WindowExpires
  BY <1>2, <1>7 DEF SendCursor, Close, KeepAlive, WindowExpires, resender
<1>8. CASE RecvNack \/ RecvStrayNack
  <2>1. ~cooldown /\ UNCHANGED <<cooldown, slipped>>
    BY <1>8 DEF RecvNack, RecvStrayNack, Accepts
  <2> QED BY <2>1 DEF SlipsCounted
<1>9. CASE QueueNack
  <2>1. /\ reading # NoRequest /\ reading' = NoRequest /\ Len(queue') = 1
        /\ UNCHANGED <<resendPc, cooldown, slipped>>
    BY <1>9 DEF QueueNack, Queued
  <2> QED BY <1>1, <2>1 DEF SlipsCounted, Underway
<1>10. CASE TakeNack
  <2>1. /\ resendPc = "wait" /\ resendPc' = "resend" /\ Len(queue) = Len(queue') + 1
        /\ UNCHANGED <<reading, cooldown, slipped>>
    BY <1>10 DEF TakeNack, TypeOK
  <2> QED BY <1>1, <2>1 DEF SlipsCounted, Underway
<1>11. CASE Answer \/ ResendSnapshotFails
  BY <1>11, SlipsAnswer
<1>12. CASE DrainAndNotify
  <2>1. /\ resendPc = "drain" /\ resendPc' = "wait" /\ Len(queue') = 0
        /\ UNCHANGED <<reading, cooldown, slipped>>
    BY <1>12 DEF DrainAndNotify
  <2> QED BY <1>1, <2>1 DEF SlipsCounted, Underway
<1>13. CASE CooldownExpires
  BY <1>13 DEF CooldownExpires, SlipsCounted
<1>14. ASSUME NEW s \in lost, GiveUp(s) PROVE SlipsCounted'
  BY <1>2, <1>14 DEF GiveUp, resender
<1> QED
  BY <1>3, <1>4, <1>5, <1>6, <1>7, <1>8, <1>9, <1>10, <1>11, <1>12, <1>13, <1>14 DEF Next

\* The cooldown is checked when a request arrives and not when it is answered:
\* one request slips through that gap, and never a second one.
THEOREM AtMostOneSlipCorrect == Spec => []AtMostOneSlip
<1>1. TypeOK /\ SlipsCounted => AtMostOneSlip
  <2> SUFFICES ASSUME TypeOK, SlipsCounted PROVE AtMostOneSlip
    OBVIOUS
  <2>1. slipped \in Nat /\ Len(queue) \in Nat /\ resendPc \in {"wait", "resend", "drain"}
    BY DEF TypeOK
  <2>2. Underway \in Nat
    <3>1. (IF reading = NoRequest THEN 0 ELSE 1) \in Nat
      OBVIOUS
    <3>2. CASE resendPc = "wait"
      BY <2>1, <3>1, <3>2 DEF Underway
    <3>3. CASE resendPc = "resend"
      BY <2>1, <3>1, <3>3 DEF Underway
    <3>4. CASE resendPc = "drain"
      BY <3>1, <3>4 DEF Underway
    <3> QED BY <2>1, <3>2, <3>3, <3>4
  <2> QED BY <2>1, <2>2 DEF SlipsCounted, AtMostOneSlip
<1>2. TypeOK /\ SlipsCounted /\ [Next]_vars => SlipsCounted'
  BY SlipsStep
<1> QED
  BY <1>1, <1>2, SlipsInit, TypeInit, TypeStep, PTL DEF Spec
=============================================================================
