# SunRay2Server: verification project

This directory keeps TLA+ models of the Go daemon under `src/`, the TLC
configurations that check them, and TLAPS proofs about them. The daemon speaks
to Sun Ray thin clients: a terminal opens a TCP connection to the
authentication server, reports its card, and gets a UDP display channel; one of
five kinds of session (card-test, geometry-test, VNC, RDP/web, SSH) draws on
that channel and reads the terminal's keyboard and mouse from it.

## Inventory

| Part | Source | State it keeps | Operations |
|---|---|---|---|
| display channel | `display/client.go` | `opSeq`, `history`, `closed`, the one-place queue `nackRequests`, cooldown and storm window, the two handlers | `SendBatch`, `FlushHistory`, `readLoop`, `queueResend`, `resendLoop`, `Close` |
| screen updates | `display/render.go`, `operation.go` | `renderMu` | `ShowImage`, `ShowImageRegions`, `ShowCalibrationTarget`, native copy |
| terminal input decoding | `display/input.go` | previous key report | HID report to events |
| built-in screens | `display/card_image.go`, `geometry_image.go` | none | drawing |
| authentication server and session routing | `server/server.go` | `active`, `selected`, generations, contexts | `handleConnection`, `selectSession`, `startDisplay`, `switchSession`, `runSession`, `closeAll` |
| VNC session, frames | `vnc/session.go` | `latestFrame`, `pendingChanged`, `pendingResized`, `frameWake` | `Run`, `enqueueFrame`, `frameLoop`, `RequestFullFrame` |
| VNC session, pointer and keys | `vnc/session.go` | `current`, `pointerButtons`, `pointerEvents` | `HandleInput`, `pointerLoop` |
| RFB protocol | `vnc/protocol.go` | where the handshake is, the framebuffer | `handshake`, `negotiateSecurity`, `serve`, update messages |
| VNC scaling and key symbols | `vnc/scale.go`, `keysym.go` | none | `fitRectangle`, `mapRectangle`, `keysymForHID` |
| RDP session, web session | `rdp/session.go`, `web/session.go` | helper processes, runtime directory, VNC bridge | `Run` |
| SSH session | `sshclient/session.go` | `stdin`, caps | `Run`, `connect`, `renderLoop`, `HandleInput` |
| SSH terminal emulator | `sshclient/terminal.go` | cells, cursor, scroll region, parser state, dirty rows | `Write`, `render` |
| geometry session | `geometry/session.go` | the queue of keys, width, height, the largest visited | `Run`, `HandleInput` |
| configuration | `config/config.go` | none after loading | `Load`, `Resolve` |
| authentication messages, smart-card probe, daemon | `auth`, `smartcard`, `cmd/sunrayd` | none | parsing; wiring |

How they interact:

- The server gives a session instance three callbacks: `OnFrame` draws on the
  channel after `isCurrentSession`, `SetInputHandler` and `SetResyncHandler`
  install the session's methods in the channel. Input handlers run on the
  channel's `readLoop`, the resync handler on its `resendLoop`.
- A session is superseded by cancelling its context and raising the generation
  of the display. The goroutines of the old instance notice in their own time.
- RDP and web sessions run a VNC session against a local x11vnc.
- `closeAll` takes every display out of the map under `Server.mu` and closes
  them outside it.

What is hard, and the property that makes each part correct:

| Part | Hard behaviour | What has to hold |
|---|---|---|
| display channel | NACKs lost, repeated, late, across wraps of the 16-bit number; two circuit breakers racing the reader and the renderer | what is kept is replayed exactly; what comes back of a superseded picture is drawn over; every loss is repaired |
| session routing | switch, reconnect and shutdown racing instances that are starting, drawing or failing | one owner of the screen; no leaked channel; superseded instances end; input goes to the owner |
| frames | coalescing, resize, resync and delivery on three goroutines | no changed cell is forgotten; no wake-up is lost; the screen becomes the framebuffer |
| pointer | two senders on one connection | notches are exact; the newest position and the held buttons reach the server |
| keys | reports lost and reordered, connections that break or stall, sessions replaced in the middle of a report | a server holds exactly the keys that are down, and sees each with its chord; a server that does not read cannot keep the channel's reader for ever |
| RFB handshake | three protocol versions, two security types, refusals | client and server understand each other and never both wait |
| screen updates | datagram limit, cropping, tiles, native copies | the terminal shows the image, pixel by pixel |
| scaling | rounding in both directions | a click hits what is shown under it |
| geometry test | sizes that grow and shrink in steps | the target on the monitor is that of the current size |
| helpers | processes that die, hang or write junk; cancellation racing their exits | `Run` returns and leaves no process or waiter; an error screen means an error |
| SSH session | a server that stalls; the shell ending while the loop renders | all output is shown before `Run` returns |
| terminal emulator | sequences split between writes; dirty rows | the result does not depend on the split; no changed row is clean |
| configuration | map iteration, folded keys, defaults | a card has one route, to a session that can start on the display |

`PROJECT.json` lists every hazard at the line where it bites, with the
properties that cover it or the reason none does.

## Modules

| Module | Models | Checked by | Proved in |
|---|---|---|---|
| `OperationSequence` | arithmetic of operation numbers and NACK ranges | (with DisplayChannel) | `DisplayChannelProofs` |
| `DisplayChannel` | `client.go` and the call order of `render.go` | `MCDisplayChannel` | `DisplayChannelProofs` |
| `DisplayOwner` | abstract: one owner of a screen, never twice | (refined by SessionRouting) | `SessionRoutingProofs` |
| `SessionRouting` | `server.go` for one terminal key | `MCSessionRouting` | `SessionRoutingProofs` |
| `FramePipeline` | `vnc/session.go` frames, `protocol.go` updates, `render.go` copies | `MCFramePipeline` | `FramePipelineProofs` |
| `PointerForwarding` | `vnc/session.go` pointer | `MCInput`, `MCPointerForwarding` | `InputProofs` |
| `Terminal` | `sshclient/terminal.go`: the parser and the screen, operators on a record | (with SSHSession) | `SSHSessionProofs` |
| `SSHSession` | `sshclient/session.go`, `startSSH`; uses Terminal | `MCSSHSession` | `SSHSessionProofs` |
| `HelperStack` | `rdp/session.go`, `web/session.go`, `startRDP`, `startWeb` | `MCComponents` | `RemoteDesktopProofs` |
| `InputDecoder`, `Keysyms` | `display/input.go` (keyboard), `vnc/keysym.go`: operators | (with KeyForwarding) | `InputProofs` |
| `KeyForwarding` | `readLoop` and `dispatchInput` of `client.go`, `HandleInput` and `Run` of `vnc/session.go`, `switchSession`; extends InputDecoder and Keysyms | `MCInput` | `InputProofs` |
| `GeometrySession` | `geometry/session.go`, `ShowCalibrationTarget` | `MCComponents` | `GeometryProofs` |
| `RFBHandshake` | `handshake`, `negotiateSecurity`, `serve` of `vnc/protocol.go` | `MCComponents` | `RemoteDesktopProofs` |
| `BitmapEncoding` | sizes and tiles of `render.go`, `operation.go`: operators | (with ScreenUpdates) | `ImageProofs` |
| `ImageRectangles` | `image.Rectangle`: operators shared by BitmapEncoding and ScaledFrames | (with these) | |
| `ScreenUpdates` | `ShowImage`, `ShowImageRegions`, the encoding of bitmaps, the packing of datagrams; extends BitmapEncoding | `MCComponents` | `ImageProofs` |
| `ScaledFrames` | `vnc/scale.go`, `handleFrame`, `sendPointer` and its translations | `MCComponents` | `ImageProofs` |
| `ConfigRouting` | `config.go`, the choice of a geometry in `server.go` | `MCComponents` | `GeometryProofs` |

### DisplayChannel

The state is that of `Client` plus the program counters of the three
goroutines: `script`, `left`, `batch` for the renderer that holds `renderMu`,
`reading` for `readLoop` between the cooldown check and the queue, `resendPc`
and `req` for `resendLoop`. `history` holds the keys of the map. An update is
the list of calls its procedure makes (`Scripts`): a `fill` of the whole screen,
the `bitmap` on it, any other `send`, and `flush`. Three auxiliary variables
say what the pixels of the terminal are worth: `painted`, the last operation of an
update; `superseded`, the last one that a fill has covered; `stained`, that covered
operations were replayed over the fill. `ShowCalibrationImage` has no caller.
`SendBatch` numbers its operations one by one, then writes them in packets; all
this time it holds `mu`, and the model lets nobody else step meanwhile
(`MuFree`), which loses no behaviour because the others can do nothing that
`SendBatch` could see. A write may fail in the middle of the batch; the network
loses any subset of a packet. The
cooldown and the storm window are Booleans and counters; the passing of time is
the actions `CooldownExpires` and `WindowExpires`.

The terminal (`lost`, `abandoned`, `top`) is external: it asks for its first
missing operation, alone, up to what it has seen, or open-ended, with whatever
epoch its firmware writes above the 16 bits; and it may send NACKs it had no
reason to send.

### SessionRouting and DisplayOwner

Each lock section of `server.go` is one action; everything between two lock
sections interleaves. `conn` is the local state of a connection's goroutine
(`handleConnection`, `selectSession`, `startDisplay`, `switchSession`), `inst`
that of `runSession`: its `Run` goroutine (`pc`) and the goroutine that calls
`OnFrame` (`frame`), which may outlive `Run`. `isCurrentSession` and the drawing
that relies on it are separate steps. rdp and web are one kind ("helper"). The
model has one terminal key, so connections race for the same display.

`DisplayOwner` says what this promises: at any time at most one instance owns
the screen, and an owner that was retired never owns it again. `OwnerSpec` is
the refinement: the owner is the current `<<channel, generation>>`, and the
retired instances are those that are cancelled or held by a handler that is
about to cancel them.

### FramePipeline

A row of cells stands for the framebuffer; a rectangle is an interval. The
connection reader turns raw, copy and desktop-size rectangles into `changed`,
`enqueueFrame` merges them into `pending` under the lock and wakes `frameLoop`
after releasing it; `RequestFullFrame` does the same from the resend loop. The
modelled coalescing is the code's: merging of near rectangles, the collapse at
the queue limit, the resize that covers the frame. `received` and `Stale` relate
the terminal's screen to the framebuffer. Only sessions whose frames are not
scaled send native copies (`Copies`); scaling is in `ScaledFrames`, clipping in
`ScreenUpdates`.

### PointerForwarding

An event is known by its number; held buttons and transient wheel bits are told
apart. The channel of capacity one, the hand of `pointerLoop` and the messages
the handler still has to send are separate state. A reconnection waits until
the loop has emptied the channel: `Run` waits a second or more before it dials,
the loop ticks sixty times a second. A view-only session is not modelled (its
handler returns at once).

### KeyForwarding, InputDecoder and Keysyms

A keyboard report names every key that is down. `Receive` decodes one (any one:
UDP loses, repeats and reorders them) into `todo`, the events of `Keyboard` in
the order of the code; `Dispatch` looks up the handler of one event and
`HandleInput` the connection, each under its own lock, and `SendKey` writes,
which blocks while the server does not read. Between any two of these a
connection may break or be made, a server may stall, and `switchSession` may
replace the session, whose successor installs its handler in its own time.
`held` is what a server holds down. `missed` is bookkeeping: the keys that were
pressed before a connection was there to hear of it.

### GeometrySession

The keys that `readLoop` queued (`typed`), `Run`, and the picture of the
terminal with one cell per pixel. `ShowCalibrationTarget` is the list of its
fills and the label; coordinates wrap at `Modulus`. A write may fail between two
operations, and the session may be cancelled at any time.

### RFBHandshake

The two directions of one connection, the client with one action per message it
reads, and an external server that follows RFC 6143 in the version the client
chose. A message has its kind, which stands for its length and layout; a client
that reads another kind than was sent is lost. The 10 second deadline is left
out on purpose: `NeverBothWait` says that a server which follows the protocol
never makes the client need it.

### BitmapEncoding, ScreenUpdates and ScaledFrames

`ScreenUpdates` runs the encoder of `render.go` on images of a few cells: lines
are classified, merged to runs, cut into tiles and packed into datagrams, and an
external terminal executes them. `ShowImageRegions` gets the snapshot that
`frameLoop` makes, which is black outside the announced rectangles, and what a
server may announce of a change: its hull, a rectangle per line, or a copy.
`ScaledFrames` has the rectangles of `scale.go` and, in the other direction, the
translation of a click; `stale` collects the cells whose pixel changed after they
were drawn.

### ConfigRouting

`Load` is `applyDefaults` and `Validate`, `Resolve` returns the set of sessions
that Go's iteration of the maps can lead to, `Connect` and `Geometry` choose the
sizes, and `Startable` collects what the start functions demand of the configuration
and the display: the geometry test refuses displays below 64, which `Validate` and
`parseResolution` accept. Files, fonts and programs that are missing are not modelled.

### MCInput and MCComponents

Models that share no state share a run: a variable chooses one of them in the
initial state and every step is a step of that one. The MC modules extend them, so
that a run checks the very definitions the theorems speak of. The variables of the
component that is not chosen keep their initial values, in which none of its fair
steps is enabled.

### HelperStack

`Run` starts Xvfb, x11vnc and the client program, runs the bridge and waits for
the first exit or its context; then the caller decides about the error screen.
Waiters report exits on a channel of capacity three that nobody reads once `Run`
has returned. Xvfb may die, hang, write a number or junk. The frame loop of the
bridge checks `isCurrentSession` and draws in two steps.

### Terminal and SSHSession

`Terminal` is `terminal.go` as operators on a record with the fields of the
struct. `Write` is a recursive function that runs one round of the code's loop per
byte, or skips it when a rune has consumed it; every control, escape and control
sequence is an operator that returns the new record, dirty rows included. Numbers may
have a sign; ints saturate in `Atoi` at both ends and wrap in sums and differences at
`MaxInt`. Colours and attributes are left out, and one wide rune, one malformed one and
the `Printable` bytes stand for all runes.

`SSHSession` has the program counter of `Run`, that of `renderLoop`, and the
remote shell. Painting (under the terminal's lock, clearing the dirty rows) and
delivering are two steps; `hand` holds the rows between them. Dialling and the
handshake end when the context is cancelled, the setup of the remote shell does
not. A second terminal, `bytewise`, is given the same bytes one at a time.

## Runs

Twelve runs, one for each question. Times are for two workers
on an idle machine.

| Run | Shows | Bounds | Size |
|---|---|---|---|
| `channel` | `TypeOK`, `HistoryIsSuffix`, `ReplayExact`, `AtMostOneSlip`, `StaleDrawnOver` | modulus 8, history 3, one update and its redraws, one loss, one failing write, one stray NACK, channel may close | 3.4M states, 2 min |
| `channel_stale` | `NoStaleReplay` fails | two updates, one loss, nothing fails or closes | 3 s |
| `channel_repair` | `Repaired` under fairness | modulus 32, history 15 (a whole frame), two losses | 300k, 30 s |
| `routing` | `SelectionShown`, `LateDrawsBounded`, `SupersededEnds` | one connection, card-test and a helper session, 2 channels, 2 frames, shutdown | 120k, 90 s |
| `routing_two` | `TypeOK`, `ChannelsReleased`, `OwnerSpec` | two connections, card-test and ssh, 2 channels, shutdown | 1.4M, 2 min |
| `routing_input` | `InteractiveGetsInput` fails | | |
| `pipeline` | `TypeOK`, `NoLostWakeup`, `NoHoleInImage` with copies, failing deliveries and cancellation; `NothingForgotten` and, under fairness, `ScreenCatchesUp` without them | two widths, two colours, queue limit 1, 3 rectangles, a resize, a resync | 1.2M, 2 min |
| `pipeline_copy_order` | `NewestShown` fails | two colours, 4 rectangles | |
| `input` | pointer: `TypeOK`, `WaitingIsNewest`, `WheelExact`, `PositionArrives`; keyboard: `KeysTypeOK`, `KeysAgree`, `ChordKept`, `ReaderFreed`, under fairness | 3 events, 2 connections, wheel cap 2 and a wheel field beyond it; 3 reports of a letter, a key without a symbol and Shift, 2 sessions, 2 connections | 250k, 90 s |
| `pointer_buttons` | `ButtonsForwarded` fails | as above | |
| `shell` | `TypeOK`, `ScreenFollows`, `SplitIndependent`, `OutputShown`, `CancelledReturns` under fairness | 3 by 2 cells, four writes: text, halves of runes and sequences, then any operation; `MaxInt` 15, exceeded at both ends | 490k, 60 s |
| `components` | helpers: `FailureIsReal`, `StackStarts`, `RunEnds`, `TornDown` under fairness; `TargetIsCurrent`; `HandshakeUnderstood`, `NeverBothWait`; `ScreenShowsImage`; `ClickHitsWhatIsShown`; `TerminalsAreServed` | three helpers, 3 frames; 3 keys on targets of 2 to 5 with a label of 4; five server versions, 3 messages; datagrams of 40 bytes, a screen of 4 by 5; screens to 6, frames to 7; some 7900 configurations, right and wrong | 95k, 1 min |

Why the bounds are enough:

- The limits of the code are scaled together. With modulus 8 and history 3 a
  frame and its redraw wrap the numbers, trim the history and leave the request
  of a terminal behind both; the storm limit of three requests or three
  operations is reached by one loss that is asked for again. `Repaired` needs a
  history that holds a whole frame, as the code's 8192 does for the terminals'
  screens, so `channel_repair` has its own, larger numbers. What a frame larger
  than the history loses is a hazard no property covers.
- `StaleDrawnOver` needs a second picture while the first one can still be asked
  for: the redraws that the circuit breakers ask for are that, without a failing
  write too.
- Two channels and two generations on one of them are enough for an instance to
  be superseded both ways; two frames and an error screen reach the bound of
  `LateDrawsBounded`. A card-test session is the one that is switched to
  itself.
- A queue limit of one makes the second update collapse, of two lets a merge
  happen before the collapse. Two widths make a frame shrink and grow.
- Three rows let a scroll region leave a row out, two columns let a wide rune
  fill a line. Four writes are a position, a region or a begun sequence, and the
  operation that is applied to it; what may be written at each of the four is
  listed in `MCSSHSession`. A `MaxInt` of 15 is exceeded by two digits, and
  its negative by two digits and a sign.
- Three reports are a press, one that was lost or reordered, and a release; two
  sessions and two connections let every step of a key's way fall between a
  session and its successor, or a connection and the next. A key without a symbol
  and a modifier are told apart.
- Servers of 3.3, 3.5, 3.7, 3.8 and 3.889 take every path of the version choice;
  every set of offered security types is tried, with and without a password.
- A datagram of 40 bytes has room for a few pixels, so that a line of three
  colours and a run of five lines of two colours need several tiles; images are
  smaller than the screen, wider (and sent in strips) and taller.
- The screens and frames of `ScaledFrames` have every ratio from 1:6 to 7:1, and
  every rectangle of a frame changes; all sizes are covered by the proof.
- A label of four columns fits a target of four or five and none of two, where its place
  is negative and wraps, as that of the code's label of some 250 pixels does on one of 64.
- The configurations have a session of every type with every combination of
  options in one dimension, and routes with keys that differ in case in another; displays and overrides lie on both sides of 64, and a fallback is given,
  left out in one direction or wrong.
- Three events are a movement, a change that overtakes it and a third that
  repairs or not; two connections suffice for a message to reach the wrong one.

In `PROJECT.json` each property of a passing run has a mutant, a plausible bug
in one definition, that makes TLC find the property violated.

### Fairness

- Goroutines of the daemon keep running: every step of a handler, a session
  instance, `resendLoop`, `frameLoop`, `pointerLoop`, `closeAll` is weakly fair
  once it is enabled. Go's scheduler and the fairness of `sync.Mutex` (its
  starvation mode) justify this.
- `Answer` in `DisplayChannel` is strongly fair: `resend` needs `mu`, which the
  renderer may take again and again; the mutex hands it over in the end.
- Tickers and timers fire: the cooldown and the window expire, `pointerLoop`
  ticks, the timeouts of `HelperStack` elapse.
- Nothing is assumed of what the outside chooses to do: terminals, servers and
  helpers need not send, exit or connect, with two exceptions stated in the
  modules: a terminal that lacks an operation keeps asking, and the network
  stops losing when its bound is spent; a VNC server ends the message it began.
- In `SSHSession` dialling ends (it has a time limit), the ticker ticks, and `Run`
  and `renderLoop` take the steps that wait for nobody; the server may stall in
  the handshake and after it, and the shell need not end.
- An SSH instance is not obliged to end (`SupersededEnds` excludes it): after
  the handshake `connect` does not watch its context.
- In `KeyForwarding` the reader, the clearing of the handler and the goroutine that
  waits for a session's context keep running; nothing obliges a server to read or
  to close, a dial to succeed or the daemon to switch.
- In `FramePipeline` and `SessionRouting` weak fairness of an action is written
  `[]<>~Ready \/ []<><<A>>_vars`: the same formula with ENABLED spelled out,
  which TLC is slow to evaluate.

## Findings

Four runs end in a violation, each a disagreement between the code and what it
says of itself:

1. `routing_input`: handlers are installed without asking `isCurrentSession`. An
   instance that is superseded while it starts can take the keyboard and mouse
   from its successor.
2. `pipeline_copy_order`: raw to A, copy A to B, raw to A, delivered as one
   frame, leaves the second image of A in B on the terminal.
3. `pointer_buttons`: a movement that `pointerLoop` holds can be sent after a
   button change and undo it at the server.
4. `channel_stale`: `ShowImage` fills the screen before it flushes the history, and
   `mu` is free between the two. A NACK answered there replays operations of the old
   picture over the new fill; the bitmap covers them only as far as it reaches, and
   in the margin of an image smaller than the screen they stay. The comment on
   `FlushHistory` says that "a later NACK cannot replay stale pixels from a superseded
   frame". What the code does keep of it is `StaleDrawnOver`, which is proved.

The calibration label is wider than the smallest targets. Its place
(`render.go:127`) is then negative and wraps to 16 bits on the wire, so that what the
comment at `render.go:80` calls "the small central label" is drawn in part near 65535
and in part beside the target. The label is in the model, but no run is spent on it.

`Validate` and `parseResolution` accept displays from 1 by 1, and the geometry test
refuses them below 64 by 64: a terminal routed to it gets an error. No document says
which displays the test supports, so `TerminalsAreServed` states the exception and no
run is spent on it.

`Resolve` is documented to select "with deterministic precedence". Keys of a map
that differ in case only are accepted by `Validate`, and between them the
iteration order decides unless one matches exactly; `TerminalsAreServed` holds for
configurations whose keys differ in more. No run is spent on it.

Card-test, geometry-test and SSH sessions set no resync handler. When a circuit
breaker clears the history and acknowledges the range, nobody draws the lost
operations of such a session again (`Repaired` is false with `HasResync = FALSE`).
No document promises otherwise, so no run is spent on it.

The SSH terminal separates the halves of a wide rune in `insertChars`,
`deleteChars`, `eraseChars` and `eraseLine`; a character written over an orphan
right half blanks the cell before it (`ClearWideCell` does the same).

The code also differs from the comment at `client.go:483`, which says that one
large recovery cannot force a full-frame resync: the snapshot branch before it
does just that. The model has this step (`ResendSnapshot`); no run is spent on it.

## Proofs

TLAPS proves the theorems below for every value of the constants that meets the
named assumptions: any number of connections, sessions, channels, reports, events,
writes, rows and cells, any limits. Each component's proofs are in a module of their
own (small components share one). The usual shape is an inductive invariant, one
lemma per action or group of actions that it is preserved, and a last step by PTL.

| Theorem | Statement | Inductive invariant, and why it is needed |
|---|---|---|
| `ExtendRecovers` | `Extend` recovers any operation at most half a modulus behind the counter, whatever epoch was written | no invariant: quotient and remainder by an even modulus; the three cases of the epoch |
| DisplayChannel: `TypeCorrect`, `HistoryCorrect` | `TypeOK`, `HistoryIsSuffix` | inductive together: numbering appends and trims one, flushes and resets empty |
| `StaleDrawnOverCorrect` | `StaleDrawnOver` | `Drawn`: which calls an update may still have to make (`Drawing`); operations a fill has covered are kept only while the flush is the next of them, and none are kept when a fill comes after a flush (`Covered`); so a replay that brings them back finds the bitmap still to come (`Excused`) |
| `ReplayExactCorrect` | `ReplayExact` | `IInv`: requests in hand were written by the terminal for operations it may name; then `ExtendRecovers` for both ends, with `HistorySize < Half` |
| `AtMostOneSlipCorrect` | `AtMostOneSlip` | `SlipsCounted`: during a cooldown the requests already answered and those past the check (`Underway`: in the reader's hand, in the queue, in the loop's) are at most one. The count of what was answered alone says nothing of the request that is still on its way |
| SessionRouting: `TypeCorrect` | `TypeOK` | `Inv1`: besides the types, what each handler may hold at each program point, and that generations and channels are paid for by card events, so that their bounds hold |
| `ChannelsReleasedCorrect` | `ChannelsReleased` | with `Inv1` |
| `OwnerRefinement` | `OwnerSpec`: SessionRouting implements DisplayOwner | `Inv2`: nothing was issued ahead of the current instance, and a display that is being disposed of is no longer the current one; then every step is a step of DisplayOwner or a stutter |
| `LateDrawsBoundedCorrect` | `LateDrawsBounded` | `LateCounted`: an instance's late drawings and its goroutines between check and drawing are bounded together |
| `SelectionShownCorrect` | `SelectionShown`, when the terminal has one connection | `Selecting`: what the connection still has to do for the selected session, by program point. With two connections the property is false of the model, as two handlers may overtake each other; the run has one as well |
| FramePipeline: `NoLostWakeupCorrect` | `NoLostWakeup` | `WInv`: the token, or a goroutine between unlock and send, by the state of the loop |
| `TypeCorrect` | `TypeOK`, the queue limit included | `Fits`: every rectangle lies in the frame it is about, the snapshot and the queue have the same frame |
| `NoHoleInImageCorrect` | `NoHoleInImage` | `Fits`: a snapshot drawn whole comes with updates that cover it |
| `NothingForgottenCorrect` | `NothingForgotten` | `Remembered`: where the newest content of a cell is (the framebuffer, `latestFrame`, the hand of `frameLoop`), and that a new size is queued as a whole |
| `PlainNewestShown` | `Plain => NewestShown` | `Remembered`: what `pipeline_copy_order` refutes holds without copies |
| PointerForwarding: `WaitingIsNewestCorrect` | `WaitingIsNewest` | inductive with the types of the channel |
| `TypeCorrect`, `WheelExactCorrect` | `TypeOK`, `WheelExact` | `Wheel`: notches counted and presses still to be written make up the notches turned, and a pressed wheel bit is about to be released, so that movements of `pointerLoop` in between neither add nor hide a notch |
| KeyForwarding: `KeysTypeCorrect`, `KeysAgreeCorrect` | `KeysTypeOK`, `KeysAgree` | `KInv`: `Report` says which events of the last report are left and in which order, `Listening` what a server that listens holds down meanwhile: the keys of the report but those whose press is still to come, and those whose release is |
| `ChordKeptCorrect` | the action property `ChordKept` | `KInv`: the modifiers come first when pressing and last when releasing |
| SSHSession: `TypeCorrect`, `ScreenFollowsCorrect` | `TypeOK`, `ScreenFollows` | `IInv`: a row that is not marked was painted as it is (`PictureFollows`), and a painted row was delivered unless it is in a hand (`Delivered`). It rests on a lemma per operation of the terminal, that it marks every row it changes (`Marked`) and returns a terminal whose region and cursor lie in it |
| `SplitIndependentCorrect` | `SplitIndependent` | `Settled`: between writes only the beginning of a rune is held back, in the state in which runes are read. Rounds over one byte more do the same, but for a rune that had only begun, which is held back and read again (`BytewiseIsWrite`) |
| `OutputShownCorrect` | `OutputShown` | `Phases`: from Run's last words on nobody writes or paints, and no row is marked; `HandsHold`: who has rows to deliver is about to do so |
| RFBHandshake: `HandshakeUnderstoodCorrect`, `NeverBothWaitCorrect` | the two properties | `Understanding`: the situations a connection can be in, each fixing where client and server are and what is on the way in both directions; nothing weaker survives a step, as what one reads next decides what the other must have sent |
| HelperStack: `FailureIsRealCorrect` | `FailureIsReal` | `Unprovoked`: an exit that is reported while nothing was cancelled is marked as a fault |
| GeometrySession: `TargetIsCurrentCorrect` | `TargetIsCurrent` | `TestInv`: what is drawn outside the area cleared next is black or a label, and the current size is within that area and positive; then the last of the operations on a pixel |
| ConfigRouting: `TerminalsAreServedCorrect` | `TerminalsAreServed` | `Configured`: a display is connected with a valid configuration and has a usable size. A geometry test that `TooSmallToTest` refuses is the stated exception |
| ScaledFrames: `ClicksCorrect` | `ClickHitsWhatIsShown`, for all sizes | types, and no cell is stale; `ChangedCellsAreDrawn` on both axes, and one lemma each for centred frames and for the clamping of clicks |
| `ChangedCellsAreDrawn` | `mapRectangle` draws every cell that `translateScaledPoint` maps into the changed pixels, along one axis | no invariant: monotonicity of integer division, the ceiling at the upper end |
| ScreenUpdates: `ScreenShowsImageCorrect` | `ScreenShowsImage`, for images and screens of all sizes | `DrawInv`: the screen shows the newest image, and what was shown is an image. That a step keeps it is the theorem's content; see below |
| `DatagramsKeepOrder`, `DatagramsFit` | the datagrams of a batch carry its operations in their order; none is empty or too large unless an operation is | no invariant: induction over the operations that are packed |
| `TilesCover`, `TilesFit` | tiles of any size cover any rectangle; every RGB and two-colour tile fits a datagram | no invariant: quotients in both directions; the height of a tile by its stride, and the least width that `bestTileSize` prefers |

What a recursive function computes is proved by induction in first-order terms: a set of
indices on which the claim fails would have a least element (`UpTo`, from
`WFMin` and the well-foundedness of `<`). That such a function exists at all is proved
the same way, from the functions on shorter intervals. The library's theorems for both
take an operator as a parameter, which the provers cannot instantiate.

The argument for `ScreenShowsImage`:

- The runs of `LineRuns` have every line of the rectangle, and all lines of a run are
  encoded alike (`RunsCover`). The tiles of a run cover it, lie in it (`TilesCover`,
  `TileIsRectangle`) and fit a datagram (`TilesFit`). So each operation `Paints` some
  cells with what the image has there, and together they reach all the cells of the
  rectangle: they `Draw` it (`RunDraws`, `EncodeDraws`).
- Operations that paint the same view may overlap and come in any order; a list of
  such lists draws the union (`DrawsTogether`).
- `SendBatch` refuses none of them and executes them in order, whatever the datagrams
  (`DatagramsKeepOrder`), so a cell that is drawn shows the view, and others stay.
- `ShowImage` draws the visible part of an image over black, which is the view of all
  the cells outside. `ShowImageRegions` draws only what is announced, from a
  snapshot that has the new pixels there: the hull of the changed points, the
  hulls of the changed lines, or the target of a copy contain every point that
  changed (`AnnouncedShows`, `RegionsShow`).
- A copy the terminal makes reads cells of the screen before it writes; source and target
  lie in the visible part, so what it reads is the old image (`CopyShows`).

`NoHoleInImage` and `NothingForgotten` rest on such lemmas about the folds of the frame queue, `WheelExact` on one
about the presses in a list of messages, the theorems about an SSH session on several
about the rounds of a write, and `KeysAgree` on one about the ascending
order of a set of keys.

Assumptions, all of them ASSUMEs that TLC evaluates in the runs: `SeqMod` is positive and even and
`HistorySize < SeqMod \div 2` (65536 and 8192 in the code); limits and bounds are
natural numbers; wheel bits and held buttons are disjoint (`HeldAssumption`); widths
have a largest one, as they have 16 bits in RFB (`WidthAssumption`); ordinary keys
are named by usages from 1 to 255 that are no modifier's, and modifiers by their bits
only (`KeyAssumption`); sizes of screens and frames are positive, and so are those of an SSH terminal, which
`MaxInt` can count (`SizeAssumption`, one in each module); a shell writes bytes of
`Bytes` (`WritesAssumption`) and the letters of Run's own messages are printable
(`LetterAssumption`);
the smallest geometry is positive and no larger than the largest (`TestAssumption`; 64 and
8192); a datagram has a multiple of 4 bytes and at least 40 (`DatagramAssumption`; 1448); the
screen and the images that are shown are not empty, as `ShowImage` refuses others, colours are natural
numbers, and the cursor operation fits a datagram (`DrawAssumption`).

Only model-checked: liveness (`Repaired`, `SupersededEnds`, `ScreenCatchesUp`,
`PositionArrives`, `ReaderFreed`, `CancelledReturns`, `StackStarts`, `RunEnds`,
`TornDown`), which needs ENABLED. Every invariant and every safety property of the
passing runs is a theorem, `SelectionShown` for one connection.

## Not modelled

- Bits inside an operation, the cursor's shape, message text, fonts, the images of
  the built-in screens, how pixels are mixed when a frame is scaled: data that no
  property tells apart.
- `auth/message.go` and `smartcard`: the parsing of a line and of an ATR, without
  state; `cmd/sunrayd`: wiring.
- Of `display/input.go`, how the decoder drops an unchanged pointer report; the
  pacing of packets; the clipping of a framebuffer to the requested view.
- A draw of scaled rectangles samples only their own pixels, so the seams of
  neighbouring updates may differ from a full redraw: the colours are abstracted.
- SSH keys and passwords, host keys, and the keyboard of an SSH session
  (`HandleInput` sends keys as they come).
- The file system (runtime directories) and TCP ports of helpers.
- Two keys of one terminal (an address first, a serial number later).
- 32-bit wrap of `opSeq`: weeks of drawing away; the counter is unbounded.
- Standard output and standard error of a shell are copied by two goroutines into
  one parser; the bytes of a write are what the model's shell writes.
- Delivery failures in the properties about forgotten cells: `frameLoop` drops a
  frame whose delivery failed, and then `NothingForgotten` is false. No document
  promises otherwise, so these properties speak of plain sessions, in which
  deliveries do not fail.

## Plan

In order of importance.

1. Composition of `DisplayChannel` and `FramePipeline`: a redraw asked for by the
   channel is the frame the pipeline delivers, frames larger than the history
   included.
2. `SessionRouting` with two keys; two helper stacks that share the ports.
3. The pointer half of `InputDecoder`, with lost and reordered reports, in front
   of `PointerForwarding`; the keyboard of an SSH session.
4. `ScreenShowsImage` with several announcements in one delivery, copies among them,
   which `FramePipeline` has for a row of cells.

New questions share a run with old ones where the instance allows it: a run is
one `.cfg`, and its invariants and properties are checked together.
