---------------------------- MODULE RFBHandshake ----------------------------
(***************************************************************************)
(* One connection of a VNC session to an RFB server from the first byte:   *)
(* handshake, negotiateSecurity and serve of internal/vnc/protocol.go      *)
(* against a server that follows the protocol (RFC 6143) in one of its     *)
(* versions.  A message is known by its kind, which stands for its length  *)
(* and layout: whoever reads a message as another kind is lost, and        *)
(* whoever reads one that is not sent waits for ever.                      *)
(*                                                                         *)
(* Abstracted: sizes, names, formats and pixels, and the messages of       *)
(* HandleInput (KeyForwarding, PointerForwarding).                         *)
(***************************************************************************)
EXTENDS Integers, Sequences

CONSTANTS
    Minors,       \* minor versions of the server
    MaxMessages   \* bound: messages the server sends while serving

None == "none"   \* security types
VNC  == "vnc"
Types == {None, VNC, "other"}

VARIABLES
    toClient, toServer,  \* the connection
    closed,              \* the server closed it
    client,              \* what Dial and serve wait for
    minor,               \* selectedMinor
    password,            \* the session has a password for the server
    server,              \* the server: where it is, its version and its security
    wanted,              \* the server has an unanswered update request
    sent                 \* messages the server sent while serving

rfbVars == <<toClient, toServer, closed, client, minor, password, server, wanted, sent>>

NoServer == [at |-> "down", minor |-> 0, types |-> {}, accepts |-> FALSE]

Message(kind, value) == [kind |-> kind, value |-> value]

-----------------------------------------------------------------------------
(* The client *)

\* What the client reads next, by where it is.
Expected ==
    [version   |-> {"version"},
     security3 |-> {"security3"},
     types     |-> {"types"},
     challenge |-> {"challenge"},
     result    |-> {"result"},
     reason    |-> {"reason"},
     init      |-> {"init"},
     serving   |-> {"update", "colours", "bell", "cut text"}]

Reading == DOMAIN Expected

\* The version the client answers with.
SelectedMinor(m) == IF m < 7 THEN 3 ELSE IF m < 8 THEN 7 ELSE 8

\* chooseSecurity: with a password VNC authentication if it is offered.
ChooseSecurity(types, hasPassword) ==
    IF hasPassword /\ VNC \in types THEN VNC
    ELSE IF None \in types THEN None ELSE "unsupported"

\* After the security type, per version.
ResultSince8(security, m) == m >= 8
ResultAlways(security, m) == TRUE
ReadsResult(security, m)  == security = VNC \/ m >= 8

\* readSecurityResult: a reason follows a refusal since 3.8.
ReadsReason(m) == m >= 8

ClientInit == Message("client init", "shared")
Update     == Message("request", "incremental")

\* ServerInit is answered with the format, the encodings and a first request.
Setup == <<Message("format", "rgb"), Message("encodings", "all"), Message("request", "full")>>

\* The client reads m, writes the messages out and goes on.
Reads(at, kind) ==
    /\ client = at /\ toClient # <<>>
    /\ Head(toClient).kind = kind
    /\ toClient' = Tail(toClient)
    /\ UNCHANGED <<closed, password, server, wanted, sent>>

Answers(out, at) == toServer' = toServer \o out /\ client' = at

\* What the client does when it has chosen a security type.
Secured(security, m, out) ==
    CASE security = VNC /\ password -> Answers(out, "challenge")
      [] security = None /\ ReadsResult(None, m) -> Answers(out, "result")
      [] security = None /\ ~ReadsResult(None, m) -> Answers(Append(out, ClientInit), "init")
      [] OTHER -> Answers(out, "failed")

ReadVersion ==
    /\ Reads("version", "version")
    /\ minor' = SelectedMinor(Head(toClient).value)
    /\ Answers(<<Message("version", minor')>>, IF minor' = 3 THEN "security3" ELSE "types")

\* Version 3.3: the server decides; a zero is followed by a reason.
ReadSecurity3 ==
    /\ Reads("security3", "security3")
    /\ LET security == Head(toClient).value
       IN  IF security = "refused" THEN Answers(<<>>, "reason")
           ELSE Secured(security, minor, <<>>)
    /\ UNCHANGED minor

ReadTypes ==
    /\ Reads("types", "types")
    /\ LET types    == Head(toClient).value
           security == ChooseSecurity(types, password)
       IN  IF types = {} THEN Answers(<<>>, "reason")
           ELSE IF security = "unsupported" THEN Answers(<<>>, "failed")
           ELSE Secured(security, minor, <<Message("security", security)>>)
    /\ UNCHANGED minor

ReadChallenge ==
    /\ Reads("challenge", "challenge")
    /\ IF ReadsResult(VNC, minor)
       THEN Answers(<<Message("response", "des")>>, "result")
       ELSE Answers(<<Message("response", "des"), ClientInit>>, "init")
    /\ UNCHANGED minor

ReadResult ==
    /\ Reads("result", "result")
    /\ IF Head(toClient).value = "ok" THEN Answers(<<ClientInit>>, "init")
       ELSE Answers(<<>>, IF ReadsReason(minor) THEN "reason" ELSE "failed")
    /\ UNCHANGED minor

ReadReason ==
    /\ Reads("reason", "reason")
    /\ Answers(<<>>, "failed")
    /\ UNCHANGED minor

ReadInit ==
    /\ Reads("init", "init")
    /\ Answers(Setup, "serving")
    /\ UNCHANGED minor

\* serve: every update is followed by the next request, whatever it changed.
RequestsAfter(kind) == IF kind = "update" THEN <<Update>> ELSE <<>>

Serve ==
    /\ \E kind \in Expected.serving :
          Reads("serving", kind) /\ Answers(RequestsAfter(kind), "serving")
    /\ UNCHANGED minor

\* A message of another kind, or the end of the connection, is an error; the
\* caller closes and dials again.  A password that is not set is no answer.
ClientFails ==
    /\ client \in Reading
    /\ \/ toClient = <<>> /\ closed
       \/ toClient # <<>> /\ Head(toClient).kind \notin Expected[client]
    /\ client' = "failed"
    /\ UNCHANGED <<toClient, toServer, closed, minor, password, server, wanted, sent>>

-----------------------------------------------------------------------------
(* The server (external) *)

ServerGoes(at, out) ==
    /\ server' = [server EXCEPT !.at = at]
    /\ toClient' = toClient \o out
    /\ UNCHANGED <<client, minor, password, sent>>

\* Dial reached a server of some version; it speaks first.
Dial ==
    /\ server.at = "down"
    /\ password' \in BOOLEAN
    /\ \E m \in Minors, types \in SUBSET Types, accepts \in BOOLEAN :
          server' = [at |-> "version", minor |-> m, types |-> types, accepts |-> accepts]
    /\ toClient' = <<Message("version", server'.minor)>>
    /\ UNCHANGED <<toServer, closed, client, minor, wanted, sent>>

ServerReads(at, kind) ==
    /\ server.at = at /\ toServer # <<>> /\ ~closed
    /\ Head(toServer).kind = kind
    /\ toServer' = Tail(toServer)

Refuses(out) == ServerGoes("closed", out) /\ closed' = TRUE /\ UNCHANGED wanted
Continues(at, out) == ServerGoes(at, out) /\ UNCHANGED <<closed, wanted>>

Reason == <<Message("reason", "text")>>

\* The version the client chose decides what the server does from here.
ServerReadsVersion ==
    /\ ServerReads("version", "version")
    /\ LET m == Head(toServer).value
       IN
       /\ server' = [server EXCEPT !.minor = m, !.at =
                        IF server.types = {} THEN "closed"
                        ELSE IF m >= 7 THEN "security"
                        ELSE IF VNC \in server.types THEN "response" ELSE "shared"]
       /\ toClient' = toClient \o
             (IF m >= 7
              THEN <<Message("types", server.types)>>
                      \o (IF server.types = {} THEN Reason ELSE <<>>)
              ELSE IF server.types = {} THEN <<Message("security3", "refused")>> \o Reason
              ELSE IF VNC \in server.types
              THEN <<Message("security3", VNC), Message("challenge", "16")>>
              ELSE <<Message("security3", IF None \in server.types THEN None ELSE "other")>>)
       /\ closed' = (server.types = {})
    /\ UNCHANGED <<client, minor, password, wanted, sent>>

ServerReadsSecurity ==
    /\ ServerReads("security", "security")
    /\ LET security == Head(toServer).value
       IN  IF security = VNC THEN Continues("response", <<Message("challenge", "16")>>)
           ELSE Continues("shared",
                          IF server.minor >= 8 THEN <<Message("result", "ok")>> ELSE <<>>)

ServerReadsResponse ==
    /\ ServerReads("response", "response")
    /\ IF server.accepts THEN Continues("shared", <<Message("result", "ok")>>)
       ELSE Refuses(<<Message("result", "wrong")>>
                       \o (IF server.minor >= 8 THEN Reason ELSE <<>>))

ServerReadsClientInit ==
    /\ ServerReads("shared", "client init")
    /\ Continues("serving", <<Message("init", "size")>>)

\* Requests are not counted: an update answers all of them.
ServerReadsRequest ==
    /\ \E kind \in {"format", "encodings", "request"} :
          ServerReads("serving", kind) /\ wanted' = (wanted \/ kind = "request")
    /\ UNCHANGED <<closed, toClient, client, minor, password, server, sent>>

\* An update needs a request, the other messages do not.
ServerSends ==
    /\ server.at = "serving" /\ ~closed
    /\ sent < MaxMessages
    /\ sent' = sent + 1
    /\ \E kind \in Expected.serving :
          /\ kind = "update" => wanted
          /\ wanted' = (wanted /\ kind # "update")
          /\ toClient' = Append(toClient, Message(kind, "any"))
    /\ UNCHANGED <<toServer, closed, client, minor, password, server>>

ServerCloses ==
    /\ server.at # "down" /\ ~closed
    /\ closed' = TRUE
    /\ UNCHANGED <<toClient, toServer, client, minor, password, server, wanted, sent>>

-----------------------------------------------------------------------------
RFBInit ==
    /\ toClient = <<>> /\ toServer = <<>> /\ closed = FALSE
    /\ client = "version" /\ minor = 0 /\ password = FALSE
    /\ server = NoServer
    /\ wanted = FALSE /\ sent = 0

Client == ReadVersion \/ ReadSecurity3 \/ ReadTypes \/ ReadChallenge \/ ReadResult
             \/ ReadReason \/ ReadInit \/ Serve \/ ClientFails

Server == Dial \/ ServerReadsVersion \/ ServerReadsSecurity \/ ServerReadsResponse
             \/ ServerReadsClientInit \/ ServerReadsRequest \/ ServerSends \/ ServerCloses

RFBNext == Client \/ Server

RFBSpec == RFBInit /\ [][RFBNext]_rfbVars

-----------------------------------------------------------------------------
(* Properties *)

\* What the server reads next, by where it is.
ServerExpected ==
    [version |-> {"version"}, security |-> {"security"}, response |-> {"response"},
     shared |-> {"client init"}, serving |-> {"format", "encodings", "request"}]

\* Client and server understand each other in every version, with every offer
\* of security types, with and without a password: the next message on the
\* way is always of a kind its reader expects there.
HandshakeUnderstood ==
    /\ client \in Reading /\ toClient # <<>> => Head(toClient).kind \in Expected[client]
    /\ server.at \in DOMAIN ServerExpected /\ toServer # <<>> /\ ~closed
          => Head(toServer).kind \in ServerExpected[server.at]

\* Client and server never wait for each other ("RFB 3.7 proceeds directly to
\* ClientInit, so reading a result there would deadlock",
\* src/internal/vnc/protocol.go): when the client waits and nothing is on
\* its way in either direction, it is the server's turn, and while serving
\* that is because it has an update request.
NeverBothWait ==
    client \in Reading /\ toClient = <<>> /\ toServer = <<>> /\ ~closed
        => server.at = "down" \/ (server.at = "serving" /\ wanted)
=============================================================================
