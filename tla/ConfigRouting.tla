--------------------------- MODULE ConfigRouting ---------------------------
(***************************************************************************)
(* The configuration (internal/config/config.go): what Validate accepts,   *)
(* which session Resolve selects for a terminal and a card, and what the   *)
(* start functions of internal/server/server.go then need of it.  Resolve  *)
(* matches keys exactly and then without regard to case; among several     *)
(* keys that differ in case only, Go's iteration of the map decides, so    *)
(* that a lookup has a set of possible results.                            *)
(*                                                                         *)
(* Abstracted: the YAML, paths and addresses; a text that Validate checks  *)
(* for its form is well formed or not.                                     *)
(***************************************************************************)
EXTENDS Integers, FiniteSets, TLC

CONSTANTS
    Serials,  \* of terminals, as the configuration and the terminals write them
    CardIDs,
    Fold,     \* the same text in lower case
    Configs,  \* configurations, valid or not, as they are read
    Resolutions \* sizes a terminal reports, <<0, 0>> when it reports none

Unset == ""   \* an option that is left out

VARIABLES
    config,   \* the configuration that was loaded
    display   \* the geometry of the display that is connected

configVars == <<config, display>>

NoConfig  == [loaded |-> FALSE]
NoDisplay == [reported |-> <<0, 0>>, size |-> <<0, 0>>]

-----------------------------------------------------------------------------
(* Validation *)

Graphical == {"vnc", "rdp", "web"}
Known     == Graphical \cup {"card-test", "geometry-test", "ssh"}

\* A width and a height that a display can have.
Sides == 1..8192

Usable(size) == size[1] \in Sides /\ size[2] \in Sides

AtLeast(n, size) == size[1] >= n /\ size[2] >= n

\* applyDefaults: the resolution mode of a graphical session.
Defaulted(session) ==
    IF session.type \in Graphical /\ session.mode = Unset
    THEN [session EXCEPT !.mode = "current"] ELSE session

\* Display width and height belong to the manual mode, and only to it.
ValidMode(session) ==
    IF session.mode = "manual" THEN Usable(session.size)
    ELSE /\ session.mode \in {"current", "terminal"}
                               \cup (IF session.type = "vnc" THEN {"vnc"} ELSE {})
         /\ session.size = <<0, 0>>

ValidSecrets(session) == ~({"password", "password_file"} \subseteq session.secrets)

\* Validate, of one session.
ValidSession(session) ==
    /\ session.type \in Known
    /\ session.type \in Graphical => ValidMode(session)
    /\ session.type \in Graphical \cup {"ssh"} => session.wellFormed
    /\ session.type \in {"vnc", "ssh", "rdp"} => ValidSecrets(session)
    /\ session.type = "ssh" =>
          Cardinality(session.hostKeys) = 1 /\ session.secrets # {}
    /\ session.type = "rdp" => session.secrets \cap {"password", "password_file"} # {}

\* validateRoute.
ValidRoute(c, route) ==
    /\ {route.noCard, route.cardPresent} \subseteq DOMAIN c.sessions \cup {Unset}
    /\ \A id \in DOMAIN route.cards : route.cards[id] \in DOMAIN c.sessions

\* Validate.
Valid(c) ==
    /\ Usable(c.fallback)
    /\ c.override = <<0, 0>> \/ Usable(c.override)
    /\ DOMAIN c.sessions # {}
    /\ \A name \in DOMAIN c.sessions : ValidSession(c.sessions[name])
    /\ ValidRoute(c, c.default)
    /\ \A serial \in DOMAIN c.terminals : ValidRoute(c, c.terminals[serial])
    /\ c.default.noCard # Unset /\ c.default.cardPresent # Unset

\* applyDefaults: a fallback width or height that is left out.
FallbackOf(size) ==
    <<IF size[1] = 0 THEN 1280 ELSE size[1], IF size[2] = 0 THEN 1024 ELSE size[2]>>

\* applyDefaults, of the whole.
WithDefaults(c) ==
    [loaded |-> TRUE,
     sessions |-> [name \in DOMAIN c.sessions |-> Defaulted(c.sessions[name])],
     default |-> c.default, terminals |-> c.terminals,
     fallback |-> FallbackOf(c.fallback), override |-> c.override]

-----------------------------------------------------------------------------
(* Routing *)

\* lookupFold and lookupRoute: the values a lookup may return.
Lookup(values, key) ==
    IF key \in DOMAIN values THEN {values[key]}
    ELSE {values[k] : k \in {k \in DOMAIN values : Fold[k] = Fold[key]}}

NoRoute == [noCard |-> Unset, cardPresent |-> Unset, cards |-> <<>>]

\* The terminal's state decides before the card does.
ResolveStateFirst(c, serial, card, present) ==
    LET routes == Lookup(c.terminals, serial)
        terminals == IF routes = {} THEN {NoRoute} ELSE routes
        Of(terminal) ==
            IF ~present THEN {IF terminal.noCard # Unset THEN terminal.noCard ELSE c.default.noCard}
            ELSE IF terminal.cardPresent # Unset THEN {terminal.cardPresent}
            ELSE IF Lookup(terminal.cards, card) # {} THEN Lookup(terminal.cards, card)
            ELSE IF Lookup(c.default.cards, card) # {} THEN Lookup(c.default.cards, card)
            ELSE {c.default.cardPresent}
    IN  UNION {Of(t) : t \in terminals}

\* Resolve.
Resolve(c, serial, card, present) ==
    LET routes == Lookup(c.terminals, serial)
        terminals == IF routes = {} THEN {NoRoute} ELSE routes
        Of(terminal) ==
            IF ~present THEN {IF terminal.noCard # Unset THEN terminal.noCard ELSE c.default.noCard}
            ELSE IF Lookup(terminal.cards, card) # {} THEN Lookup(terminal.cards, card)
            ELSE IF Lookup(c.default.cards, card) # {} THEN Lookup(c.default.cards, card)
            ELSE {IF terminal.cardPresent # Unset THEN terminal.cardPresent
                  ELSE c.default.cardPresent}
    IN  UNION {Of(t) : t \in terminals}

-----------------------------------------------------------------------------
(* A display and its sessions *)

\* parseResolution and startDisplay.
Connect(report) ==
    /\ config.loaded
    /\ LET reported == IF Usable(report) THEN report ELSE config.fallback
       IN  display' = [reported |-> reported,
                       size |-> IF Usable(config.override) THEN config.override ELSE reported]
    /\ UNCHANGED config

\* Load, the flags of the command line, and Validate once more.
Load(c) ==
    /\ Valid(WithDefaults(c))
    /\ config' = WithDefaults(c)
    /\ UNCHANGED display

\* vncDisplayGeometry, rdpDisplayGeometry, webDisplayGeometry; the other
\* sessions have the size of the display.
Geometry(session) ==
    IF session.type \notin Graphical THEN display.size
    ELSE CASE session.mode = "terminal" -> display.reported
           [] session.mode = "vnc" /\ session.type = "vnc" -> <<0, 0>>
           [] session.mode = "manual" -> session.size
           [] OTHER -> display.size

MinimumGeometry == 64   \* minimumGeometry of the geometry test

\* What runSession, connect of the SSH session and Run of the others refuse of
\* a configuration: an unknown type, a display that is too small, an ssh session
\* without a secret or a host key.  What they refuse because a file, a font or
\* a program is missing is left out.
Startable(session) ==
    /\ session.type \in Known
    /\ \/ AtLeast(IF session.type = "geometry-test" THEN MinimumGeometry ELSE 1, Geometry(session))
       \/ session.type = "vnc" /\ session.mode = "vnc"
    /\ session.type = "ssh" => session.secrets # {} /\ session.hostKeys # {}

ConfigInit == config = NoConfig /\ display = NoDisplay

ConfigNext ==
    \/ ~config.loaded /\ \E c \in Configs : Load(c)
    \/ display = NoDisplay /\ \E report \in Resolutions : Connect(report)

ConfigSpec == ConfigInit /\ [][ConfigNext]_configVars

-----------------------------------------------------------------------------
(* Properties *)

\* Distinct keys stay distinct when their case is ignored.
Unambiguous(values) ==
    \A k, l \in DOMAIN values : Fold[k] = Fold[l] => k = l

Matching(values, key) == {values[k] : k \in {k \in DOMAIN values : Fold[k] = Fold[key]}}

\* The candidates for a terminal, in the order of the documented precedence:
\* "terminal-specific card ID, global card ID, terminal state, then global
\* state" (src/internal/config/config.go).
Candidates(serial, card, present) ==
    LET routes   == Matching(config.terminals, serial)
        State(r) == (IF present THEN {r.cardPresent} ELSE {r.noCard}) \ {Unset}
    IN  <<IF present THEN UNION {Matching(r.cards, card) : r \in routes} ELSE {},
          IF present THEN Matching(config.default.cards, card) ELSE {},
          UNION {State(r) : r \in routes},
          State(config.default)>>

\* Run of the geometry test refuses the display.
TooSmallToTest(session) ==
    session.type = "geometry-test" /\ ~AtLeast(MinimumGeometry, display.size)

\* Every terminal is served: with a loaded configuration whose keys differ in
\* more than their case, any terminal with any card or none, written in any
\* case, is routed to one session, the first candidate of the documented
\* precedence; the session is defined, and the configuration and the display
\* give it what it needs to start.  One session is excepted: Validate and
\* parseResolution let displays through that are smaller than the geometry test
\* takes, and on those it ends with an error.
TerminalsAreServed ==
    display # NoDisplay =>
        /\ \A name \in DOMAIN config.sessions :
              Startable(config.sessions[name]) \/ TooSmallToTest(config.sessions[name])
        /\ \A serial \in Serials, card \in CardIDs, present \in BOOLEAN :
              LET candidates == Candidates(serial, card, present)
                  first == CHOOSE i \in 1..4 :
                              candidates[i] # {} /\ \A j \in 1..i - 1 : candidates[j] = {}
                  results == Resolve(config, serial, card, present)
              IN  /\ results # {} /\ results \subseteq DOMAIN config.sessions
                  /\ (/\ Unambiguous(config.terminals)
                      /\ Unambiguous(config.default.cards)
                      /\ \A t \in DOMAIN config.terminals : Unambiguous(config.terminals[t].cards))
                        => results = candidates[first]
=============================================================================
