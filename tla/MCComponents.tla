---------------------------- MODULE MCComponents ----------------------------
(***************************************************************************)
(* The components that do not interact in the models, in one run: a        *)
(* behaviour chooses one of them and takes steps of that one only.         *)
(***************************************************************************)
EXTENDS HelperStack, ScreenUpdates, ScaledFrames, RFBHandshake, GeometrySession, ConfigRouting

VARIABLE part   \* the component of this behaviour

-----------------------------------------------------------------------------
\* A display that does not start never keeps Run.
StackStarts == part = "helpers" => StartsOrReturns

-----------------------------------------------------------------------------
(* GeometrySession: a label that does not fit the smallest targets. *)

MCInitial == Size(4, 4)
MCLabel   == Size(4, 1)

-----------------------------------------------------------------------------
(* RFBHandshake: every version the protocol has, and Apple's 3.889. *)

MCMinors == {3, 5, 7, 8, 889}

-----------------------------------------------------------------------------
(* ScreenUpdates: datagrams of 40 bytes, so that lines of 3 colours and    *)
(* runs of 5 lines of 2 colours need tiles; images smaller than the        *)
(* screen, wider (and sent in strips), and taller.                         *)

MCScreenSize == Point(4, 5)

Picture(w, lines) ==
    [w |-> w, h |-> Len(lines), at |->
        [p \in (0..w - 1) \X (0..Len(lines) - 1) |-> lines[p[2] + 1][p[1] + 1]]]

MCImages ==
    {Picture(3, l) : l \in [1..3 -> {<<1, 1, 1>>, <<1, 2, 1>>, <<3, 1, 1>>, <<2, 3, 1>>}]}
    \cup {Picture(6, l) : l \in
            [1..2 -> {<<1, 2, 3, 1, 2, 3>>, <<3, 2, 1, 1, 2, 1>>, <<1, 2, 2, 2, 3, 3>>}]}
    \cup {Picture(2, [i \in 1..6 |-> IF i <= n THEN a ELSE b]) :
            n \in 0..6, a, b \in {<<1, 2>>, <<2, 1>>, <<3, 1>>}}

-----------------------------------------------------------------------------
(* ScaledFrames: frames enlarged and reduced by every ratio of these sizes. *)

MCScreens    == [w : 1..6, h : {3, 5}]
MCFrameSizes == [w : 1..7, h : {2, 4}]

-----------------------------------------------------------------------------
(* ConfigRouting: sessions of every kind, right and wrong, with one plain  *)
(* route, and routes with keys that differ in case only; displays around   *)
(* the smallest one of the geometry test, and a fallback left out or wrong.*)

MCSerials == {"t", "T", "u"}
MCCardIDs == {"c", "C", "d"}
MCFold    == [k \in MCSerials \cup MCCardIDs |->
                 CASE k = "T" -> "t" [] k = "C" -> "c" [] OTHER -> k]

Test(type) == [type |-> type, mode |-> "", size |-> <<0, 0>>, secrets |-> {},
               hostKeys |-> {}, wellFormed |-> TRUE]

Variants ==
    [type : {"vnc", "web", "ssh", "rdp", "other"},
     mode : {"", "terminal", "vnc", "manual", "other"},
     size : {<<0, 0>>, <<0, 9>>, <<9, 9>>},
     secrets : SUBSET {"password", "password_file", "private_key_file"},
     hostKeys : {{}, {"known_hosts_file"}, {"known_hosts_file", "host_key_sha256"}},
     wellFormed : BOOLEAN]

Tests  == ("a" :> Test("card-test")) @@ ("b" :> Test("geometry-test"))
Cards  == {<<>>} \cup [{"c"} -> {"a", "b"}] \cup [{"c", "C"} -> {"a", "b"}]
Routes == [noCard : {"", "a"}, cardPresent : {"", "b", "undefined"}, cards : Cards]
Plain  == [noCard |-> "a", cardPresent |-> "a", cards |-> <<>>]

Configuration(sessions, default, terminals, fallback, override) ==
    [sessions |-> sessions, default |-> default, terminals |-> terminals,
     fallback |-> fallback, override |-> override]

MCConfigs ==
    {Configuration(Tests @@ ("s" :> v), Plain, <<>>, <<64, 64>>, o) :
        v \in Variants, o \in {<<0, 0>>, <<63, 80>>}}
    \cup {Configuration(Tests, d, t, <<64, 64>>, <<0, 0>>) :
        d \in {r \in Routes : r.noCard = "a" /\ r.cardPresent # ""},
        t \in {<<>>} \cup [{"t"} -> Routes]}
    \cup {Configuration(Tests, Plain, t, f, <<0, 0>>) :
        f \in {<<0, 8>>, <<80, 0>>, <<0, 9000>>, <<64, 64>>},
        t \in [{"t", "T"} -> {r \in Routes : DOMAIN r.cards = {}}]}

MCResolutions == {<<0, 0>>, <<64, 100>>, <<100, 63>>}

-----------------------------------------------------------------------------
Parts == {"helpers", "geometry", "rfb", "screen", "scaled", "config"}

AllVars == <<part, vars, testVars, rfbVars, drawVars, scaleVars, configVars>>

\* A step of component p leaves the variables of the others alone.
Alone(p) ==
    /\ part = p
    /\ UNCHANGED part
    /\ p # "helpers"  => UNCHANGED vars
    /\ p # "geometry" => UNCHANGED testVars
    /\ p # "rfb"      => UNCHANGED rfbVars
    /\ p # "screen"   => UNCHANGED drawVars
    /\ p # "scaled"   => UNCHANGED scaleVars
    /\ p # "config"   => UNCHANGED configVars

ComponentsInit ==
    /\ part \in Parts
    /\ Init
    /\ TestInit
    /\ RFBInit
    /\ DrawInit
    /\ ScaleInit
    /\ ConfigInit

ComponentsNext ==
    \/ Alone("helpers") /\ Next
    \/ Alone("geometry") /\ TestNext
    \/ Alone("rfb") /\ RFBNext
    \/ Alone("screen") /\ DrawNext
    \/ Alone("scaled") /\ ScaleNext
    \/ Alone("config") /\ ConfigNext

\* Only the helpers have fairness, where they are the ones that run.
ComponentsSpec ==
    /\ ComponentsInit /\ [][ComponentsNext]_AllVars
    /\ part = "helpers" => Fairness
=============================================================================
