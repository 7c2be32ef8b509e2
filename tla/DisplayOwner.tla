---------------------------- MODULE DisplayOwner ----------------------------
(***************************************************************************)
(* What the server promises about who may draw on one terminal: at any     *)
(* time at most one session instance owns the screen, and an instance that *)
(* has lost it never gets it back.                                         *)
(***************************************************************************)
CONSTANTS
    Instances,    \* session instances
    NoInstance    \* not one of them: nobody owns the screen

VARIABLES owner, retired

Init == owner = NoInstance /\ retired = {}

\* The previous owner, if there is one, is retired for ever.
Retired == IF owner = NoInstance THEN retired ELSE retired \cup {owner}

Acquire(i) ==
    /\ i \notin Retired
    /\ owner' = i
    /\ retired' = Retired

Release ==
    /\ owner # NoInstance
    /\ owner' = NoInstance
    /\ retired' = Retired

Next == Release \/ \E i \in Instances : Acquire(i)

Spec == Init /\ [][Next]_<<owner, retired>>
=============================================================================
