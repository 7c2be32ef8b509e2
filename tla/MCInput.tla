------------------------------ MODULE MCInput ------------------------------
(***************************************************************************)
(* The two ways of input to an RFB server, in one run: a behaviour chooses *)
(* the pointer or the keyboard and takes steps of that one only.           *)
(***************************************************************************)
EXTENDS PointerForwarding, KeyForwarding

VARIABLE way   \* "pointer" or "keyboard"

\* One button, the wheel turned one way or both, and a wheel field past the cap.
MCWheels == {{}, {"up"}, {"up", "down"}}
MCDeltas == {-3, 0, 1}

\* The letter a, the menu key, which has no symbol, and Shift.
MCOrdinary  == {\h04, \h65}
MCModifiers == {\hE1}

-----------------------------------------------------------------------------
InputVars == <<way, vars, keysVars>>

InputInit == way \in {"pointer", "keyboard"} /\ Init /\ KeysInit

InputNext ==
    \/ way = "pointer" /\ Next /\ UNCHANGED <<way, keysVars>>
    \/ way = "keyboard" /\ KeysNext /\ UNCHANGED <<way, vars>>

\* Both are fair: where nothing has come in, as on the way that is not taken,
\* no fair step is enabled.
InputSpec == InputInit /\ [][InputNext]_InputVars /\ Fairness /\ KeysFairness
=============================================================================
