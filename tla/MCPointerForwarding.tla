------------------------ MODULE MCPointerForwarding ------------------------
(* One button, the wheel turned one way or both, and a wheel field past the cap. *)
EXTENDS PointerForwarding

MCWheels == {{}, {"up"}, {"up", "down"}}
MCDeltas == {-3, 0, 1}
=============================================================================
