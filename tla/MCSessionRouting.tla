-------------------------- MODULE MCSessionRouting --------------------------
(***************************************************************************)
(* Instances of SessionRouting for TLC: a card-test, an interactive and a  *)
(* view-only graphical session, and an ssh session.                        *)
(***************************************************************************)
EXTENDS SessionRouting

CONSTANTS c1, c2, card, vnc, viewonly, shell

KindOfSession ==
    [s \in Sessions |-> CASE s = card -> "card-test" [] s = vnc -> "vnc"
                          [] s = shell -> "ssh" [] OTHER -> "helper"]

InteractiveSession == [s \in Sessions |-> s # viewonly]
=============================================================================
