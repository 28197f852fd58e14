------------------------------ MODULE Routing ------------------------------
(***************************************************************************)
(* What a conference bridge promises its user: a patch board.  Ports are   *)
(* plugged in one at a time, each into a place of its own; one command     *)
(* makes or breaks one connection between two places that are in use; and  *)
(* nothing else ever changes until the board is shut down for good.        *)
(***************************************************************************)
VARIABLES
    up,       \* "new", "up" or "down"
    ports,    \* the places in use
    routes    \* the connections, as pairs <<source, destination>>

vars == <<up, ports, routes>>

CONSTANT Places

Init == up = "new" /\ ports = {} /\ routes = {}

Open ==
    /\ up = "new" /\ up' = "up"
    /\ \E p \in Places : ports' = {p}
    /\ UNCHANGED routes

Plug ==
    /\ up = "up"
    /\ \E p \in Places \ ports : ports' = ports \cup {p}
    /\ UNCHANGED <<up, routes>>

Connect ==
    /\ up = "up"
    /\ \E p, q \in ports : routes' = routes \cup {<<p, q>>}
    /\ UNCHANGED <<up, ports>>

Disconnect ==
    /\ up = "up"
    /\ \E p, q \in ports : routes' = routes \ {<<p, q>>}
    /\ UNCHANGED <<up, ports>>

Shut ==
    /\ up = "up" /\ up' = "down"
    /\ ports' = {} /\ routes' = {}

Next == Open \/ Plug \/ Connect \/ Disconnect \/ Shut

Spec == Init /\ [][Next]_vars
=============================================================================
