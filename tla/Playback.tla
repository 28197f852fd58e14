------------------------------ MODULE Playback ------------------------------
(***************************************************************************)
(* What a one-source player promises its listener.  It is silent until the *)
(* source is connected.  Once it is told to stop it fetches nothing more   *)
(* from the source; the one frame it may be fetching can still arrive.  It *)
(* leaves only when the device is back to silence, so that a driver that   *)
(* repeats the last frame while it closes repeats silence, and once told   *)
(* to stop it does leave.  Before that it may break off at any moment.     *)
(***************************************************************************)
VARIABLES
    life,    \* "starting", "playing", "stopping" or "over"
    late,    \* a frame is being fetched from the source
    heard    \* the last frame handed to the device

vars == <<life, late, heard>>

Init == life = "starting" /\ late = FALSE /\ heard = "silence"

Start == life = "starting" /\ life' = "playing" /\ UNCHANGED <<late, heard>>

Fetch == life = "playing" /\ ~late /\ late' = TRUE /\ UNCHANGED <<life, heard>>

Arrive ==
    /\ life # "over" /\ late
    /\ late' = FALSE
    /\ heard' = "tone"
    /\ UNCHANGED life

Hush ==
    /\ life # "over" /\ ~late
    /\ heard' = "silence"
    /\ UNCHANGED <<life, late>>

Stop == life = "playing" /\ life' = "stopping" /\ UNCHANGED <<late, heard>>

Leave ==
    /\ life = "stopping" /\ ~late /\ heard = "silence"
    /\ life' = "over"
    /\ UNCHANGED <<late, heard>>

BreakOff ==
    /\ life \in {"starting", "playing"}
    /\ life' = "over"
    /\ UNCHANGED <<late, heard>>

Next == Start \/ Fetch \/ Arrive \/ Hush \/ Stop \/ Leave \/ BreakOff

(* Once stopping, it keeps going until it is over. *)
Spec == Init /\ [][Next]_vars /\ WF_vars(life = "stopping" /\ Next)
=============================================================================
