----------------------------- MODULE SoundPort -----------------------------
(***************************************************************************)
(* A PJMEDIA sound port in player mode, as the demo programs use it.  The  *)
(* device runs a thread of its own.  Its callback first reads which port   *)
(* is connected and then asks that port for a frame, with no lock between  *)
(* the two: the main thread may disconnect the port in the middle.         *)
(* Destroying the sound port stops the device and waits for the callback.  *)
(*                                                                         *)
(* Time is counted in frames: a sleep of 100 ms is a wait for at least     *)
(* SleepFrames callbacks to end (100 ms hold five frames of 20 ms).        *)
(***************************************************************************)
EXTENDS Integers

CONSTANT SleepFrames
ASSUME SleepFramesAssumption == SleepFrames \in Nat /\ SleepFrames >= 2

VARIABLES
    dev,     \* "closed", "running" or "stopping"
    conn,    \* a port is connected to the sound port
    cb,      \* the callback: "idle", or fetching from the "port", or "none"
    heard,   \* the last frame handed to the device: "silence" or "tone"
    ticks    \* callbacks ended since the main thread fell asleep, capped

sndVars == <<dev, conn, cb, heard, ticks>>

SndInit ==
    /\ dev = "closed" /\ conn = FALSE /\ cb = "idle"
    /\ heard = "silence" /\ ticks = 0

SndTypeOK ==
    /\ dev \in {"closed", "running", "stopping"}
    /\ conn \in BOOLEAN
    /\ cb \in {"idle", "port", "none"}
    /\ heard \in {"silence", "tone"}
    /\ ticks \in 0..SleepFrames

(* The device thread. *)
CbLoad ==
    /\ dev = "running" /\ cb = "idle"
    /\ cb' = IF conn THEN "port" ELSE "none"
    /\ UNCHANGED <<dev, conn, heard, ticks>>

CbEnds(frame) ==
    /\ cb # "idle"
    /\ cb' = "idle"
    /\ heard' = frame
    /\ ticks' = IF ticks < SleepFrames THEN ticks + 1 ELSE ticks
    /\ UNCHANGED <<dev, conn>>

CbFrame == CbEnds(IF cb = "port" THEN "tone" ELSE "silence")

(* The port has no frame to give: the device is handed silence. *)
CbRefused == cb = "port" /\ CbEnds("silence")

(* The calls of the main thread. *)
SndOpen == dev' = "running" /\ UNCHANGED <<conn, cb, heard, ticks>>

SndConnect == conn' = TRUE /\ UNCHANGED <<dev, cb, heard, ticks>>

SndDisconnect == conn' = FALSE /\ UNCHANGED <<dev, cb, heard, ticks>>

SndStop == dev' = "stopping" /\ UNCHANGED <<conn, cb, heard, ticks>>

SndClose ==
    /\ dev = "stopping" /\ cb = "idle"
    /\ dev' = "closed"
    /\ UNCHANGED <<conn, cb, heard, ticks>>

FallAsleep == ticks' = 0 /\ UNCHANGED <<dev, conn, cb, heard>>

SleptEnough == ticks = SleepFrames
=============================================================================
