------------------------------ MODULE PlaySine ------------------------------
(***************************************************************************)
(* main() of custome-media-port.c ("playsine"): it builds the PJLIB layers *)
(* one on another, opens a sound device, connects the sine generator to    *)
(* it, waits for ENTER, and takes everything down in the opposite order.   *)
(* The device's thread calls the generator all the while.                  *)
(*                                                                         *)
(* `pc' is the call main() is about to make.  PJ_ASSERT_RETURN is its      *)
(* release form: a return.  When main() has returned, the process is gone. *)
(***************************************************************************)
EXTENDS SoundPort

CONSTANT Argcs   \* the numbers of arguments, argv[0] included
ASSUME ArgcsAssumption == Argcs \subseteq Nat

VARIABLES
    argc,
    pc,
    alive,   \* the layers that exist
    played   \* the generator has been heard

vars == <<argc, pc, alive, played, sndVars>>

Layers == {"pjlib", "cp", "endpt", "pool", "port", "snd"}

(* What each layer is built on: it may not outlive it. *)
Needs(r) ==
    CASE r = "pjlib" -> {}
      [] r = "cp"    -> {"pjlib"}
      [] r = "endpt" -> {"cp"}
      [] r = "pool"  -> {"cp"}
      [] r = "port"  -> {"pool"}
      [] r = "snd"   -> {"pool", "endpt"}

Init ==
    /\ argc \in Argcs
    /\ pc = "atoi"
    /\ alive = {}
    /\ played = FALSE
    /\ SndInit

Ended == pc \in {"exit0", "exit1", "crashed"}

Goto(p) == pc' = p /\ UNCHANGED <<argc, played>>
Fail == Goto("exit1") /\ UNCHANGED <<alive, sndVars>>
Adds(r) == alive' = alive \cup {r} /\ UNCHANGED sndVars
Drops(r) == alive' = alive \ {r} /\ UNCHANGED sndVars

(* argv[1] is read whatever argc is: atoi(NULL) crashes. *)
ReadChannels ==
    /\ pc = "atoi"
    /\ IF argc < 2
       THEN Goto("crashed")
       ELSE Goto("pj_init") \/ Goto("exit1")
    /\ UNCHANGED <<alive, sndVars>>

(* A layer whose creation is checked: it exists, or main() returns 1. *)
Create(at, r, next) ==
    pc = at /\ ((Adds(r) /\ Goto(next)) \/ Fail)

PjInit == Create("pj_init", "pjlib", "cp_init")

CachingPoolInit == pc = "cp_init" /\ Adds("cp") /\ Goto("endpt_create")

EndptCreate == Create("endpt_create", "endpt", "pool_create")

(* The result is not checked here ... *)
PoolCreate ==
    /\ pc = "pool_create"
    /\ Adds("pool") \/ UNCHANGED <<alive, sndVars>>
    /\ Goto("create_sine_port")

(* ... but create_sine_port refuses a NULL pool. *)
CreateSinePort ==
    /\ pc = "create_sine_port"
    /\ \/ "pool" \in alive /\ Adds("port") /\ Goto("create_player")
       \/ Fail

(* argv[2] is read whatever argc is. *)
CreatePlayer ==
    /\ pc = "create_player"
    /\ IF argc < 3
       THEN Goto("crashed") /\ UNCHANGED <<alive, sndVars>>
       ELSE \/ alive' = alive \cup {"snd"} /\ SndOpen /\ Goto("connect")
            \/ Fail

Connect ==
    /\ pc = "connect"
    /\ \/ SndConnect /\ Goto("settle") /\ UNCHANGED alive
       \/ Fail

(* pj_thread_sleep(100). *)
Settle ==
    /\ pc = "settle"
    /\ FallAsleep
    /\ Goto("settling")
    /\ UNCHANGED alive

Settled == pc = "settling" /\ SleptEnough /\ Goto("fgets")
           /\ UNCHANGED <<alive, sndVars>>

(* A slip: main() goes straight to destroying the port. *)
ReadLineAndDestroy ==
    /\ pc = "fgets"
    /\ Goto("port_destroy")
    /\ UNCHANGED <<alive, sndVars>>

(* ENTER, or the end of the input: both stop the player. *)
ReadLine ==
    /\ pc = "fgets"
    /\ Goto("disconnect")
    /\ UNCHANGED <<alive, sndVars>>

(* A slip: no sleep between disconnecting and destroying. *)
DisconnectNoSleep ==
    /\ pc = "disconnect"
    /\ \/ SndDisconnect /\ Goto("snd_destroy") /\ UNCHANGED alive
       \/ Fail

Disconnect ==
    /\ pc = "disconnect"
    /\ \/ SndDisconnect /\ Goto("drain") /\ UNCHANGED alive
       \/ Fail

(* pj_thread_sleep(100): without it the driver repeats the last frame. *)
Drain ==
    /\ pc = "drain"
    /\ FallAsleep
    /\ Goto("draining")
    /\ UNCHANGED alive

(* A slip, which sibling programs make: the main thread sleeps for ever. *)
DrainedNever == pc = "draining" /\ SleptEnough /\ Goto("drain")
                /\ UNCHANGED <<alive, sndVars>>

Drained == pc = "draining" /\ SleptEnough /\ Goto("snd_destroy")
           /\ UNCHANGED <<alive, sndVars>>

(* pjmedia_snd_port_destroy stops the device, then joins its thread. *)
SndDestroy ==
    /\ pc = "snd_destroy"
    /\ \/ SndStop /\ Goto("snd_join") /\ UNCHANGED alive
       \/ Fail

SndJoin ==
    /\ pc = "snd_join"
    /\ SndClose
    /\ alive' = alive \ {"snd"}
    /\ Goto("port_destroy")

PortDestroy ==
    /\ pc = "port_destroy"
    /\ (Drops("port") /\ Goto("pool_release")) \/ Fail

(* Slips: the pool is never released; the pool factory goes first. *)
PoolLeak == pc = "pool_release" /\ Goto("endpt_destroy")
            /\ UNCHANGED <<alive, sndVars>>
PoolReleaseLate == pc = "pool_release" /\ Drops("cp") /\ Goto("endpt_destroy")

PoolRelease == pc = "pool_release" /\ Drops("pool") /\ Goto("endpt_destroy")

EndptDestroy == pc = "endpt_destroy" /\ Drops("endpt") /\ Goto("cp_destroy")

CachingPoolDestroy == pc = "cp_destroy" /\ Drops("cp") /\ Goto("pj_shutdown")

Shutdown == pc = "pj_shutdown" /\ Drops("pjlib") /\ Goto("exit0")

Setup == \/ ReadChannels \/ PjInit \/ CachingPoolInit \/ EndptCreate
         \/ PoolCreate \/ CreateSinePort \/ CreatePlayer \/ Connect
         \/ Settle \/ Settled

Teardown == \/ Disconnect \/ Drain \/ Drained \/ SndDestroy \/ SndJoin
            \/ PortDestroy \/ PoolRelease \/ EndptDestroy
            \/ CachingPoolDestroy \/ Shutdown

(* The device's thread, for as long as the process lives. *)
Load == ~Ended /\ CbLoad /\ UNCHANGED <<argc, pc, alive, played>>

Frame ==
    /\ ~Ended
    /\ CbFrame
    /\ played' = (played \/ cb = "port")
    /\ UNCHANGED <<argc, pc, alive>>

Device == Load \/ Frame

Gone == Ended /\ UNCHANGED vars

Next == Setup \/ ReadLine \/ Teardown \/ Device \/ Gone

(* Both threads run; nobody has to press ENTER. *)
Spec == /\ Init /\ [][Next]_vars
        /\ WF_vars(Setup) /\ WF_vars(Teardown) /\ WF_vars(Device)

-----------------------------------------------------------------------------
(* The shape of every variable. *)
TypeOK ==
    /\ argc \in Argcs
    /\ pc \in {"atoi", "pj_init", "cp_init", "endpt_create", "pool_create",
               "create_sine_port", "create_player", "connect", "settle",
               "settling", "fgets", "disconnect", "drain", "draining",
               "snd_destroy", "snd_join", "port_destroy", "pool_release",
               "endpt_destroy", "cp_destroy", "pj_shutdown",
               "exit0", "exit1", "crashed"}
    /\ alive \in SUBSET Layers
    /\ played \in BOOLEAN
    /\ SndTypeOK

(* The device's thread is never inside the generator when the generator,   *)
(* or the pool its table lives in, is gone, though main() does not         *)
(* synchronise with the callback that is already under way.                *)
CallbackOnLivePort ==
    (cb = "port" /\ ~Ended) => {"port", "pool"} \subseteq alive

(* At every moment, teardown and early returns included, no layer exists   *)
(* without the layers it is built on.                                      *)
LayersHold == \A r \in alive : Needs(r) \subseteq alive

(* What the comment before the second sleep wants: when the device is      *)
(* destroyed, the last frame it has is silence, and no callback is still   *)
(* fetching from the generator.                                            *)
SilentWhenDestroyed ==
    pc \in {"snd_destroy", "snd_join"} => heard = "silence" /\ cb # "port"

(* Status 0 means that the sine was heard and that nothing is left over.   *)
CleanExit ==
    pc = "exit0" => played /\ alive = {} /\ dev = "closed" /\ cb = "idle"

(* "Usage: playsine [nchannel]", "Default is 1 (mono).": the program can   *)
(* be run with no argument, or with one.  The code reads argv[1] and       *)
(* argv[2] whatever argc is.                                               *)
RunsAsUsageSays == pc # "crashed"

(* The listener's view of the program. *)
Starting == {"atoi", "pj_init", "cp_init", "endpt_create", "pool_create",
             "create_sine_port", "create_player", "connect"}
Playing == {"settle", "settling", "fgets", "disconnect"}
Stopping == {"drain", "draining", "snd_destroy", "snd_join"}
Life ==
    CASE pc \in Starting -> "starting"
      [] pc \in Playing -> "playing"
      [] pc \in Stopping -> "stopping"
      [] OTHER -> "over"

Player == INSTANCE Playback WITH
    life <- Life, late <- (cb = "port"), heard <- heard

(* The safety part of the next property. *)
PlaysBackSafely == Player!Init /\ [][Player!Next]_(Player!vars)

(* playsine is a well-behaved player: silent before and after, at most one *)
(* late frame, and once ENTER is pressed it comes to an end.               *)
PlaysBack == Player!Spec

-----------------------------------------------------------------------------
(* The layers that exist when main() is at p, unless pj_pool_create failed.*)
AliveAt(p) ==
    CASE p \in {"atoi", "pj_init", "exit0"} -> {}
      [] p \in {"cp_init", "pj_shutdown"} -> {"pjlib"}
      [] p \in {"endpt_create", "cp_destroy"} -> {"pjlib", "cp"}
      [] p \in {"pool_create", "endpt_destroy"} -> {"pjlib", "cp", "endpt"}
      [] p \in {"create_sine_port", "pool_release"} ->
            {"pjlib", "cp", "endpt", "pool"}
      [] p \in {"create_player", "port_destroy"} ->
            {"pjlib", "cp", "endpt", "pool", "port"}
      [] OTHER -> Layers

Staged ==
    \/ alive = AliveAt(pc)
    \/ pc = "create_sine_port" /\ alive = AliveAt(pc) \ {"pool"}

DeviceOpen == {"connect"} \cup Playing \cup Stopping
Afterwards == {"port_destroy", "pool_release", "endpt_destroy", "cp_destroy",
               "pj_shutdown", "exit0"}

(* The device and main() in step.  What a sleep brings about is its heart: *)
(* the first callback to end may have begun before the sleep, the second   *)
(* did not.                                                                *)
DeviceInv ==
    /\ ~Ended => (dev # "closed" <=> pc \in DeviceOpen)
    /\ pc \in DeviceOpen => (dev = "stopping" <=> pc = "snd_join")
    /\ dev = "closed" => cb = "idle"
    /\ ~Ended => (conn <=> pc \in Playing)
    /\ (cb = "port" /\ ~Ended) => pc \in Playing \cup Stopping
    /\ pc \in Starting => heard = "silence"
    /\ pc = "settling" /\ ticks >= 1 => cb # "none"
    /\ pc = "settling" /\ ticks >= 2 => played
    /\ pc \in {"fgets", "disconnect"} \cup Stopping \cup Afterwards => played
    /\ pc = "draining" /\ ticks >= 1 => cb # "port"
    /\ pc = "draining" /\ ticks >= 2 => heard = "silence"
    /\ SilentWhenDestroyed
    /\ pc = "exit0" => dev = "closed"

(* The inductive invariant. *)
IInv ==
    /\ TypeOK
    /\ pc \notin {"exit1", "crashed"} => Staged
    /\ LayersHold
    /\ DeviceInv
=============================================================================
