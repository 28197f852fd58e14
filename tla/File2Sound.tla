----------------------------- MODULE File2Sound -----------------------------
(***************************************************************************)
(* main() of file2sound.c: a WAV file, played by a sound device.  Of the   *)
(* statuses that come back while it sets itself up, main() looks only at   *)
(* those of pj_init and of the connection; after the other calls, a handle *)
(* may hold whatever the stack held.                                       *)
(*                                                                         *)
(* `pc' is the call main() is about to make, `alive' what really exists.   *)
(* PJ_ASSERT_RETURN is its release form: a return.                         *)
(***************************************************************************)
EXTENDS SoundPort

VARIABLES
    pc,
    alive,
    played   \* a frame of the file has been heard

vars == <<pc, alive, played, sndVars>>

Init ==
    /\ pc = "argc" /\ alive = {} /\ played = FALSE
    /\ SndInit

Ended == pc \in {"exit0", "exit1", "crashed"}

Goto(p) == pc' = p /\ UNCHANGED played
Adds(r) == alive' = alive \cup {r} /\ UNCHANGED sndVars
Drops(r) == alive' = alive \ {r} /\ UNCHANGED sndVars
Nothing == UNCHANGED <<alive, sndVars>>
Fail == Goto("exit1") /\ Nothing

(* usage() exits when an argument is missing. *)
CheckArgs == pc = "argc" /\ (Goto("pj_init") \/ Goto("exit1")) /\ Nothing

PjInit == pc = "pj_init" /\ ((Adds("pjlib") /\ Goto("cp_init")) \/ Fail)

CachingPoolInit == pc = "cp_init" /\ Adds("cp") /\ Goto("endpt_create")

(* Not checked, and so the next two. *)
EndptCreate ==
    pc = "endpt_create" /\ (Adds("endpt") \/ Nothing) /\ Goto("pool_create")

PoolCreate ==
    pc = "pool_create" /\ (Adds("pool") \/ Nothing) /\ Goto("wav_create")

(* A NULL pool is refused; so may be the file. *)
WavCreate ==
    /\ pc = "wav_create"
    /\ ("pool" \in alive /\ Adds("port")) \/ Nothing
    /\ Goto("create_player")

(* The format of the device is read from the file's port, whatever that    *)
(* is: a crash, or numbers that the device takes or refuses.  The audio    *)
(* subsystem comes with the endpoint: without it there is no device.       *)
CreatePlayer ==
    /\ pc = "create_player"
    /\ \/ /\ {"pool", "endpt"} \subseteq alive
          /\ alive' = alive \cup {"snd"} /\ SndOpen
          /\ Goto("connect")
       \/ Nothing /\ Goto("connect")
       \/ "port" \notin alive /\ Nothing /\ Goto("crashed")

(* It compares the formats of the two, whatever they are. *)
ConnectCrashes == ~({"snd", "port"} \subseteq alive) /\ Nothing /\ Goto("crashed")

(* Slips: no sleep after connecting; a status that is not looked at. *)
ConnectNoSleep ==
    /\ pc = "connect"
    /\ \/ "snd" \in alive /\ SndConnect /\ Goto("fgets") /\ UNCHANGED alive
       \/ Fail
       \/ ConnectCrashes

ConnectUnchecked ==
    /\ pc = "connect"
    /\ \/ "snd" \in alive /\ SndConnect /\ Goto("settle") /\ UNCHANGED alive
       \/ Nothing /\ Goto("settle")
       \/ ConnectCrashes

Connect ==
    /\ pc = "connect"
    /\ \/ "snd" \in alive /\ SndConnect /\ Goto("settle") /\ UNCHANGED alive
       \/ Fail
       \/ ConnectCrashes

(* pj_thread_sleep(100), after which fgets is called. *)
Settle == pc = "settle" /\ FallAsleep /\ Goto("settling") /\ UNCHANGED alive

Settled == pc = "settling" /\ SleptEnough /\ Goto("fgets") /\ Nothing

(* ENTER, or the end of the input. *)
ReadLine == pc = "fgets" /\ Goto("disconnect") /\ Nothing

(* A slip: no sleep between disconnecting and destroying. *)
DisconnectNoSleep ==
    /\ pc = "disconnect"
    /\ \/ SndDisconnect /\ Goto("snd_destroy") /\ UNCHANGED alive
       \/ Fail

Disconnect ==
    /\ pc = "disconnect"
    /\ \/ SndDisconnect /\ Goto("drain") /\ UNCHANGED alive
       \/ Fail

Drain == pc = "drain" /\ FallAsleep /\ Goto("draining") /\ UNCHANGED alive

(* A slip: the loop of the sibling programs, which sleeps for ever. *)
DrainedNever == pc = "draining" /\ SleptEnough /\ Nothing /\ Goto("drain")

(* The line printed here says that the destruction is completed; it is     *)
(* about to begin.                                                         *)
Drained ==
    pc = "draining" /\ SleptEnough /\ Nothing /\ Goto("snd_destroy")

SndDestroy ==
    /\ pc = "snd_destroy"
    /\ \/ SndStop /\ Goto("snd_join") /\ UNCHANGED alive
       \/ Fail

SndJoin ==
    /\ pc = "snd_join"
    /\ SndClose /\ alive' = alive \ {"snd"}
    /\ Goto("port_destroy")

(* What never was a port may also have nothing to call, which is success, *)
(* or make it crash.                                                       *)
PortDestroy ==
    /\ pc = "port_destroy"
    /\ \/ Drops("port") /\ Goto("pool_release")
       \/ Fail
       \/ "port" \notin alive /\ Nothing /\ Goto("crashed")

(* A slip: the pool is forgotten. *)
PoolForgotten == pc = "pool_release" /\ Nothing /\ Goto("endpt_destroy")

PoolRelease == pc = "pool_release" /\ Drops("pool") /\ Goto("endpt_destroy")

EndptDestroy == pc = "endpt_destroy" /\ Drops("endpt") /\ Goto("cp_destroy")

CachingPoolDestroy == pc = "cp_destroy" /\ Drops("cp") /\ Goto("pj_shutdown")

Shutdown == pc = "pj_shutdown" /\ Drops("pjlib") /\ Goto("exit0")

Setup == \/ CheckArgs \/ PjInit \/ CachingPoolInit \/ EndptCreate
         \/ PoolCreate \/ WavCreate \/ CreatePlayer \/ Connect
         \/ Settle \/ Settled

Teardown == \/ Disconnect \/ Drain \/ Drained \/ SndDestroy \/ SndJoin
            \/ PortDestroy \/ PoolRelease \/ EndptDestroy
            \/ CachingPoolDestroy \/ Shutdown

(* The device's thread. *)
Load == ~Ended /\ CbLoad /\ UNCHANGED <<pc, alive, played>>

Frame ==
    /\ ~Ended
    /\ cb = "port" => "port" \in alive
    /\ CbFrame
    /\ played' = (played \/ cb = "port")
    /\ UNCHANGED <<pc, alive>>

(* It asks what never was a port for a frame: a crash, or a refusal.       *)
AsksNoPort == ~Ended /\ cb = "port" /\ "port" \notin alive

WildFrame == AsksNoPort /\ Goto("crashed") /\ Nothing

NoFrame == AsksNoPort /\ CbRefused /\ UNCHANGED <<pc, alive, played>>

Device == Load \/ Frame \/ WildFrame \/ NoFrame

Gone == Ended /\ UNCHANGED vars

Next == Setup \/ ReadLine \/ Teardown \/ Device \/ Gone

(* Both threads run; nobody has to press ENTER. *)
Spec == /\ Init /\ [][Next]_vars
        /\ WF_vars(Setup) /\ WF_vars(Teardown) /\ WF_vars(Device)

-----------------------------------------------------------------------------
(* The shape of every variable. *)
TypeOK ==
    /\ pc \in {"argc", "pj_init", "cp_init", "endpt_create", "pool_create",
               "wav_create", "create_player", "connect", "settle",
               "settling", "fgets", "disconnect", "drain", "draining",
               "snd_destroy", "snd_join", "port_destroy", "pool_release",
               "endpt_destroy", "cp_destroy", "pj_shutdown",
               "exit0", "exit1", "crashed"}
    /\ alive \in SUBSET {"pjlib", "cp", "endpt", "pool", "port", "snd"}
    /\ played \in BOOLEAN
    /\ SndTypeOK

(* What the call main() is about to make needs to exist, the file's port   *)
(* apart.                                                                  *)
Connected == {"settle", "settling", "fgets", "disconnect", "drain",
              "draining", "snd_destroy", "snd_join"}
Needed ==
    CASE pc \in Connected -> {"pjlib", "cp", "endpt", "pool", "snd"}
      [] pc \in {"port_destroy", "pool_release"} ->
            {"pjlib", "cp", "endpt", "pool"}
      [] pc = "endpt_destroy" -> {"pjlib", "cp", "endpt"}
      [] pc = "cp_destroy" -> {"pjlib", "cp"}
      [] pc = "pj_shutdown" -> {"pjlib"}
      [] OTHER -> {}

(* Four statuses are not looked at, yet from the connection to the end the *)
(* file's port is the only handle that may never have been set: the one    *)
(* check weeds out a missing endpoint, pool or device.                     *)
OnlyPortUnset == Needed \subseteq alive

(* A file that was opened has been heard before main() starts to wait for  *)
(* ENTER, and so before the port is disconnected and destroyed.            *)
HeardBeforeStopped ==
    (/\ pc \in (Connected \ {"settle", "settling"}) \cup {"port_destroy"}
     /\ "port" \in alive) => played

(* What the comment before the second sleep wants: the last frame the      *)
(* device has when it is destroyed is silence.                             *)
SilentWhenDestroyed ==
    pc \in {"snd_destroy", "snd_join"} => heard = "silence" /\ cb # "port"

(* Status 0 means that nothing is left over. *)
CleanExit == pc = "exit0" => alive = {} /\ dev = "closed"

(* The listener's view of the program. *)
Playing == {"settle", "settling", "fgets", "disconnect"}
Stopping == {"drain", "draining", "snd_destroy", "snd_join"}
Over == {"port_destroy", "pool_release", "endpt_destroy", "cp_destroy",
         "pj_shutdown", "exit0", "exit1", "crashed"}
Life ==
    CASE pc \in Playing -> "playing"
      [] pc \in Stopping -> "stopping"
      [] pc \in Over -> "over"
      [] OTHER -> "starting"

Player == INSTANCE Playback WITH
    life <- Life, late <- (cb = "port" /\ "port" \in alive), heard <- heard

(* The safety part of the next property. *)
PlaysBackSafely == Player!Init /\ [][Player!Next]_(Player!vars)

(* file2sound is a well-behaved player, as playsine is, garbage handles    *)
(* included: to its listener a crash is a way to break off, and a port     *)
(* that never was is a source that never sends.                            *)
PlaysBack == Player!Spec

-----------------------------------------------------------------------------
(* What exists while main() sets itself up: the pool factory for certain,  *)
(* and a device only over a pool and an endpoint.                          *)
Early == {"argc", "pj_init", "cp_init", "endpt_create"}
Unsure == {"pool_create", "wav_create", "create_player", "connect"}
Staged ==
    /\ pc \in {"argc", "pj_init"} => alive = {}
    /\ pc = "cp_init" => alive = {"pjlib"}
    /\ pc = "endpt_create" => alive = {"pjlib", "cp"}
    /\ pc \in Unsure =>
          /\ {"pjlib", "cp"} \subseteq alive
          /\ "snd" \in alive => {"pool", "endpt"} \subseteq alive
    /\ pc \in Unsure \ {"connect"} => "snd" \notin alive
    /\ pc \notin Early \cup Unsure \cup {"exit1", "crashed"} =>
          alive \ {"port"} = Needed
    /\ pc \in Over \ {"port_destroy", "exit1", "crashed"} => "port" \notin alive

(* The device and main() in step.  The second callback to end in the sleep *)
(* after connecting began in it, and has asked the file's port.            *)
DeviceInv ==
    /\ ~Ended => (dev # "closed" <=> "snd" \in alive)
    /\ ~Ended /\ "snd" \in alive => (dev = "stopping" <=> pc = "snd_join")
    /\ dev = "closed" => cb = "idle"
    /\ ~Ended => (conn <=> pc \in Playing)
    /\ (cb = "port" /\ ~Ended) => pc \in Playing \cup Stopping
    /\ pc \notin Playing \cup Stopping \cup Over => heard = "silence"
    /\ pc \in Playing \cup Stopping /\ "port" \notin alive => heard = "silence"
    /\ pc = "settling" /\ ticks >= 1 => cb # "none"
    /\ pc = "settling" /\ ticks >= 2 /\ "port" \in alive => played
    /\ HeardBeforeStopped
    /\ pc = "draining" /\ ticks >= 1 => cb # "port"
    /\ pc = "draining" /\ ticks >= 2 => heard = "silence"
    /\ SilentWhenDestroyed
    /\ pc = "exit0" => dev = "closed"

(* The inductive invariant. *)
IInv == TypeOK /\ Staged /\ DeviceInv
=============================================================================
