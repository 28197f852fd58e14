------------------------------- MODULE Bridge -------------------------------
(***************************************************************************)
(* The PJMEDIA conference bridge as conf_to_2_sounds.c uses it.  It opens  *)
(* the sound device and puts it in slot zero; every port that is added     *)
(* takes the first free slot.  The device's thread ticks: under the        *)
(* bridge's mutex it visits every slot and moves a frame through the port  *)
(* in it.  All calls of the main thread take the same mutex, so they wait  *)
(* for the end of a tick.  Destroying the bridge stops the device, waits   *)
(* for its thread, and leaves the ports to the application.                *)
(***************************************************************************)
EXTENDS Integers

CONSTANT NFiles    \* the WAV files on the command line
ASSUME NFilesAssumption == NFiles \in Nat

RECORDER == 1
PortCount == NFiles + 1 + RECORDER
Slots == 0..(PortCount - 1)

(* What may be in a slot. *)
Empty == -1
Recorder == 0
Files == 1..NFiles
Sound == NFiles + 1
Ports == {Recorder} \cup Files

Idle == -1   \* the value of `at' between two ticks

VARIABLES
    clock,      \* the device: "none", "running", "stopping" or "gone"
    at,         \* the slot the tick is at, or Idle
    slot,       \* what is in each slot
    listeners,  \* the slots each slot transmits to
    adj         \* the level adjustments of each slot, "t" and "r"

bridgeVars == <<clock, at, slot, listeners, adj>>

BridgeInit ==
    /\ clock = "none" /\ at = Idle
    /\ slot = [s \in Slots |-> Empty]
    /\ listeners = [s \in Slots |-> {}]
    /\ adj = [s \in Slots |-> [d \in {"t", "r"} |-> 0]]

BridgeTypeOK ==
    /\ clock \in {"none", "running", "stopping", "gone"}
    /\ at \in Slots \cup {Idle}
    /\ slot \in [Slots -> Ports \cup {Sound, Empty}]
    /\ listeners \in [Slots -> SUBSET Slots]
    /\ adj \in [Slots -> [{"t", "r"} -> Int]]

Occupied == {s \in Slots : slot[s] # Empty}
Unlocked == at = Idle

(* The device's thread. *)
TickBegin ==
    /\ clock = "running" /\ Unlocked
    /\ at' = 0
    /\ UNCHANGED <<clock, slot, listeners, adj>>

TickStep ==
    /\ at # Idle
    /\ at' = IF at = PortCount - 1 THEN Idle ELSE at + 1
    /\ UNCHANGED <<clock, slot, listeners, adj>>

(* The calls of the main thread. *)
ConfCreate ==
    /\ clock' = "running"
    /\ slot' = [slot EXCEPT ![0] = Sound]
    /\ UNCHANGED <<at, listeners, adj>>

FirstFree == CHOOSE s \in Slots \ Occupied : \A t \in Slots \ Occupied : s <= t

AddPort(p) ==
    /\ Unlocked /\ Occupied # Slots
    /\ slot' = [slot EXCEPT ![FirstFree] = p]
    /\ UNCHANGED <<clock, at, listeners, adj>>

(* Refused when either slot is empty. *)
ConnectPort(a, b) ==
    /\ Unlocked
    /\ listeners' = IF {a, b} \subseteq Occupied
                    THEN [listeners EXCEPT ![a] = listeners[a] \cup {b}]
                    ELSE listeners
    /\ UNCHANGED <<clock, at, slot, adj>>

DisconnectPort(a, b) ==
    /\ Unlocked
    /\ listeners' = IF {a, b} \subseteq Occupied
                    THEN [listeners EXCEPT ![a] = listeners[a] \ {b}]
                    ELSE listeners
    /\ UNCHANGED <<clock, at, slot, adj>>

AdjustLevel(a, d, level) ==
    /\ Unlocked
    /\ adj' = IF a \in Occupied THEN [adj EXCEPT ![a][d] = level] ELSE adj
    /\ UNCHANGED <<clock, at, slot, listeners>>

ConfStop == clock' = "stopping" /\ UNCHANGED <<at, slot, listeners, adj>>

ConfJoin ==
    /\ clock = "stopping" /\ Unlocked
    /\ clock' = "gone"
    /\ slot' = [s \in Slots |-> Empty]
    /\ listeners' = [s \in Slots |-> {}]
    /\ UNCHANGED <<at, adj>>
=============================================================================
