------------------------------ MODULE ConfMenu ------------------------------
(***************************************************************************)
(* main() of conf_to_2_sounds.c: it builds a conference bridge, adds a     *)
(* recorder and the WAV files of the command line to it, and then obeys a  *)
(* menu on stdin while the bridge's own thread moves the media.            *)
(*                                                                         *)
(* `pc' is the call main() is about to make.  An answer to a prompt is a   *)
(* number, something that is none, an empty line, or, for ever after the    *)
(* first time, the end of the input.  A line longer than the buffer answers*)
(* the next prompt too; as every answer is possible anyway, nothing more   *)
(* is needed for that.                                                     *)
(***************************************************************************)
EXTENDS Bridge, Sequences

CONSTANTS
    Levels,      \* the numbers typed where a level is asked for
    MaxApplied   \* bound: commands that reach the bridge

ASSUME LevelsAssumption == Levels \subseteq Int
ASSUME MaxAppliedAssumption == MaxApplied \in Nat

VARIABLES
    pc,
    layers,   \* the PJLIB layers that exist
    live,     \* the media ports that exist, and Unclosed
    i,        \* the loop counter of the two loops over the files
    eof,      \* stdin is exhausted
    cmd,      \* the command of the dialog under way
    src, dst, level,   \* the variables the answers are parsed into
    asked,    \* the answers accepted in this dialog, for the properties only
    applied   \* commands that reached the bridge

dialog == <<cmd, src, dst, level, asked>>
vars == <<pc, layers, live, i, eof, dialog, applied, bridgeVars>>

Init ==
    /\ pc = "pj_init"
    /\ layers = {} /\ live = {}
    /\ i = 1
    /\ eof = FALSE
    /\ cmd = "s" /\ src = 0 /\ dst = 0 /\ level = 0 /\ asked = <<>>
    /\ applied = 0
    /\ BridgeInit

Ended == pc \in {"exit0", "exit1", "crashed"}

-----------------------------------------------------------------------------
(* Setting up.                                                             *)

(* A step that touches neither the menu's state nor the bridge. *)
Quietly == UNCHANGED <<eof, dialog, applied, bridgeVars>>

(* The same, with a call of the bridge. *)
OnBridge == UNCHANGED <<eof, dialog, applied>>

Fail == pc' = "exit1" /\ UNCHANGED <<layers, live, i>> /\ Quietly

Adds(l, next) ==
    /\ layers' = layers \cup {l} /\ pc' = next
    /\ UNCHANGED <<live, i>> /\ Quietly

PjInit == pc = "pj_init" /\ (Adds("pjlib", "options") \/ Fail)

(* get_snd_options refuses a bad option; then the pool factory. *)
Options == pc = "options" /\ (Adds("cp", "endpt_create") \/ Fail)

EndptCreate ==
    pc = "endpt_create" /\ (Adds("endpt", "pool_create") \/ Fail)

(* The result is not checked. *)
PoolCreate ==
    /\ pc = "pool_create"
    /\ layers' \in {layers, layers \cup {"pool"}}
    /\ pc' = "conf_create"
    /\ UNCHANGED <<live, i>> /\ Quietly

(* Without a pool it crashes, or refuses. *)
CreateBridge ==
    /\ pc = "conf_create"
    /\ \/ /\ "pool" \in layers
          /\ ConfCreate
          /\ pc' = "rec_create"
          /\ UNCHANGED <<layers, live, i>> /\ OnBridge
       \/ /\ "pool" \notin layers
          /\ pc' = "crashed"
          /\ UNCHANGED <<layers, live, i>> /\ Quietly
       \/ Fail

CreateRecorder ==
    /\ pc = "rec_create"
    /\ \/ /\ live' = live \cup {Recorder} /\ pc' = "rec_add"
          /\ UNCHANGED <<layers, i>> /\ Quietly
       \/ Fail

(* Nobody looks at the status: the recorder may be left out of the bridge. *)
AddRecorder ==
    /\ pc = "rec_add"
    /\ AddPort(Recorder) \/ UNCHANGED bridgeVars
    /\ pc' = "files"
    /\ UNCHANGED <<layers, live, i>> /\ OnBridge

CreateFile ==
    /\ pc = "files" /\ i <= NFiles
    /\ \/ /\ live' = live \cup {i} /\ pc' = "file_add"
          /\ UNCHANGED <<layers, i>> /\ Quietly
       \/ Fail

(* A slip: the status of a file is not looked at either. *)
AddFileUnchecked ==
    /\ pc = "file_add"
    /\ AddPort(i) \/ UNCHANGED bridgeVars
    /\ i' = i + 1 /\ pc' = "files"
    /\ UNCHANGED <<layers, live>> /\ OnBridge

AddFile ==
    /\ pc = "file_add"
    /\ \/ /\ AddPort(i)
          /\ i' = i + 1 /\ pc' = "files"
          /\ UNCHANGED <<layers, live>> /\ OnBridge
       \/ Fail

FilesAdded ==
    /\ pc = "files" /\ i > NFiles
    /\ pc' = "menu"
    /\ UNCHANGED <<layers, live, i>> /\ Quietly

-----------------------------------------------------------------------------
(* The menu.                                                               *)

InMenu == UNCHANGED <<layers, live, i>>

(* conf_list() takes the bridge's mutex and only reads. *)
ConfList == Unlocked

(* The listing and the menu are printed before every command. *)
ListPorts ==
    /\ pc = "menu"
    /\ ConfList
    /\ pc' = "select"
    /\ InMenu /\ Quietly

(* The input may end at any prompt; it never comes back. *)
InputEnds ==
    /\ pc \in {"select", "first", "second", "third"} /\ ~eof
    /\ eof' = TRUE
    /\ UNCHANGED <<pc, dialog, applied, bridgeVars>> /\ InMenu

Commands == {"c", "d", "t", "r", "v"}

(* Back in the menu, the dialog is forgotten.  src, dst and level begin    *)
(* every round of the loop unset; 0 stands for what the stack holds.       *)
BackToMenu ==
    /\ pc' = "menu"
    /\ cmd' = "s" /\ asked' = <<>>
    /\ src' = 0 /\ dst' = 0 /\ level' = 0

(* A line at the menu: a command that opens a dialog, or 's', or a         *)
(* character that is none; the last two go back to the menu.               *)
Select ==
    /\ pc = "select" /\ ~eof
    /\ \/ /\ cmd' \in (IF applied < MaxApplied THEN Commands ELSE {"v"})
          /\ asked' = <<>>
          /\ pc' = "first"
          /\ UNCHANGED <<src, dst, level>>
       \/ BackToMenu
    /\ UNCHANGED <<eof, applied, bridgeVars>> /\ InMenu

(* A slip: the media ports are destroyed under the bridge. *)
QuitPortsFirst ==
    /\ pc = "select"
    /\ i' = 1 /\ pc' = "file_destroy"
    /\ UNCHANGED <<layers, live>> /\ Quietly

(* 'q', or the end of the input. *)
Quit ==
    /\ pc = "select"
    /\ pc' = "conf_destroy"
    /\ InMenu /\ Quietly

Prompted == pc \in {"first", "second", "third"}
GivesUp == UNCHANGED <<eof, applied, bridgeVars>> /\ InMenu

(* Slips: a prompt that is given nothing asks again at the end of the      *)
(* input, or takes nothing for the answer of an earlier dialog.            *)
CancelAsksAgain ==
    /\ Prompted
    /\ IF eof THEN UNCHANGED <<pc, dialog>> ELSE BackToMenu
    /\ GivesUp

CancelProceeds ==
    /\ Prompted
    /\ IF pc = "second" /\ cmd # "v"
       THEN pc' = "apply" /\ UNCHANGED dialog
       ELSE BackToMenu
    /\ GivesUp

(* An empty line or the end of the input cancels the dialog. *)
Cancel == Prompted /\ BackToMenu /\ GivesUp

Answers(all) == asked' = all /\ InMenu
                /\ UNCHANGED <<eof, cmd, applied, bridgeVars>>

(* The answer is no number, or not one that is in range. *)
Refuses == BackToMenu /\ GivesUp

(* "Enter .. port number". *)
AnswerFirst ==
    /\ pc = "first" /\ ~eof
    /\ \/ /\ src' \in Slots /\ UNCHANGED <<dst, level>>
          /\ Answers(<<src'>>) /\ pc' = "second"
       \/ Refuses

AnswerDestination ==
    /\ pc = "second" /\ ~eof /\ cmd \in {"c", "d"}
    /\ \/ /\ dst' \in Slots /\ UNCHANGED <<src, level>>
          /\ Answers(<<asked[1], dst'>>) /\ pc' = "apply"
       \/ Refuses

AnswerLevel ==
    /\ pc = "second" /\ ~eof /\ cmd \in {"t", "r"}
    /\ \/ /\ level' \in Levels /\ level' >= -128 /\ UNCHANGED <<src, dst>>
          /\ Answers(<<asked[1], level'>>) /\ pc' = "apply"
       \/ Refuses

(* The VU meter: "r" or "t", then the duration. *)
AnswerMeter ==
    /\ pc \in {"second", "third"} /\ ~eof /\ cmd = "v"
    /\ \/ /\ Answers(asked) /\ UNCHANGED <<src, dst, level>>
          /\ pc' = IF pc = "second" THEN "third" ELSE "monitor"
       \/ Refuses

(* monitor_level() of module VuMeter, which only reads. *)
Monitor ==
    /\ pc = "monitor" /\ Unlocked
    /\ BackToMenu
    /\ GivesUp

(* The dialog is complete: the bridge is called, its error only printed.   *)
Applies(c) ==
    /\ pc = "apply" /\ cmd = c
    /\ BackToMenu
    /\ applied' = applied + 1
    /\ UNCHANGED eof /\ InMenu

(* A slip: the ports are connected in both directions, as a call would be. *)
ApplyConnectBothWays ==
    /\ Applies("c")
    /\ Unlocked
    /\ listeners' = IF {src, dst} \subseteq Occupied
                    THEN [listeners EXCEPT ![src] = @ \cup {dst},
                                           ![dst] = @ \cup {src}]
                    ELSE listeners
    /\ UNCHANGED <<clock, at, slot, adj>>

ApplyConnect == Applies("c") /\ ConnectPort(src, dst)
ApplyDisconnect == Applies("d") /\ DisconnectPort(src, dst)
ApplyTx == Applies("t") /\ AdjustLevel(src, "t", level)
ApplyRx == Applies("r") /\ AdjustLevel(src, "r", level)

-----------------------------------------------------------------------------
(* Taking down.                                                            *)

ConfDestroy ==
    /\ pc = "conf_destroy"
    /\ \/ ConfStop /\ pc' = "conf_join" /\ InMenu /\ OnBridge
       \/ Fail

(* A slip: the loop starts at the second file. *)
ConfDestroyedSkips ==
    /\ pc = "conf_join"
    /\ ConfJoin
    /\ i' = 2 /\ pc' = "file_destroy"
    /\ UNCHANGED <<layers, live>> /\ OnBridge

ConfDestroyed ==
    /\ pc = "conf_join"
    /\ ConfJoin
    /\ i' = 1 /\ pc' = "file_destroy"
    /\ UNCHANGED <<layers, live>> /\ OnBridge

FileDestroy ==
    /\ pc = "file_destroy" /\ i <= NFiles
    /\ \/ /\ live' = live \ {i} /\ i' = i + 1
          /\ UNCHANGED <<pc, layers>> /\ Quietly
       \/ Fail

(* The recorder finishes and closes its WAV file when it is destroyed.     *)
(* That may fail: the port goes with its pool, and its file is Unclosed.   *)
Unclosed == -2

(* No more files: the recorder.  Nobody looks at the status. *)
RecDestroy ==
    /\ pc = "file_destroy" /\ i > NFiles
    /\ live' \in {live \ {Recorder}, (live \ {Recorder}) \cup {Unclosed}}
    /\ pc' = "pool_release"
    /\ UNCHANGED <<layers, i>> /\ Quietly

Drops(at_, l, next) ==
    /\ pc = at_
    /\ layers' = layers \ {l} /\ pc' = next
    /\ UNCHANGED <<live, i>> /\ Quietly

PoolRelease == Drops("pool_release", "pool", "endpt_destroy")
EndptDestroy == Drops("endpt_destroy", "endpt", "cp_destroy")
CachingPoolDestroy == Drops("cp_destroy", "cp", "shutdown")
Shutdown == Drops("shutdown", "pjlib", "exit0")

-----------------------------------------------------------------------------
Setup == \/ PjInit \/ Options \/ EndptCreate \/ PoolCreate \/ CreateBridge
         \/ CreateRecorder \/ AddRecorder \/ CreateFile \/ AddFile
         \/ FilesAdded

Apply == ApplyConnect \/ ApplyDisconnect \/ ApplyTx \/ ApplyRx

Dialog == \/ Select \/ Quit \/ Cancel \/ AnswerFirst \/ AnswerDestination
          \/ AnswerLevel \/ AnswerMeter

Teardown == \/ ConfDestroy \/ ConfDestroyed \/ FileDestroy \/ RecDestroy
            \/ PoolRelease \/ EndptDestroy \/ CachingPoolDestroy \/ Shutdown

OwnVars == <<pc, layers, live, i, eof, dialog, applied>>
Tick == ~Ended /\ (TickBegin \/ TickStep) /\ UNCHANGED OwnVars

Gone == Ended /\ UNCHANGED vars

Next == \/ Setup \/ ListPorts \/ InputEnds \/ Dialog \/ Apply \/ Monitor
        \/ Teardown \/ Tick \/ Gone

(* The main thread gets the mutex in the end: a tick holds it for a        *)
(* fraction of the 20 ms between two ticks.  Nobody has to type, but when  *)
(* the input has ended the prompts answer at once.                         *)
Obeys == Setup \/ ListPorts \/ Apply \/ Monitor \/ Teardown
Spec == /\ Init /\ [][Next]_vars
        /\ SF_vars(Obeys) /\ WF_vars(eof /\ Dialog)
        /\ WF_vars(TickStep /\ UNCHANGED OwnVars)

-----------------------------------------------------------------------------
(* The shape of every variable. *)
OwnTypeOK ==
    /\ pc \in {"pj_init", "options", "endpt_create", "pool_create",
               "conf_create", "rec_create", "rec_add", "files", "file_add",
               "menu", "select", "first", "second", "third", "apply",
               "monitor", "conf_destroy", "conf_join", "file_destroy",
               "pool_release", "endpt_destroy", "cp_destroy", "shutdown",
               "exit0", "exit1", "crashed"}
    /\ layers \in SUBSET {"pjlib", "cp", "endpt", "pool"}
    /\ live \in SUBSET (Ports \cup {Unclosed})
    /\ i \in 1..(NFiles + 1)
    /\ eof \in BOOLEAN
    /\ cmd \in Commands \cup {"s"}
    /\ src \in Int /\ dst \in Int /\ level \in Int
    /\ applied \in Nat
    /\ pc = "file_add" => i <= NFiles

TypeOK == OwnTypeOK /\ BridgeTypeOK

(* The bridge's thread never moves a frame through a port that has been    *)
(* destroyed, or whose pool is gone: the bridge dies before the ports.     *)
NoDeadPortTouched ==
    (at # Idle /\ ~Ended) =>
        /\ slot[at] \in live \cup {Sound, Empty}
        /\ "pool" \in layers

(* While the menu is up, the files are in consecutive slots, in the order  *)
(* of the command line, whether the recorder got a slot or not.            *)
MenuUp == {"menu", "select", "first", "second", "third", "apply", "monitor"}
FilesInOrder ==
    pc \in MenuUp =>
        \E offset \in {0, RECORDER} : \A f \in Files : slot[f + offset] = f

(* "the WAV file player ports will be connected to slot starting from      *)
(* number one in the bridge", says the help text.  The recorder is added   *)
(* first and takes slot one.                                               *)
FilesFromSlotOne == pc \in MenuUp => \A f \in Files : slot[f] = f

(* The bridge's routes and levels change only by a dialog that was         *)
(* answered to its end, and then exactly as the answers say; nothing an    *)
(* earlier or a cancelled dialog left in src, dst or level gets through.   *)
AsTypedStep ==
    (clock = "running" /\ <<listeners, adj>>' # <<listeners, adj>>) =>
        /\ Len(asked) = 2
        /\ \/ /\ cmd = "c" /\ adj' = adj
              /\ listeners' = [listeners EXCEPT ![asked[1]] = @ \cup {asked[2]}]
           \/ /\ cmd = "d" /\ adj' = adj
              /\ listeners' = [listeners EXCEPT ![asked[1]] = @ \ {asked[2]}]
           \/ /\ cmd \in {"t", "r"} /\ listeners' = listeners
              /\ asked[2] >= -128
              /\ adj' = [adj EXCEPT ![asked[1]][cmd] = asked[2]]
AsTyped == [][AsTypedStep]_vars

(* Status 0: every port has been destroyed, and every layer and thread is  *)
(* gone.  The one thing that may be left over is the recorder's file, when *)
(* the recorder could not close it: main() would not notice.               *)
CleanExit ==
    pc = "exit0" => /\ live \subseteq {Unclosed}
                    /\ layers = {} /\ clock = "gone" /\ at = Idle

(* When the input ends, wherever the dialog is, the program ends. *)
EndsWithInput == eof ~> Ended

(* The bridge as its user sees it. *)
Routes == {r \in Slots \X Slots : r[2] \in listeners[r[1]]}
Board == INSTANCE Routing WITH
    up <- (IF clock = "none" THEN "new"
           ELSE IF clock = "gone" THEN "down" ELSE "up"),
    ports <- Occupied,
    routes <- Routes,
    Places <- Slots

(* The program drives the bridge as a patch board. *)
DrivesBoard == Board!Spec
-----------------------------------------------------------------------------
(* The inductive invariant, part by part.                                  *)

Before == {"pj_init", "options", "endpt_create", "pool_create", "conf_create"}
Filling == {"rec_create", "rec_add", "files", "file_add"}
After == {"file_destroy", "pool_release", "endpt_destroy", "cp_destroy",
          "shutdown", "exit0"}

(* The bridge exists from its creation to its destruction, over a pool;    *)
(* before and after, it holds nothing.                                     *)
BridgeUp == clock \in {"running", "stopping"}
Phases ==
    /\ pc \in Before => clock = "none"
    /\ pc \in Filling \cup MenuUp \cup {"conf_destroy"} => clock = "running"
    /\ pc = "conf_join" => clock = "stopping"
    /\ pc \in After => clock = "gone"
    /\ BridgeUp => "pool" \in layers
    /\ ~BridgeUp => at = Idle

(* What is in a slot exists, and only slots in use are connected. *)
SlotsInUse ==
    /\ \A s \in Slots : slot[s] \in live \cup {Sound, Empty}
    /\ \A s \in Slots : ~BridgeUp => slot[s] = Empty
    /\ \A a, b \in Slots :
          b \in listeners[a] => slot[a] # Empty /\ slot[b] # Empty
    /\ pc = "rec_add" => Recorder \in live
    /\ pc = "file_add" => i \in live

(* What is left to destroy. *)
Leftovers ==
    /\ Unclosed \in live => pc \in After \ {"file_destroy"}
    /\ pc = "file_destroy" => \A p \in live : p = Recorder \/ p >= i
    /\ pc \in After \ {"file_destroy"} => live \subseteq {Unclosed}
    /\ pc = "pool_release" => layers \subseteq {"pjlib", "cp", "endpt", "pool"}
    /\ pc = "endpt_destroy" => layers \subseteq {"pjlib", "cp", "endpt"}
    /\ pc = "cp_destroy" => layers \subseteq {"pjlib", "cp"}
    /\ pc = "shutdown" => layers \subseteq {"pjlib"}
    /\ pc = "exit0" => layers = {}

(* The variables a command uses hold what was answered in its dialog. *)
Answered ==
    /\ pc = "first" => asked = <<>>
    /\ pc = "second" => asked = <<src>> /\ src \in Slots
    /\ pc \in {"first", "second", "apply"} => cmd \in Commands
    /\ pc = "apply" =>
          /\ src \in Slots
          /\ \/ cmd \in {"c", "d"} /\ dst \in Slots /\ asked = <<src, dst>>
             \/ cmd \in {"t", "r"} /\ level >= -128 /\ asked = <<src, level>>

(* What is in which slot, once n files have been added, with or without    *)
(* the recorder (offset 1 or 0).                                           *)
PluggedUpTo(n, offset) ==
    \A s \in Slots :
        slot[s] = IF s = 0 THEN Sound
                  ELSE IF s <= offset THEN Recorder
                  ELSE IF s <= n + offset THEN s - offset
                  ELSE Empty

Plugged ==
    /\ pc \in Before \cup {"rec_create", "rec_add"} => i = 1
    /\ pc \in {"rec_create", "rec_add"} => PluggedUpTo(0, 0)
    /\ pc \in {"files", "file_add"} =>
          \E offset \in {0, RECORDER} : PluggedUpTo(i - 1, offset)
    /\ pc \in MenuUp =>
          \E offset \in {0, RECORDER} : PluggedUpTo(NFiles, offset)

IInv == TypeOK /\ Phases /\ SlotsInUse /\ Leftovers /\ Answered /\ Plugged
=============================================================================
