------------------------------- MODULE Pipes -------------------------------
(***************************************************************************)
(* The programs that lay a pipe from sources of sound, through conference  *)
(* bridges and a splitter/combiner, to one or two sound devices.           *)
(*   one_file     sc_1file_to_2sound.c: one file on two devices            *)
(*   pjsua_file   sc_pjsua_1file_to_2sound.c: the same behind PJSUA        *)
(*   ring         func_sc_pjsua_1file_to_2sound.c: its ring on two devices *)
(*   phone        sc_pjsua_phone_to_2sound.c: a call on two devices        *)
(*   splitcomb    splitcomb_file2sound.c: two files mixed on one device    *)
(*   left_right   sc_1file_to_left_right.c                                 *)
(*   ics          simple_ics.c: a file on one side of a stereo device      *)
(*   sound_conf   sound_conf_file.c: a file through a bridge               *)
(*   pjsua_sound  file_pjsua_sound.c: the same behind PJSUA                *)
(*   mic          confbridge.c: the microphone through a bridge            *)
(*   sip          sip_streamer.c: a call with nothing laid to it           *)
(*                                                                         *)
(* Hardly any status is looked at: a call that fails leaves its handle     *)
(* unset, and a call that is given such a handle is refused or crashes.    *)
(* Sound moves in numbered frames.  The master port and each device have a *)
(* clock and a thread of their own; between them are the buffers of the    *)
(* reverse channels, which drop their oldest frame when they are full.     *)
(*                                                                         *)
(* A program is the sequence of its calls, <<operation, thing, argument>>, *)
(* and `pc' is the next of them.  A bridge stands for its own slot 0.      *)
(***************************************************************************)
EXTENDS Integers, Sequences, FiniteSets

CONSTANTS
    Programs,    \* the programs that are run
    MaxFrames,   \* bound: frames the sources give
    Burst        \* frames a reverse channel's buffer holds

ASSUME BoundsAssumption == MaxFrames \in Nat /\ Burst \in Nat \ {0}

Sources == {"file", "file2", "ring", "call", "mic"}
Revs == {"rev1", "rev2"}
Devices == {"dev1", "dev2"}
Bridges == {"conf", "pjsua"}
Outputs == {"one", "two"}   \* what dev1 and dev2, or left and right, play

Make(x) == <<"make", x, "-">>

(* What the programs with two devices share: a splitter with a reverse     *)
(* channel on each side, in a bridge whose slot 0 feeds it ...             *)
SplitInTwo ==
    << Make("conf"), Make("sc"),
       <<"reverse", "rev1", 0>>, <<"reverse", "rev2", 1>>,
       <<"add", "sc", "conf">>, <<"route", "conf", "sc">> >>

(* ... and a master port and two devices that play them.                   *)
(* Slips: both devices on one side; the master port is not started.        *)
PlayOneSide ==
    << Make("master"), <<"plug", "dev1", "rev1">>, <<"plug", "dev2", "rev1">>,
       <<"start", "master", "-">> >>
PlayNothing ==
    << Make("master"), <<"plug", "dev1", "rev1">>, <<"plug", "dev2", "rev2">> >>
PlayBoth ==
    << Make("master"), <<"plug", "dev1", "rev1">>, <<"plug", "dev2", "rev2">>,
       <<"start", "master", "-">> >>

(* A slip: a device before the file whose format it takes. *)
OneFileEarly ==
    << Make("pool"), Make("dev1"), Make("file"), Make("dev2") >>
    \o SplitInTwo \o PlayBoth

OneFile ==
    << Make("pool"), Make("file"), Make("dev1"), Make("dev2") >>
    \o SplitInTwo \o PlayBoth

PjsuaFile ==
    << Make("pool"), Make("pjsua"), Make("file"), Make("dev1"), Make("dev2") >>
    \o SplitInTwo
    \o << <<"add", "file", "pjsua">>, <<"route", "file", "pjsua">> >>
    \o PlayBoth

(* The file only lends its format: it is added to no bridge. *)
Ring ==
    << Make("pool"), Make("pjsua"), <<"player", "ring", "pjsua">>,
       Make("file"), Make("dev1"), Make("dev2") >>
    \o SplitInTwo \o << <<"route", "ring", "pjsua">> >> \o PlayBoth

(* The call's port is looked up once, right after the call is made. *)
PhoneToSound ==
    << Make("pool"), Make("pjsua"), Make("account"), <<"call", "call", "-">>,
       <<"route", "call", "pjsua">>, Make("dev1"), Make("dev2") >>
    \o SplitInTwo \o PlayBoth

(* A slip: each file on the other one's side. *)
SplitCombCrossed ==
    << Make("pool"), Make("file"), Make("file2"), Make("dev1"), Make("conf"),
       Make("sc"), <<"reverse", "rev1", 0>>, <<"reverse", "rev2", 1>>,
       <<"add", "sc", "conf">>, <<"add", "rev1", "conf">>,
       <<"add", "rev2", "conf">>, <<"add", "file", "conf">>,
       <<"add", "file2", "conf">>, <<"route", "file", "rev2">>,
       <<"route", "file2", "rev1">>, <<"route", "sc", "conf">>,
       <<"plug", "dev1", "conf">> >>

SplitComb ==
    << Make("pool"), Make("file"), Make("file2"), Make("dev1"), Make("conf"),
       Make("sc"), <<"reverse", "rev1", 0>>, <<"reverse", "rev2", 1>>,
       <<"add", "sc", "conf">>, <<"add", "rev1", "conf">>,
       <<"add", "rev2", "conf">>, <<"add", "file", "conf">>,
       <<"add", "file2", "conf">>, <<"route", "file", "rev1">>,
       <<"route", "file2", "rev2">>, <<"route", "sc", "conf">>,
       <<"plug", "dev1", "conf">> >>

LeftRight ==
    << Make("pool"), Make("conf"), Make("sc"), <<"channel", "conf", 0>>,
       <<"reverse", "rev1", 1>>, <<"add", "rev1", "conf">>, Make("dev1"),
       <<"plug", "dev1", "sc">>, Make("file"), <<"add", "file", "conf">>,
       <<"route", "file", "rev1">> >>

(* The status looked at after the player is still that of PJSUA itself.    *)
(* The bridge is channel 1 and the reverse channel 0, not the other way    *)
(* round as the comments there have it.                                    *)
Ics ==
    << Make("pjsua"), Make("pool"), <<"player", "file", "pjsua">>,
       <<"check", "pjsua", "-">>, Make("dev1"), Make("sc"), <<"channel", "pjsua", 1>>,
       <<"reverse", "rev1", 0>>, <<"add", "rev1", "pjsua">>,
       <<"route", "file", "rev1">>, <<"plug", "dev1", "sc">>,
       <<"enter", "-", "-">>, <<"unplug", "dev1", "-">>,
       <<"return", "-", "-">> >>

SoundConf ==
    << Make("pool"), Make("conf"), Make("file"), <<"add", "file", "conf">>,
       <<"route", "file", "conf">>, Make("dev1"), <<"plug", "dev1", "conf">> >>

PjsuaSound ==
    << Make("pjsua"), Make("pool"), <<"player", "file", "pjsua">>,
       Make("dev1"), <<"route", "file", "pjsua">>,
       <<"plug", "dev1", "pjsua">> >>

(* The file it opens is forgotten: its handle becomes the microphone's. *)
Mic ==
    << Make("pool"), Make("conf"), Make("dev1"), <<"plug", "dev1", "conf">>,
       Make("mic"), <<"add", "mic", "conf">>, <<"route", "mic", "conf">> >>

(* The number of the call is stored through a pointer that is never set.   *)
SipStreamer ==
    << Make("pjsua"), Make("pool"), Make("account"), <<"call", "call", "-">> >>

Steps ==
    [one_file |-> OneFile, pjsua_file |-> PjsuaFile, ring |-> Ring,
     phone |-> PhoneToSound, splitcomb |-> SplitComb,
     left_right |-> LeftRight, ics |-> Ics, sound_conf |-> SoundConf,
     pjsua_sound |-> PjsuaSound, mic |-> Mic, sip |-> SipStreamer]

ASSUME ProgramsAssumption == Programs \subseteq DOMAIN Steps

(* argc that main() insists on, and the argument a device's number is in.  *)
MinArgc(p) ==
    CASE p \in {"sound_conf", "mic", "sip"} -> 1
      [] p = "ics" -> 2
      [] p = "ring" -> 4
      [] OTHER -> 3

Argument(p, d) ==
    CASE p = "mic" -> 0
      [] p = "phone" -> IF d = "dev1" THEN 1 ELSE 2
      [] p = "splitcomb" -> 3
      [] OTHER -> IF d = "dev1" THEN 2 ELSE 3

(* The port whose format the devices and the splitter are given. *)
Info(p) ==
    CASE p \in {"phone", "mic", "pjsua_sound"} -> {}
      [] p = "left_right" -> {"conf"}
      [] p = "ics" -> {"pjsua"}
      [] OTHER -> {"file"}

Upstream(p) == IF p = "one_file" THEN "file" ELSE "pjsua"

(* The handles each call is given. *)
Needs(p, x) ==
    CASE x = "pjsua" -> {}
      [] x \in {"ring", "account"} -> {"pjsua"}
      [] x = "pool" -> IF p \in {"ics", "pjsua_sound", "sip"}
                       THEN {"pjsua"} ELSE {}
      [] x = "file" -> IF p \in {"ics", "pjsua_sound"}
                       THEN {"pjsua"} ELSE {"pool"}
      [] x \in {"file2", "conf", "mic"} -> {"pool"}
      [] x \in Devices \cup {"sc"} -> {"pool"} \cup Info(p)
      [] x \in Revs -> {"pool", "sc"}
      [] x = "master" -> {"pool", "conf", Upstream(p)}

(* The creations that main() returns on when they fail. *)
Checked(p) ==
    CASE p = "ics" -> {"dev1", "sc", "channel", "rev1"}
      [] p = "phone" -> {"account"}
      [] p = "sip" -> {"call"}
      [] OTHER -> {}

(* The creations that go through CHECK, a macro of a header that is not in *)
(* the repository: main() returns when they fail, or goes on.              *)
ByMacro(p) == IF p = "mic" THEN {"dev1"} ELSE {}

VARIABLES
    prog, argc,
    fmt,      \* the file's format: "8k" or "16k", mono, or "stereo"
    pc,       \* the next call; 0 before the arguments are looked at
    ended,    \* "no", "returned" or "crashed"
    failed,   \* history: some call did not succeed
    made,     \* the things whose handles are set
    slots,    \* per bridge: the things that are in it
    routes,   \* the connections between slots
    chan,     \* the splitter's port for each of its channels
    plugged,  \* the port each device plays
    running,  \* the master port's thread runs
    call,     \* "none", "calling", "active" or "over"
    n,        \* frames the sources have given
    buf,      \* per reverse channel: the frames in it, oldest first
    dropped,  \* history: the last frame its buffer had to drop
    last,     \* history: the last frame each output has played
    heard     \* history: the sources each output has played

program == <<prog, argc, fmt>>
graph == <<made, slots, routes, chan, plugged, running>>
sound == <<n, buf, dropped, last, heard>>
vars == <<program, pc, ended, failed, graph, call, sound>>

Init ==
    /\ prog \in Programs
    /\ argc \in 1..4
    /\ fmt \in {"8k", "16k", "stereo"}
    /\ pc = 0 /\ ended = "no" /\ failed = FALSE
    /\ made = {} /\ routes = {}
    /\ slots = [b \in Bridges |-> {}]
    /\ chan = [c \in {0, 1} |-> "-"]
    /\ plugged = [d \in Devices |-> "-"]
    /\ running = FALSE
    /\ call = "none"
    /\ n = 0
    /\ buf = [r \in Revs |-> <<>>]
    /\ dropped = [r \in Revs |-> 0]
    /\ last = [o \in Outputs |-> 0]
    /\ heard = [o \in Outputs |-> {}]

-----------------------------------------------------------------------------
At(op, x, y) ==
    /\ ended = "no" /\ pc \in DOMAIN Steps[prog]
    /\ Steps[prog][pc] = <<op, x, y>>

Goto(p) == pc' = p /\ UNCHANGED <<program, ended, sound>>
Leave(how) == ended' = how /\ UNCHANGED <<program, pc, graph, call, sound>>

(* The arguments and, in two of the programs, the status of pj_init.       *)
CheckArgs ==
    /\ ended = "no" /\ pc = 0
    /\ \/ argc >= MinArgc(prog) /\ Goto(1) /\ UNCHANGED <<graph, call>>
       \/ argc < MinArgc(prog) /\ Leave("returned")
       \/ prog \in {"splitcomb", "left_right"} /\ Leave("returned")
    /\ UNCHANGED failed

(* The program itself reads the format through a handle that is NULL. *)
ReadsNull(x) ==
    /\ x \in Devices \cup {"sc"} /\ ~(Info(prog) \subseteq made)
    /\ Info(prog) # {"file"} \/ prog = "sound_conf"

(* A call goes well, with its effect; or it fails, which is mostly not     *)
(* looked at; or it crashes on a handle that was never set.                *)
Calls(x, needs, Effect) ==
    \/ needs \subseteq made /\ Effect /\ Goto(pc + 1) /\ UNCHANGED failed
    \/ /\ ~ReadsNull(x)
       /\ failed' = TRUE
       /\ \/ x \in Checked(prog) \cup ByMacro(prog) /\ Leave("returned")
          \/ x \notin Checked(prog) /\ Goto(pc + 1)
       /\ UNCHANGED <<graph, call>>
    \/ ~(needs \subseteq made) /\ Leave("crashed") /\ UNCHANGED failed

HasArgument(x) == x \notin Devices \/ argc > Argument(prog, x)

(* A master port joins two ports of one format. *)
MasterFits == prog = "one_file" => fmt = "8k"

Creates(x) ==
    made' = made \cup {x}
    /\ UNCHANGED <<routes, chan, plugged, running, call>>

Create(x) ==
    /\ At("make", x, "-") /\ HasArgument(x)
    /\ Calls(x, Needs(prog, x),
             /\ x = "master" => MasterFits
             /\ prog = "sound_conf" /\ x = "file" => argc > 1
             /\ Creates(x) /\ UNCHANGED slots)

(* atoi(argv[...]) of an argument that is not there. *)
ReadsNoArgument(x) ==
    /\ At("make", x, "-") /\ ~HasArgument(x)
    /\ Leave("crashed") /\ UNCHANGED failed

(* pjsua_player_create adds the player to the bridge. *)
CreatePlayer(x) ==
    /\ At("player", x, "pjsua")
    /\ Calls(x, Needs(prog, x),
             Creates(x) /\ slots' = [slots EXCEPT !["pjsua"] = @ \cup {x}])

CreateReverse(r, c) ==
    /\ At("reverse", r, c)
    /\ Calls(r, Needs(prog, r),
             /\ made' = made \cup {r}
             /\ chan' = [chan EXCEPT ![c] = r]
             /\ UNCHANGED <<slots, routes, plugged, running, call>>)

SetChannel(b, c) ==
    /\ At("channel", b, c)
    /\ Calls("channel", {"sc", b},
             /\ chan' = [chan EXCEPT ![c] = b]
             /\ UNCHANGED <<made, slots, routes, plugged, running, call>>)

AddPort(x, b) ==
    /\ At("add", x, b)
    /\ Calls(x, {"pool", x, b},
             /\ slots' = [slots EXCEPT ![b] = @ \cup {x}]
             /\ UNCHANGED <<made, routes, chan, plugged, running, call>>)

(* What the slot number of x stands for in bridge b.  When the bridge has  *)
(* refused x, the number is unset and may be any other's.  A player and a  *)
(* call are asked for theirs, and answer with none.                        *)
Slot(x, b) ==
    CASE b \notin made -> {}
      [] b \in made /\ x = "call" -> IF call = "active" THEN {x} ELSE {}
      [] b \in made /\ x \in slots[b] \cup {b} -> {x}
      [] OTHER -> IF \E k \in DOMAIN Steps[prog] :
                        Steps[prog][k] = <<"add", x, b>>
                  THEN slots[b] \cup {b} ELSE {}

BridgeOf(x, y) ==
    IF {x, y} \cap Bridges # {} THEN CHOOSE b \in Bridges : b \in {x, y}
    ELSE IF prog = "ics" THEN "pjsua" ELSE "conf"

(* Refused when a number is of no slot. *)
Connect(x, y) ==
    /\ At("route", x, y)
    /\ LET b == BridgeOf(x, y)
       IN  \/ \E u \in Slot(x, b), v \in Slot(y, b) :
                  /\ routes' = routes \cup {<<u, v>>}
                  /\ UNCHANGED failed
          \/ /\ {x, y} \cap Slot(x, b) = {} \/ {x, y} \cap Slot(y, b) = {}
             /\ routes' = routes /\ failed' = TRUE
    /\ Goto(pc + 1)
    /\ UNCHANGED <<made, slots, chan, plugged, running, call>>

(* The device must have the port's format. *)
Fits ==
    CASE prog = "left_right" -> FALSE
      [] prog \in {"splitcomb", "sound_conf"} -> fmt = "8k"
      [] prog \in {"one_file", "pjsua_file", "ring"} -> fmt # "stereo"
      [] OTHER -> TRUE

Plug(d, p) ==
    /\ At("plug", d, p)
    /\ Calls("plug", {d, p},
             /\ Fits
             /\ plugged' = [plugged EXCEPT ![d] = p]
             /\ UNCHANGED <<made, slots, routes, chan, running, call>>)

Start ==
    /\ At("start", "master", "-")
    /\ Calls("start", {"master"},
             /\ running' = TRUE
             /\ UNCHANGED <<made, slots, routes, chan, plugged, call>>)

MakeCall ==
    /\ At("call", "call", "-")
    /\ \/ Calls("call", {"account"}, call' = "calling" /\ UNCHANGED graph)
       \/ prog = "sip" /\ Leave("crashed") /\ UNCHANGED failed

(* simple_ics only: a status is looked at late; ... *)
CheckStatus(x) ==
    /\ At("check", x, "-")
    /\ IF x \in made THEN Goto(pc + 1) /\ UNCHANGED <<graph, call>>
       ELSE Leave("returned")
    /\ UNCHANGED failed

(* ... ENTER, or the end of the input, takes it to its end.                *)
ReadLine ==
    /\ At("enter", "-", "-") /\ Goto(pc + 1)
    /\ UNCHANGED <<failed, graph, call>>

Unplug(d) ==
    /\ At("unplug", d, "-")
    /\ \/ /\ plugged' = [plugged EXCEPT ![d] = "-"] /\ Goto(pc + 1)
          /\ UNCHANGED <<made, slots, routes, chan, running, call>>
       \/ Leave("returned")
    /\ UNCHANGED failed

Return == At("return", "-", "-") /\ Leave("returned") /\ UNCHANGED failed

-----------------------------------------------------------------------------
(* The other party and PJSUA's thread. *)
Answer == /\ ended = "no" /\ call = "calling" /\ call' = "active"
          /\ UNCHANGED <<program, pc, ended, failed, graph, sound>>

HangUp ==
    /\ ended = "no" /\ call \in {"calling", "active"} /\ call' = "over"
    /\ routes' = {e \in routes : e[1] # "call"}
    /\ UNCHANGED <<program, pc, ended, failed, made, slots, chan, plugged,
                   running, sound>>

(* The sources a slot is given sound by. *)
Fed(y) == IF n < MaxFrames THEN {s \in Sources : <<s, y>> \in routes} ELSE {}

Nothing == [o \in Outputs |-> "-"]
Silence == [o \in Outputs |-> {}]
Sides == [o \in Outputs |-> IF o = "one" THEN chan[0] ELSE chan[1]]

(* One turn of a clock.  Each output takes the oldest frame of a buffer;   *)
(* then the sources' next frame goes into the buffers it is given to, or   *)
(* straight to an output.                                                  *)
Carry(taken, given, direct) ==
    LET fed == (\E r \in Revs : given[r] # {}) \/ direct # Silence
        taking(o) == taken[o] \in Revs /\ buf[taken[o]] # <<>>
        rest(r) == IF \E o \in Outputs : taken[o] = r /\ taking(o)
                   THEN Tail(buf[r]) ELSE buf[r]
        full(r) == given[r] # {} /\ Len(rest(r)) = Burst
        kept(r) == IF full(r) THEN Tail(rest(r)) ELSE rest(r)
    IN  /\ n' = IF fed THEN n + 1 ELSE n
        /\ buf' = [r \in Revs |->
                      IF given[r] = {} THEN rest(r)
                      ELSE Append(kept(r), [no |-> n + 1, from |-> given[r]])]
        /\ dropped' = [r \in Revs |->
                          IF full(r) THEN Head(rest(r)).no ELSE dropped[r]]
        /\ last' = [o \in Outputs |->
                       IF direct[o] # {} THEN n + 1
                       ELSE IF taking(o) THEN Head(buf[taken[o]]).no
                       ELSE last[o]]
        /\ heard' = [o \in Outputs |->
                        heard[o] \cup direct[o] \cup
                        (IF taking(o) THEN Head(buf[taken[o]]).from ELSE {})]
        /\ UNCHANGED <<program, pc, ended, failed, graph, call>>

(* The master port's thread. *)
MasterTick ==
    /\ ended = "no" /\ running /\ n < MaxFrames
    /\ LET from == IF prog = "one_file" THEN {"file"} ELSE Fed("pjsua")
       IN  Carry(Nothing,
                 [r \in Revs |-> IF <<"conf", "sc">> \in routes
                                   /\ r \in {chan[0], chan[1]}
                                THEN from ELSE {}],
                 Silence)

(* The threads of the devices, by what they play: a reverse channel; ...   *)
PlaySide(d) ==
    /\ ended = "no" /\ plugged[d] \in Revs
    /\ LET own == IF d = "dev1" THEN "one" ELSE "two"
       IN  Carry([o \in Outputs |-> IF o = own THEN plugged[d] ELSE "-"],
                 [r \in Revs |-> {}], Silence)

(* ... the splitter, whose channel 1 is the bridge; ...                    *)
PlayStereo(d) ==
    /\ ended = "no" /\ plugged[d] = "sc"
    /\ Carry(Sides, [r \in Revs |-> Fed(r)],
             [o \in Outputs |-> IF Sides[o] \in Bridges
                                THEN Fed(Sides[o]) ELSE {}])

(* ... or a bridge, in which the splitter may be.                          *)
PlayBridge(d) ==
    /\ ended = "no" /\ plugged[d] \in Bridges
    /\ Carry(IF <<"sc", plugged[d]>> \in routes THEN Sides ELSE Nothing,
             [r \in Revs |-> Fed(r)],
             [o \in Outputs |-> IF o = "one" THEN Fed(plugged[d]) ELSE {}])

-----------------------------------------------------------------------------
Things == Sources \cup Revs \cup Devices \cup Bridges
             \cup {"pool", "sc", "master", "account"}

Main ==
    \/ CheckArgs \/ Start \/ MakeCall \/ Return
    \/ \E x \in Things :
          \/ Create(x) \/ ReadsNoArgument(x) \/ CreatePlayer(x) \/ Unplug(x)
          \/ CheckStatus(x)
          \/ \E c \in {0, 1} : CreateReverse(x, c) \/ SetChannel(x, c)
          \/ \E y \in Things : AddPort(x, y) \/ Connect(x, y) \/ Plug(x, y)

Device(d) == PlaySide(d) \/ PlayStereo(d) \/ PlayBridge(d)

(* Asleep for ever, or over. *)
Rest == (ended # "no" \/ pc > Len(Steps[prog])) /\ UNCHANGED vars

Next ==
    \/ Main \/ ReadLine \/ Answer \/ HangUp \/ MasterTick
    \/ \E d \in Devices : Device(d)
    \/ Rest

(* All threads run; nobody has to press ENTER or to answer the call. *)
Spec == /\ Init /\ [][Next]_vars
        /\ WF_vars(Main) /\ WF_vars(MasterTick)
        /\ \A d \in Devices : WF_vars(Device(d))

-----------------------------------------------------------------------------
(* What each output is there to play: nothing, for the side of simple_ics  *)
(* that has the bridge's slot 0, and for left_right, whose device is never *)
(* of the splitter's format.                                               *)
Plays ==
    CASE prog \in {"one_file", "pjsua_file"} ->
            [one |-> {"file"}, two |-> {"file"}]
      [] prog = "ring" -> [one |-> {"ring"}, two |-> {"ring"}]
      [] prog = "phone" -> [one |-> {"call"}, two |-> {"call"}]
      [] prog = "splitcomb" -> [one |-> {"file"}, two |-> {"file2"}]
      [] prog \in {"ics", "sound_conf", "pjsua_sound"} ->
            [one |-> {"file"}, two |-> {}]
      [] prog = "mic" -> [one |-> {"mic"}, two |-> {}]
      [] OTHER -> [one |-> {}, two |-> {}]

(* No output plays another source than its own, whatever calls fail before *)
(* and whatever the clocks do.  A port that a bridge has refused leaves an *)
(* unset slot number, which may be another port's: that does no harm but   *)
(* in splitcomb_file2sound.c, where the file of one side may then be heard *)
(* on the other.                                                           *)
Refused ==
    \E k \in 1..(pc - 1) : \E x \in Things, b \in Bridges :
        k \in DOMAIN Steps[prog] /\ Steps[prog][k] = <<"add", x, b>>
        /\ x \notin slots[b]
OwnSource ==
    \/ prog = "splitcomb" /\ Refused
    \/ \A o \in Outputs : heard[o] \subseteq Plays[o]

(* The handles are set before they are used: the program crashes only      *)
(* after a call of its own has failed, or when it is run without an        *)
(* argument that its check lets through.  (sip_streamer.c may crash on the *)
(* unset pointer of its call, but not before the call.)                    *)
CrashNeedsFailure ==
    ended = "crashed" =>
        \/ failed
        \/ prog \in {"one_file", "pjsua_file", "splitcomb"} /\ argc = 3
        \/ prog \in {"ics", "sound_conf"} /\ argc <= 2
        \/ prog = "sip" /\ pc = Len(SipStreamer)

(* An output plays every frame of its source once and in order, and skips  *)
(* only what its buffer had to drop because it was full.                   *)
SkipsOnlyDropped ==
    [][\A o \in Outputs :
          LET gone == dropped[IF o = "one" THEN "rev1" ELSE "rev2"]
          IN  last'[o] \in {last[o], 1 + (IF gone > last[o] THEN gone
                                         ELSE last[o])}]_vars

(* When no call fails, every output plays what it is there to play, unless *)
(* ENTER or a hung-up call comes first.                                    *)
HeardAtLast ==
    <>(failed \/ ended # "no" \/ call = "over"
       \/ \A o \in Outputs : heard[o] = Plays[o])
=============================================================================
