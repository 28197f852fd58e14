---------------------------- MODULE StreamDemos ----------------------------
(***************************************************************************)
(* The programs that stream over UDP on one host.                          *)
(*   sender, receiver: test_pj_stream_original.c with the argument 0, or   *)
(*     another one: two RTP streams, each to a sound device of its own     *)
(*   internal: internal_stream.c, which sends and plays in one process     *)
(*   same: same_endpt.c, a sender nobody feeds beside a player             *)
(*   threads: pthread_endpoints.c, a sender that joins a thread it never   *)
(*     created                                                             *)
(* They share the ports, and are killed and run again: none of them ends   *)
(* by itself.  Hardly any status is looked at; PJMEDIA refuses the NULL    *)
(* handles that result.                                                    *)
(*                                                                         *)
(* A program is the sequence of its steps; `pc' is the step it is at, 0    *)
(* when it does not run.  What feeds a bridge's master port is left out;   *)
(* only whether a stream is fed matters.                                   *)
(***************************************************************************)
EXTENDS Integers, Sequences, FiniteSets, RtpStream

CONSTANTS
    Sessions,    \* the sets of programs that are run together
    MaxKills     \* bound: how often a program is killed and run again

SenderSteps ==
    << <<"create", "s1">>, <<"create", "s2">>, <<"add", "s1">>,
       <<"connect", "s1">>, <<"add", "s2">>, <<"connect", "s2">>,
       <<"clock", "s1">>, <<"start", "s1">>, <<"start", "s2">> >>

ReceiverSteps ==
    << <<"create", "r1">>, <<"create", "r2">>, <<"device", "r1">>,
       <<"device", "r2">>, <<"start", "r1">>, <<"start", "r2">> >>

(* The second stream is never started. *)
InternalSteps ==
    << <<"create", "i1">>, <<"create", "i2">>, <<"create", "i3">>,
       <<"device", "i3">>, <<"start", "i3">>, <<"add", "i1">>,
       <<"add", "i2">>, <<"connect", "i1">>, <<"connect", "i2">>,
       <<"clock", "i1">>, <<"start", "i1">> >>

SameSteps ==
    << <<"create", "e1">>, <<"start", "e1">>, <<"create", "e2">>,
       <<"device", "e2">>, <<"start", "e2">> >>

(* The status of the clock is looked at. *)
ThreadsSteps ==
    << <<"create", "t1">>, <<"create", "t2">>, <<"add", "t1">>,
       <<"connect", "t1">>, <<"add", "t2">>, <<"connect", "t2">>,
       <<"checked_clock", "t1">>, <<"start", "t1">>, <<"start", "t2">>,
       <<"join", "t1">> >>

Programs == {"sender", "receiver", "internal", "same", "threads"}

Steps(r) ==
    CASE r = "sender" -> SenderSteps
      [] r = "receiver" -> ReceiverSteps
      [] r = "internal" -> InternalSteps
      [] r = "same" -> SameSteps
      [] r = "threads" -> ThreadsSteps

Streams(r) == {Steps(r)[n][2] : n \in DOMAIN Steps(r)}

Local(s) ==
    CASE s \in {"s1", "i1", "i2", "e1", "t1"} -> 4000
      [] s \in {"s2", "t2"} -> 4002
      [] s \in {"r1", "i3"} -> 6070
      [] s \in {"r2", "e2"} -> 6072

Encoders == {"s1", "s2", "i1", "i2", "e1", "t1", "t2"}
Decoders == {"r1", "r2", "i3", "e2"}

(* A slip: every stream is sent to one port. *)
RemoteSame == [s \in Encoders |-> 6070]
Remote == [s \in Encoders |-> IF s \in {"s2", "i2", "t2"} THEN 6072 ELSE 6070]

ASSUME IdsAssumption == Ids = Encoders \cup Decoders
ASSUME UdpPortsAssumption == UdpPorts = {Local(s) : s \in Ids}
ASSUME SessionsAssumption == Sessions \subseteq SUBSET Programs
ASSUME MaxKillsAssumption == MaxKills \in Nat

VARIABLES
    session, \* the programs that are run
    pc,      \* per program: the number of its next step, or 0
    conf,    \* per program: the streams in slots 1, 2 of its bridge
    routes,  \* per program: the slots its bridge's slot 0 feeds
    clock,   \* the programs whose master port runs
    device,  \* the streams that are played by a device
    heard,   \* per stream: the streams its device has played
    kills

Bridge == <<conf, routes, clock>>
Output == <<device, heard>>
own == <<session, pc, Bridge, Output, kills>>
vars == <<own, rtpVars>>

Init ==
    /\ session \in Sessions
    /\ pc = [r \in Programs |-> IF r \in session THEN 1 ELSE 0]
    /\ conf = [r \in Programs |-> <<>>]
    /\ routes = [r \in Programs |-> {}]
    /\ clock = {}
    /\ device = {} /\ heard = [d \in Decoders |-> {}]
    /\ kills = 0
    /\ RtpInit
    \* a stranger's port matters only if it is wanted
    /\ \A p \in UdpPorts : owner[p] = "other" =>
          \E r \in session : \E s \in Streams(r) : Local(s) = p

-----------------------------------------------------------------------------
Serving(r) == pc[r] = Len(Steps(r)) + 1

(* Program r is about to do `op' for stream s. *)
At(r, op, s) ==
    /\ pc[r] \in DOMAIN Steps(r)
    /\ Steps(r)[pc[r]] = <<op, s>>

Advance(r) == pc' = [pc EXCEPT ![r] = @ + 1] /\ UNCHANGED <<session, kills>>

(* create_stream: its two calls. *)
CreateTransport(r, s) ==
    /\ At(r, "create", s) /\ owner[Local(s)] # s
    /\ \/ Bind(s, Local(s)) /\ UNCHANGED <<session, pc, kills>>
       \/ BindRefused(Local(s)) /\ Advance(r)
    /\ UNCHANGED <<Bridge, Output>>

CreateStream(r, s) ==
    /\ At(r, "create", s) /\ owner[Local(s)] = s
    /\ Make(s) \/ MakeFails(s)
    /\ Advance(r)
    /\ UNCHANGED <<Bridge, Output>>

(* pjmedia_conf_add_port, whose status is not looked at: it refuses the    *)
(* port of a NULL stream, and may refuse any.                              *)
Add(r, s) ==
    /\ At(r, "add", s)
    /\ \/ stream[s] # "null" /\ conf' = [conf EXCEPT ![r] = Append(@, s)]
       \/ conf' = conf
    /\ Advance(r)
    /\ UNCHANGED <<routes, clock, Output, rtpVars>>

(* The slot number of a stream.  One that was refused has none: the        *)
(* variable it would be in is unset.                                       *)
Slot(r, s) ==
    LET slots == {n \in DOMAIN conf[r] : conf[r][n] = s}
    IN  IF slots # {} THEN slots ELSE 0..3

(* A slip: the bridge believes the slot number. *)
ConnectAnything(r, s) ==
    /\ At(r, "connect", s)
    /\ \E n \in Slot(r, s) : routes' = [routes EXCEPT ![r] = @ \cup {n}]
    /\ Advance(r)
    /\ UNCHANGED <<conf, clock, Output, rtpVars>>

(* pjmedia_conf_connect_port from slot 0, refused unless the slot is used. *)
Connect(r, s) ==
    /\ At(r, "connect", s)
    /\ \E n \in Slot(r, s) :
          routes' = [routes EXCEPT ![r] = @ \cup ({n} \cap 0..Len(conf[r]))]
    /\ Advance(r)
    /\ UNCHANGED <<conf, clock, Output, rtpVars>>

(* The master port, created and started; its status is lost. *)
StartClock(r, s) ==
    /\ At(r, "clock", s)
    /\ clock' \in {clock, clock \cup {r}}
    /\ Advance(r)
    /\ UNCHANGED <<conf, routes, Output, rtpVars>>

(* The process is gone, and what it held with it; it is at step n again.   *)
Leaves(r, n) ==
    /\ pc' = [pc EXCEPT ![r] = n]
    /\ Gone(Streams(r))
    /\ conf' = [conf EXCEPT ![r] = <<>>]
    /\ routes' = [routes EXCEPT ![r] = {}]
    /\ clock' = clock \ {r}
    /\ device' = device \ Streams(r)
    /\ heard' = [d \in Decoders |-> IF d \in Streams(r) THEN {} ELSE heard[d]]
    /\ UNCHANGED session

(* Without a clock, pthread_endpoints returns. *)
StartCheckedClock(r, s) ==
    /\ At(r, "checked_clock", s)
    /\ \/ /\ clock' = clock \cup {r} /\ Advance(r)
          /\ UNCHANGED <<conf, routes, Output, rtpVars>>
       \/ Leaves(r, 0) /\ UNCHANGED kills

(* The sound device is made and connected to the stream. *)
OpenDevice(r, s) ==
    /\ At(r, "device", s)
    /\ \/ stream[s] # "null" /\ device' = device \cup {s}
       \/ device' = device
    /\ Advance(r)
    /\ UNCHANGED <<Bridge, heard, rtpVars>>

(* A slip: the first stream only is started, as in internal_stream.c. *)
StartFirst(r, s) ==
    /\ At(r, "start", s)
    /\ IF s \in {"s2", "t2"} THEN UNCHANGED rtpVars ELSE Start(s)
    /\ Advance(r)
    /\ UNCHANGED <<Bridge, Output>>

StartStream(r, s) ==
    /\ At(r, "start", s)
    /\ Start(s)
    /\ Advance(r)
    /\ UNCHANGED <<Bridge, Output>>

(* The creation of the thread is commented out, the join is not: the       *)
(* handle is whatever the stack held.                                      *)
JoinUnset(r, s) ==
    /\ At(r, "join", s)
    /\ \/ Advance(r) /\ UNCHANGED <<Bridge, Output, rtpVars>>
       \/ Leaves(r, 0) /\ UNCHANGED kills

-----------------------------------------------------------------------------
(* The master port's thread: a frame for every stream that is fed. *)
Tick(r) ==
    /\ r \in clock
    /\ Send({conf[r][slot] : slot \in routes[r] \ {0}}, Remote)
    /\ UNCHANGED own

(* The network and sound threads of a player. *)
Play(d) ==
    /\ d \in device
    /\ \E pkt \in wire :
          /\ Receives(d, pkt)
          /\ heard' = [heard EXCEPT ![d] = @ \cup {pkt.from}]
    /\ UNCHANGED <<session, pc, Bridge, device, kills>>

Loss == (\E pkt \in wire : Lose(pkt)) /\ UNCHANGED own

(* Killed, wherever it is, and run again. *)
Kill(r) ==
    /\ r \in session
    /\ kills < MaxKills /\ kills' = kills + 1
    /\ Leaves(r, 1)

(* Nothing left to do but sleep. *)
Sleep ==
    /\ \A r \in session : Serving(r) \/ pc[r] = 0
    /\ UNCHANGED vars

Main(r) ==
    \E s \in Ids :
        \/ CreateTransport(r, s) \/ CreateStream(r, s) \/ Add(r, s)
        \/ Connect(r, s) \/ StartClock(r, s) \/ StartCheckedClock(r, s)
        \/ OpenDevice(r, s) \/ StartStream(r, s) \/ JoinUnset(r, s)

Next ==
    \/ \E r \in Programs : Main(r) \/ Tick(r) \/ Kill(r)
    \/ \E d \in Decoders : Play(d)
    \/ Loss \/ Sleep

(* The programs run, their clocks tick, and the network does not lose the  *)
(* packets of a stream for ever.                                           *)
Spec == /\ Init /\ [][Next]_vars
        /\ \A r \in Programs : WF_vars(Main(r)) /\ WF_vars(Tick(r))
        /\ \A d \in Decoders : SF_vars(Play(d))

-----------------------------------------------------------------------------
(* The shape of every variable. *)
TypeOK ==
    /\ session \in Sessions
    /\ \A r \in Programs :
          /\ pc[r] \in 0..(Len(Steps(r)) + 1)
          /\ \E m \in 0..2 : conf[r] \in [1..m -> Encoders]
          /\ routes[r] \subseteq 0..Len(conf[r])
    /\ clock \subseteq Programs
    /\ device \subseteq Decoders
    /\ heard \in [Decoders -> SUBSET Ids]
    /\ kills \in 0..MaxKills
    /\ RtpTypeOK

(* The first and the second stream of a program are for the first and the  *)
(* second player.  No player plays the other one, whatever failed in       *)
(* either process, whatever the unset slot numbers hold, and whatever a    *)
(* killed process has left on the network.                                 *)
First == {"s1", "i1", "e1", "t1", "r1", "i3"}
NoCrosstalk ==
    \A d \in Decoders :
        heard[d] \subseteq (IF d \in First THEN First ELSE Ids \ First)

(* No port is kept by a transport that has no stream: a program that is    *)
(* run after a failure finds it free.                                      *)
NoOrphanTransport ==
    \A p \in UdpPorts : \A r \in Programs : \A s \in Streams(r) :
        owner[p] = s => stream[s] # "null" \/ At(r, "create", s)

(* A stream that both sides have made, in a bridge with a clock on one     *)
(* side and with a device on the other, is heard in the end, in whatever   *)
(* order the programs are run, and run again.                              *)
(* (Only the second stream of internal_stream.c is made and never started: *)
(* it exists when the first one could not be made.)                        *)
Pairs == {<<"s1", "r1">>, <<"s2", "r2">>, <<"i1", "i3">>, <<"s2", "e2">>}
Made(s, d) ==
    /\ \E r \in clock : \E slot \in DOMAIN conf[r] : conf[r][slot] = s
    /\ d \in device
    /\ stream[s] # "null" /\ stream[d] # "null"
HeardWhenMade ==
    \A p \in Pairs : <>[]Made(p[1], p[2]) => <>[](heard[p[2]] # {})
=============================================================================
