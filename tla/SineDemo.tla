------------------------------ MODULE SineDemo ------------------------------
(***************************************************************************)
(* The whole of custome-media-port.c: main() (module PlaySine), the sound  *)
(* device it opens (SoundPort) and the generator that device calls         *)
(* (SinePort), composed.  The steps of main() and of the device's thread   *)
(* interleave sample by sample: main() may disconnect the generator, sleep *)
(* and go on while the callback is in the middle of its loop.              *)
(*                                                                         *)
(* channel_count is what atoi makes of argv[1]: main() refuses all but     *)
(* mono and stereo, and hands the same number to create_sine_port.         *)
(***************************************************************************)
EXTENDS PlaySine, SinePort

demoVars == <<vars, sineVars>>

DemoInit == Init /\ SineInit

(* main() goes on only with one channel or two. *)
CheckChannels ==
    /\ ReadChannels
    /\ argc >= 2 => (pc' = "pj_init" <=> channel_count \in {1, 2})
    /\ UNCHANGED sineVars

(* The call of create_sine_port from main(). *)
MakePort ==
    /\ CreateSinePort
    /\ IF pc' = "exit1" THEN UNCHANGED sineVars ELSE SineCreate

(* The rest of main() leaves the generator's own state alone. *)
MainOnly ==
    /\ \/ PjInit \/ CachingPoolInit \/ EndptCreate \/ PoolCreate
       \/ CreatePlayer \/ Connect \/ Settle \/ Settled
    /\ UNCHANGED sineVars

DemoSetup == CheckChannels \/ MakePort \/ MainOnly

DemoReadLine == ReadLine /\ UNCHANGED sineVars

DemoTeardown == Teardown /\ UNCHANGED sineVars

(* The device's callback calls the generator if it is the port it read ... *)
CallPort ==
    /\ Load
    /\ IF cb' = "port" THEN Enter ELSE UNCHANGED sineVars

(* ... which writes its samples one by one ... *)
WriteSample == ~Ended /\ cb = "port" /\ Sample /\ UNCHANGED vars

(* ... and the frame is the device's when it returns. *)
TakeFrame ==
    /\ Frame
    /\ IF cb = "port" THEN SineReturn ELSE UNCHANGED sineVars

DemoDevice == CallPort \/ WriteSample \/ TakeFrame

DemoGone == Ended /\ UNCHANGED demoVars

DemoNext == DemoSetup \/ DemoReadLine \/ DemoTeardown \/ DemoDevice \/ DemoGone

(* Both threads run; nobody has to press ENTER. *)
DemoSpec == /\ DemoInit /\ [][DemoNext]_demoVars
            /\ WF_demoVars(DemoSetup) /\ WF_demoVars(DemoTeardown)
            /\ WF_demoVars(DemoDevice)

-----------------------------------------------------------------------------
(* The generator is in its loop exactly while the device waits for it, so  *)
(* that what PlaySine says of the callback is said of every sample.        *)
InStep == ~Ended => (phase = "filling" <=> cb = "port")

(* The generator never writes a sample when it, or the pool its table is   *)
(* in, is gone, and what it works on is the table of the port main() made. *)
LoopOnLiveTable ==
    (phase = "filling" /\ ~Ended) =>
        {"port", "pool", "snd"} \subseteq alive /\ count = table
=============================================================================
