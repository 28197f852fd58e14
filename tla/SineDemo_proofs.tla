--------------------------- MODULE SineDemo_proofs --------------------------
(* The generator, main() with its device, and their composition, in this   *)
(* order.  The composition is a run of each of its parts, so that what is  *)
(* proved of the parts holds of it.                                        *)
EXTENDS SineDemo, TLAPS

-----------------------------------------------------------------------------
(* sine_get_frame stays within its table and its frame, for every frame    *)
(* size and channel count.                                                 *)

(* What the count is, by the number of channels. *)
LEMMA CountValue ==
    ASSUME NEW n \in Nat
    PROVE  /\ n \div 1 = n
           /\ n \div 2 \in Nat
           /\ 2 * (n \div 2) <= n
           /\ n < 2 * (n \div 2) + 2
           /\ (2 * n) \div 2 = n
OBVIOUS

(* Half of the count, rounded up. *)
LEMMA HalfValue ==
    ASSUME count \in Nat
    PROVE  Half \in Nat /\ count <= 2 * Half /\ 2 * Half <= count + 1
BY DEF Half

LEMMA SineInitially == SineInit => SineInv
<1> SUFFICES ASSUME SineInit PROVE SineInv
  OBVIOUS
<1>1. SineTypeOK
  BY DEF SineInit, SineTypeOK
<1>2. channel_count \in Nat /\ 0 * channel_count = 0
  BY ChannelCountsAssumption DEF SineInit
<1> QED BY <1>1, <1>2 DEF SineInit, SineInv

LEMMA SampleKeeps == SineInv /\ Sample => SineInv'
<1> SUFFICES ASSUME SineInv, Sample PROVE SineInv'
  OBVIOUS
<1>1. channel_count \in {1, 2} /\ phase = "filling" /\ i < count
      /\ i \in Nat /\ count \in Nat /\ written \in Nat /\ right \in Nat
  BY DEF SineInv, SineTypeOK, Sample, MoreSamples
<1>2. NextRight(right) \in Nat
  BY <1>1 DEF NextRight
<1>3. SineTypeOK'
  BY <1>1, <1>2 DEF SineInv, SineTypeOK, Sample
<1>4. i' = i + 1 /\ i' <= count' /\ left' = i'
  BY <1>1 DEF SineInv, SineTypeOK, Sample
<1>5. written' = i' * channel_count'
  <2>1. CASE channel_count = 1
    BY <1>1, <2>1 DEF SineInv, Sample
  <2>2. CASE channel_count = 2
    BY <1>1, <2>2 DEF SineInv, Sample
  <2> QED BY <1>1, <2>1, <2>2
<1>6. channel_count' = 2 =>
          right' = 2 * (IF i' < Half' THEN i' ELSE i' - Half') \/ i' = count'
  <2> SUFFICES ASSUME channel_count = 2, i + 1 < count
               PROVE  right' = 2 * (IF i + 1 < Half THEN i + 1
                                    ELSE i + 1 - Half)
    BY <1>1, <1>4 DEF Sample, Half
  <2>1. Half \in Nat /\ count <= 2 * Half /\ 2 * Half <= count + 1
    BY <1>1, HalfValue
  <2>2. right = 2 * (IF i < Half THEN i ELSE i - Half)
    BY <1>1 DEF SineInv
  <2>3. right' = IF right + 2 >= count THEN 0 ELSE right + 2
    BY DEF Sample, NextRight
  <2>4. CASE i < Half
    BY <1>1, <2>1, <2>2, <2>3, <2>4
  <2>5. CASE ~(i < Half)
    BY <1>1, <2>1, <2>2, <2>3, <2>5
  <2> QED BY <2>4, <2>5
<1>7. phase' = "filling" /\ channel_count' \in {1, 2} /\ count' = table'
      /\ table' = spf' \div channel_count' /\ count' = spf' \div channel_count'
  BY <1>1 DEF SineInv, Sample
<1> QED BY <1>3, <1>4, <1>5, <1>6, <1>7 DEF SineInv

LEMMA EnterKeeps == SineInv /\ Enter => SineInv'
<1> SUFFICES ASSUME SineInv, Enter PROVE SineInv'
  OBVIOUS
<1>1. channel_count \in {1, 2} /\ spf \in Nat
  BY FrameSizesAssumption DEF SineInv, SineTypeOK, Enter
<1>2. count' = spf \div channel_count
  BY <1>1, CountValue DEF Enter, FrameBytes
<1>3. count' \in Nat
  BY <1>1, <1>2, CountValue
<1>4. SineTypeOK'
  BY <1>3 DEF SineInv, SineTypeOK, Enter
<1>5. channel_count' = 2 =>
          right' = 2 * (IF i' < Half' THEN i' ELSE i' - Half') \/ i' = count'
  BY <1>3 DEF Enter, Half
<1> QED BY <1>1, <1>2, <1>3, <1>4, <1>5 DEF SineInv, Enter

LEMMA SineStepKeeps == SineInv /\ [SineNext]_sineVars => SineInv'
<1> SUFFICES ASSUME SineInv, [SineNext]_sineVars PROVE SineInv'
  OBVIOUS
<1>1. CASE Refuse
  BY <1>1 DEF SineInv, SineTypeOK, Refuse, Half, loop
<1>2. CASE SineCreate
  <2>1. channel_count \in {1, 2} /\ spf \in Nat
    BY <1>2, FrameSizesAssumption, ChannelCountsAssumption
       DEF SineInv, SineTypeOK, SineCreate
  <2>2. table' \in Nat
    BY <1>2, <2>1, CountValue DEF SineCreate
  <2> QED BY <1>2, <2>1, <2>2 DEF SineInv, SineTypeOK, SineCreate, Half, loop
<1>3. CASE Enter
  BY <1>3, EnterKeeps
<1>4. CASE Sample
  BY <1>4, SampleKeeps
<1>5. CASE SineReturn
  <2>1. i = count
    BY <1>5 DEF SineInv, SineTypeOK, SineReturn, MoreSamples
  <2> QED BY <1>5, <2>1 DEF SineInv, SineTypeOK, SineReturn, Half, loop
<1>6. CASE UNCHANGED sineVars
  BY <1>6 DEF SineInv, SineTypeOK, sineVars, Half
<1> QED BY <1>1, <1>2, <1>3, <1>4, <1>5, <1>6 DEF SineNext, Refused

(* The inductive invariant holds of every run of the generator. *)
THEOREM SineInductive == SineSpec => []SineInv
BY SineInitially, SineStepKeeps, PTL DEF SineSpec

(* No call reads past the end of the table. *)
THEOREM ReadsTheorem == SineSpec => []ReadsInTable
<1>1. SineInv => ReadsInTable
  <2> SUFFICES ASSUME SineInv, phase = "filling", i < count
               PROVE  left < table /\ (channel_count = 2 => right < table)
    BY DEF ReadsInTable, MoreSamples
  <2>1. Half \in Nat /\ count <= 2 * Half /\ 2 * Half <= count + 1
    BY HalfValue DEF SineInv, SineTypeOK
  <2> QED BY <2>1 DEF SineInv, SineTypeOK
<1> QED BY <1>1, SineInductive, PTL

(* No call writes past the frame, and each fills it. *)
THEOREM FillsTheorem == SineSpec => []FillsFrame
<1>1. SineInv => FillsFrame
  <2> SUFFICES ASSUME SineInv PROVE FillsFrame
    OBVIOUS
  <2>1. spf \in Nat /\ i \in Nat /\ count \in Nat /\ channel_count \in Nat
    BY FrameSizesAssumption, ChannelCountsAssumption DEF SineInv, SineTypeOK
  <2>2. CASE i = 0
    <3>1. written = 0
      BY <2>1, <2>2 DEF SineInv
    <3> QED BY <2>1, <2>2, <3>1 DEF FillsFrame
  <2>3. CASE i > 0
    <3>1. channel_count \in {1, 2} /\ count = spf \div channel_count
      BY <2>3 DEF SineInv, SineTypeOK
    <3>2. written <= spf
      <4>1. CASE channel_count = 1
        BY <2>1, <3>1, <4>1, CountValue DEF SineInv
      <4>2. CASE channel_count = 2
        BY <2>1, <3>1, <4>2, CountValue DEF SineInv
      <4> QED BY <3>1, <4>1, <4>2
    <3>3. ASSUME phase = "idle" PROVE spf - written < channel_count
      <4>1. CASE channel_count = 1
        BY <2>1, <2>3, <3>1, <3>3, <4>1, CountValue DEF SineInv
      <4>2. CASE channel_count = 2
        BY <2>1, <2>3, <3>1, <3>3, <4>2, CountValue DEF SineInv
      <4> QED BY <3>1, <4>1, <4>2
    <3> QED BY <3>2, <3>3 DEF FillsFrame
  <2> QED BY <2>1, <2>2, <2>3
<1> QED BY <1>1, SineInductive, PTL

(* The right channel runs at twice the speed of the left one. *)
THEOREM DoubleSpeedTheorem == SineSpec => []RightAtDoubleSpeed
<1>1. SineInv => RightAtDoubleSpeed
  BY DEF SineInv, SineTypeOK, RightAtDoubleSpeed, MoreSamples
<1> QED BY <1>1, SineInductive, PTL

-----------------------------------------------------------------------------
(* The safety of playsine's two threads, for every length of the sleeps    *)
(* that is at least two frames.                                            *)

USE DEF Starting, Playing, Stopping, Afterwards, DeviceOpen, Ended

LEMMA Initially == Init => IInv
<1> SUFFICES ASSUME Init PROVE IInv
  OBVIOUS
<1>1. TypeOK
  <2>1. ticks \in 0..SleepFrames
    BY SleepFramesAssumption DEF Init, SndInit
  <2>2. SndTypeOK
    BY <2>1 DEF Init, SndInit, SndTypeOK
  <2> QED BY <2>2 DEF Init, TypeOK
<1>2. Staged /\ LayersHold
  BY DEF Init, Staged, AliveAt, LayersHold
<1>3. DeviceInv
  BY DEF Init, SndInit, DeviceInv, SilentWhenDestroyed
<1> QED BY <1>1, <1>2, <1>3 DEF IInv

(* Every step keeps the types. *)
LEMMA TypeKeeps == TypeOK /\ [Next]_vars => TypeOK'
<1> SUFFICES ASSUME TypeOK, [Next]_vars PROVE TypeOK'
  OBVIOUS
<1> USE SleepFramesAssumption DEF TypeOK, SndTypeOK, sndVars, Layers
<1>1. CASE ReadChannels
  BY <1>1 DEF ReadChannels, Goto
<1>2. CASE PjInit
  BY <1>2 DEF PjInit, Create, Goto, Fail, Adds
<1>3. CASE CachingPoolInit
  BY <1>3 DEF CachingPoolInit, Adds, Goto
<1>4. CASE EndptCreate
  BY <1>4 DEF EndptCreate, Create, Goto, Fail, Adds
<1>5. CASE PoolCreate
  BY <1>5 DEF PoolCreate, Adds, Goto
<1>6. CASE CreateSinePort
  BY <1>6 DEF CreateSinePort, Adds, Goto, Fail
<1>7. CASE CreatePlayer
  BY <1>7 DEF CreatePlayer, SndOpen, Goto, Fail
<1>8. CASE Connect
  BY <1>8 DEF Connect, SndConnect, Goto, Fail
<1>9. CASE Settle
  BY <1>9 DEF Settle, FallAsleep, Goto
<1>10. CASE Settled
  BY <1>10 DEF Settled, SleptEnough, Goto
<1>11. CASE ReadLine
  BY <1>11 DEF ReadLine, Goto
<1>12. CASE Disconnect
  BY <1>12 DEF Disconnect, SndDisconnect, Goto, Fail
<1>13. CASE Drain
  BY <1>13 DEF Drain, FallAsleep, Goto
<1>14. CASE Drained
  BY <1>14 DEF Drained, SleptEnough, Goto
<1>15. CASE SndDestroy
  BY <1>15 DEF SndDestroy, SndStop, Goto, Fail
<1>16. CASE SndJoin
  BY <1>16 DEF SndJoin, SndClose, Goto
<1>17. CASE PortDestroy
  BY <1>17 DEF PortDestroy, Drops, Goto, Fail
<1>18. CASE PoolRelease
  BY <1>18 DEF PoolRelease, Drops, Goto
<1>19. CASE EndptDestroy
  BY <1>19 DEF EndptDestroy, Drops, Goto
<1>20. CASE CachingPoolDestroy
  BY <1>20 DEF CachingPoolDestroy, Drops, Goto
<1>21. CASE Shutdown
  BY <1>21 DEF Shutdown, Drops, Goto
<1>22. CASE Load
  BY <1>22 DEF Load, CbLoad
<1>23. CASE Frame
  BY <1>23 DEF Frame, CbFrame, CbEnds
<1>24. CASE UNCHANGED vars
  BY <1>24 DEF vars
<1> QED
  BY <1>1, <1>2, <1>3, <1>4, <1>5, <1>6, <1>7, <1>8, <1>9, <1>10,
     <1>11, <1>12, <1>13, <1>14, <1>15, <1>16, <1>17, <1>18, <1>19,
     <1>20, <1>21, <1>22, <1>23, <1>24
     DEF Next, Setup, Teardown, Device, Gone

(* Every step leaves main() with the layers that belong to where it is, or *)
(* ends the program and leaves the layers alone.                           *)
LEMMA StageKeeps ==
    IInv /\ [Next]_vars =>
        Staged' \/ (pc' \in {"exit1", "crashed"} /\ alive' = alive)
<1> SUFFICES ASSUME IInv, [Next]_vars
             PROVE  Staged' \/ (pc' \in {"exit1", "crashed"} /\ alive' = alive)
  OBVIOUS
<1> USE DEF IInv, TypeOK, Staged, AliveAt, Layers, sndVars
<1>1. CASE ReadChannels
  BY <1>1 DEF ReadChannels, Goto
<1>2. CASE PjInit
  BY <1>2 DEF PjInit, Create, Goto, Fail, Adds
<1>3. CASE CachingPoolInit
  BY <1>3 DEF CachingPoolInit, Adds, Goto
<1>4. CASE EndptCreate
  BY <1>4 DEF EndptCreate, Create, Goto, Fail, Adds
<1>5. CASE PoolCreate
  BY <1>5 DEF PoolCreate, Adds, Goto
<1>6. CASE CreateSinePort
  BY <1>6 DEF CreateSinePort, Adds, Goto, Fail
<1>7. CASE CreatePlayer
  BY <1>7 DEF CreatePlayer, SndOpen, Goto, Fail
<1>8. CASE Connect
  BY <1>8 DEF Connect, SndConnect, Goto, Fail
<1>9. CASE Settle
  BY <1>9 DEF Settle, FallAsleep, Goto
<1>10. CASE Settled
  BY <1>10 DEF Settled, SleptEnough, Goto
<1>11. CASE ReadLine
  BY <1>11 DEF ReadLine, Goto
<1>12. CASE Disconnect
  BY <1>12 DEF Disconnect, SndDisconnect, Goto, Fail
<1>13. CASE Drain
  BY <1>13 DEF Drain, FallAsleep, Goto
<1>14. CASE Drained
  BY <1>14 DEF Drained, SleptEnough, Goto
<1>15. CASE SndDestroy
  BY <1>15 DEF SndDestroy, SndStop, Goto, Fail
<1>16. CASE SndJoin
  BY <1>16 DEF SndJoin, SndClose, Goto
<1>17. CASE PortDestroy
  BY <1>17 DEF PortDestroy, Drops, Goto, Fail
<1>18. CASE PoolRelease
  BY <1>18 DEF PoolRelease, Drops, Goto
<1>19. CASE EndptDestroy
  BY <1>19 DEF EndptDestroy, Drops, Goto
<1>20. CASE CachingPoolDestroy
  BY <1>20 DEF CachingPoolDestroy, Drops, Goto
<1>21. CASE Shutdown
  BY <1>21 DEF Shutdown, Drops, Goto
<1>22. CASE Load
  BY <1>22 DEF Load, CbLoad
<1>23. CASE Frame
  BY <1>23 DEF Frame, CbFrame, CbEnds
<1>24. CASE UNCHANGED vars
  BY <1>24 DEF vars
<1> QED
  BY <1>1, <1>2, <1>3, <1>4, <1>5, <1>6, <1>7, <1>8, <1>9, <1>10,
     <1>11, <1>12, <1>13, <1>14, <1>15, <1>16, <1>17, <1>18, <1>19,
     <1>20, <1>21, <1>22, <1>23, <1>24
     DEF Next, Setup, Teardown, Device, Gone

(* In no stage is there a layer without its foundations. *)
LEMMA StagesStand == Staged => LayersHold
<1> SUFFICES ASSUME Staged PROVE LayersHold
  OBVIOUS
<1> USE DEF Staged, AliveAt, Layers, LayersHold, Needs
<1>1. CASE alive = AliveAt(pc)
  BY <1>1
<1>2. CASE pc = "create_sine_port" /\ alive = AliveAt(pc) \ {"pool"}
  BY <1>2
<1> QED BY <1>1, <1>2

(* Every step keeps the two threads in step. *)
LEMMA DeviceKeeps == TypeOK /\ DeviceInv /\ [Next]_vars => DeviceInv'
<1> SUFFICES ASSUME TypeOK, DeviceInv, [Next]_vars PROVE DeviceInv'
  OBVIOUS
<1> USE SleepFramesAssumption
    DEF TypeOK, SndTypeOK, DeviceInv, SilentWhenDestroyed, sndVars
<1>1. CASE ReadChannels
  BY <1>1 DEF ReadChannels, Goto
<1>2. CASE PjInit
  BY <1>2 DEF PjInit, Create, Goto, Fail, Adds
<1>3. CASE CachingPoolInit
  BY <1>3 DEF CachingPoolInit, Adds, Goto
<1>4. CASE EndptCreate
  BY <1>4 DEF EndptCreate, Create, Goto, Fail, Adds
<1>5. CASE PoolCreate
  BY <1>5 DEF PoolCreate, Adds, Goto
<1>6. CASE CreateSinePort
  BY <1>6 DEF CreateSinePort, Adds, Goto, Fail
<1>7. CASE CreatePlayer
  BY <1>7 DEF CreatePlayer, SndOpen, Goto, Fail
<1>8. CASE Connect
  BY <1>8 DEF Connect, SndConnect, Goto, Fail
<1>9. CASE Settle
  BY <1>9 DEF Settle, FallAsleep, Goto
<1>10. CASE Settled
  BY <1>10 DEF Settled, SleptEnough, Goto
<1>11. CASE ReadLine
  BY <1>11 DEF ReadLine, Goto
<1>12. CASE Disconnect
  BY <1>12 DEF Disconnect, SndDisconnect, Goto, Fail
<1>13. CASE Drain
  BY <1>13 DEF Drain, FallAsleep, Goto
<1>14. CASE Drained
  BY <1>14 DEF Drained, SleptEnough, Goto
<1>15. CASE SndDestroy
  <2>1. CASE SndStop /\ Goto("snd_join")
    BY <1>15, <2>1 DEF SndDestroy, SndStop, Goto
  <2>2. CASE Fail
    BY <1>15, <2>2 DEF SndDestroy, Fail, Goto
  <2> QED BY <1>15, <2>1, <2>2 DEF SndDestroy
<1>16. CASE SndJoin
  BY <1>16 DEF SndJoin, SndClose, Goto
<1>17. CASE PortDestroy
  <2>1. CASE Drops("port") /\ Goto("pool_release")
    BY <1>17, <2>1 DEF PortDestroy, Drops, Goto
  <2>2. CASE Fail
    BY <1>17, <2>2 DEF PortDestroy, Fail, Goto
  <2> QED BY <1>17, <2>1, <2>2 DEF PortDestroy
<1>18. CASE PoolRelease
  BY <1>18 DEF PoolRelease, Drops, Goto
<1>19. CASE EndptDestroy
  BY <1>19 DEF EndptDestroy, Drops, Goto
<1>20. CASE CachingPoolDestroy
  BY <1>20 DEF CachingPoolDestroy, Drops, Goto
<1>21. CASE Shutdown
  BY <1>21 DEF Shutdown, Drops, Goto
<1>22. CASE Load
  BY <1>22 DEF Load, CbLoad
<1>23. CASE Frame
  BY <1>23 DEF Frame, CbFrame, CbEnds
<1>24. CASE UNCHANGED vars
  BY <1>24 DEF vars
<1> QED
  BY <1>1, <1>2, <1>3, <1>4, <1>5, <1>6, <1>7, <1>8, <1>9, <1>10,
     <1>11, <1>12, <1>13, <1>14, <1>15, <1>16, <1>17, <1>18, <1>19,
     <1>20, <1>21, <1>22, <1>23, <1>24
     DEF Next, Setup, Teardown, Device, Gone

LEMMA StepKeeps == IInv /\ [Next]_vars => IInv'
<1> SUFFICES ASSUME IInv, [Next]_vars PROVE IInv'
  OBVIOUS
<1>1. TypeOK' /\ DeviceInv'
  BY TypeKeeps, DeviceKeeps DEF IInv
<1>2. Staged' \/ (pc' \in {"exit1", "crashed"} /\ alive' = alive)
  BY StageKeeps
<1>3. Staged' => LayersHold'
  BY StagesStand, PTL
<1>4. alive' = alive => LayersHold'
  BY DEF IInv, LayersHold
<1>5. LayersHold'
  BY <1>2, <1>3, <1>4
<1> QED BY <1>1, <1>2, <1>5 DEF IInv

(* The inductive invariant holds of every run. *)
THEOREM Inductive == Spec => []IInv
BY Initially, StepKeeps, PTL DEF Spec

(* The generator and its pool exist whenever the device is inside it. *)
THEOREM CallbackTheorem == Spec => []CallbackOnLivePort
<1>1. IInv => CallbackOnLivePort
  BY DEF IInv, DeviceInv, Staged, AliveAt, Layers, CallbackOnLivePort
<1> QED BY <1>1, Inductive, PTL

(* No layer outlives the layers it is built on. *)
THEOREM LayersTheorem == Spec => []LayersHold
<1>1. IInv => LayersHold
  BY DEF IInv
<1> QED BY <1>1, Inductive, PTL

(* The device is destroyed when it repeats silence. *)
THEOREM SilenceTheorem == Spec => []SilentWhenDestroyed
<1>1. IInv => SilentWhenDestroyed
  BY DEF IInv, DeviceInv
<1> QED BY <1>1, Inductive, PTL

(* Status 0: the sine was heard and nothing is left over. *)
THEOREM CleanTheorem == Spec => []CleanExit
<1>1. IInv => CleanExit
  BY DEF IInv, DeviceInv, Staged, AliveAt, CleanExit
<1> QED BY <1>1, Inductive, PTL

(* Every step of the program is a step of the abstract player, or none. *)
LEMMA StepRefines == IInv /\ [Next]_vars => [Player!Next]_(Player!vars)
<1> SUFFICES ASSUME IInv, [Next]_vars
             PROVE  [Player!Next]_(Player!vars)
  OBVIOUS
<1> USE DEF IInv, TypeOK, SndTypeOK, DeviceInv, SilentWhenDestroyed, sndVars,
            Life, Player!vars, Player!Next, Player!Start, Player!Fetch,
            Player!Arrive, Player!Hush, Player!Stop, Player!Leave,
            Player!BreakOff
<1>1. CASE ReadChannels
  BY <1>1 DEF ReadChannels, Goto
<1>2. CASE PjInit
  BY <1>2 DEF PjInit, Create, Goto, Fail, Adds
<1>3. CASE CachingPoolInit
  BY <1>3 DEF CachingPoolInit, Adds, Goto
<1>4. CASE EndptCreate
  BY <1>4 DEF EndptCreate, Create, Goto, Fail, Adds
<1>5. CASE PoolCreate
  BY <1>5 DEF PoolCreate, Adds, Goto
<1>6. CASE CreateSinePort
  BY <1>6 DEF CreateSinePort, Adds, Goto, Fail
<1>7. CASE CreatePlayer
  BY <1>7 DEF CreatePlayer, SndOpen, Goto, Fail
<1>8. CASE Connect
  BY <1>8 DEF Connect, SndConnect, Goto, Fail
<1>9. CASE Settle
  BY <1>9 DEF Settle, FallAsleep, Goto
<1>10. CASE Settled
  BY <1>10 DEF Settled, SleptEnough, Goto
<1>11. CASE ReadLine
  BY <1>11 DEF ReadLine, Goto
<1>12. CASE Disconnect
  BY <1>12 DEF Disconnect, SndDisconnect, Goto, Fail
<1>13. CASE Drain
  BY <1>13 DEF Drain, FallAsleep, Goto
<1>14. CASE Drained
  BY <1>14 DEF Drained, SleptEnough, Goto
<1>15. CASE SndDestroy
  BY <1>15 DEF SndDestroy, SndStop, Goto, Fail
<1>16. CASE SndJoin
  BY <1>16 DEF SndJoin, SndClose, Goto
<1>17. CASE PortDestroy
  BY <1>17 DEF PortDestroy, Drops, Goto, Fail
<1>18. CASE PoolRelease
  BY <1>18 DEF PoolRelease, Drops, Goto
<1>19. CASE EndptDestroy
  BY <1>19 DEF EndptDestroy, Drops, Goto
<1>20. CASE CachingPoolDestroy
  BY <1>20 DEF CachingPoolDestroy, Drops, Goto
<1>21. CASE Shutdown
  BY <1>21 DEF Shutdown, Drops, Goto
<1>22. CASE Load
  BY <1>22 DEF Load, CbLoad
<1>23. CASE Frame
  BY <1>23 DEF Frame, CbFrame, CbEnds
<1>24. CASE UNCHANGED vars
  BY <1>24 DEF vars
<1> QED
  BY <1>1, <1>2, <1>3, <1>4, <1>5, <1>6, <1>7, <1>8, <1>9, <1>10,
     <1>11, <1>12, <1>13, <1>14, <1>15, <1>16, <1>17, <1>18, <1>19,
     <1>20, <1>21, <1>22, <1>23, <1>24
     DEF Next, Setup, Teardown, Device, Gone

(* playsine implements the abstract player, liveness apart. *)
THEOREM RefinementTheorem == Spec => PlaysBackSafely
<1>1. Init => Player!Init
  BY DEF Init, SndInit, Player!Init, Life
<1> QED BY <1>1, StepRefines, Inductive, PTL DEF Spec, PlaysBackSafely

-----------------------------------------------------------------------------
(* The composition of main(), the device and the generator is a run of     *)
(* each of its parts, so that what is proved of the parts holds of it.     *)

(* Every step of the composition is a step of main() and its device, or    *)
(* none of theirs.                                                         *)
LEMMA StepOfMain == [DemoNext]_demoVars => [Next]_vars
<1> SUFFICES ASSUME [DemoNext]_demoVars PROVE [Next]_vars
  OBVIOUS
<1>1. CASE DemoSetup
  BY <1>1 DEF DemoSetup, CheckChannels, MakePort, MainOnly, Next, Setup
<1>2. CASE DemoReadLine
  BY <1>2 DEF DemoReadLine, Next
<1>3. CASE DemoTeardown
  BY <1>3 DEF DemoTeardown, Next
<1>4. CASE DemoDevice
  BY <1>4 DEF DemoDevice, CallPort, WriteSample, TakeFrame, Next, Device
<1>5. CASE DemoGone \/ UNCHANGED demoVars
  BY <1>5 DEF DemoGone, demoVars
<1> QED BY <1>1, <1>2, <1>3, <1>4, <1>5 DEF DemoNext

(* And a step of the generator, or none of its own.                        *)
LEMMA StepOfSine == [DemoNext]_demoVars => [SineNext]_sineVars
<1> SUFFICES ASSUME [DemoNext]_demoVars PROVE [SineNext]_sineVars
  OBVIOUS
<1>1. CASE DemoSetup
  BY <1>1 DEF DemoSetup, CheckChannels, MakePort, MainOnly, SineNext
<1>2. CASE DemoReadLine \/ DemoTeardown
  BY <1>2 DEF DemoReadLine, DemoTeardown
<1>3. CASE DemoDevice
  BY <1>3 DEF DemoDevice, CallPort, WriteSample, TakeFrame, SineNext
<1>4. CASE DemoGone \/ UNCHANGED demoVars
  BY <1>4 DEF DemoGone, demoVars
<1> QED BY <1>1, <1>2, <1>3, <1>4 DEF DemoNext

(* The whole program is a run of main() and a run of the generator at once,*)
(* whatever the interleaving of the samples with the steps of main().      *)
THEOREM RunsBothParts ==
    DemoSpec => (Init /\ [][Next]_vars) /\ SineSpec
<1>1. DemoInit => Init /\ SineInit
  BY DEF DemoInit
<1> QED BY <1>1, StepOfMain, StepOfSine, PTL DEF DemoSpec, SineSpec

(* A step of main() that is none of the device's leaves the callback where *)
(* it is.                                                                  *)
LEMMA MainKeepsCallback ==
    Setup \/ ReadLine \/ Teardown => cb' = cb
<1> SUFFICES ASSUME Setup \/ ReadLine \/ Teardown PROVE cb' = cb
  OBVIOUS
<1> USE DEF sndVars, Fail, Goto, Adds, Drops
<1>1. CASE Setup
  BY <1>1 DEF Setup, ReadChannels, PjInit, CachingPoolInit, EndptCreate,
     PoolCreate, CreateSinePort, CreatePlayer, Connect, Settle, Settled,
     Create, SndOpen, SndConnect, FallAsleep
<1>2. CASE ReadLine
  BY <1>2 DEF ReadLine
<1>3. CASE Teardown
  BY <1>3 DEF Teardown, Disconnect, Drain, Drained, SndDestroy, SndJoin,
     PortDestroy, PoolRelease, EndptDestroy, CachingPoolDestroy, Shutdown,
     SndDisconnect, FallAsleep, SndStop, SndClose
<1> QED BY <1>1, <1>2, <1>3

(* A program that has ended stays so. *)
LEMMA StaysEnded == Ended /\ [DemoNext]_demoVars => Ended'
<1> SUFFICES ASSUME Ended, [DemoNext]_demoVars PROVE pc' = pc
  BY DEF Ended
<1>1. ~Setup /\ ~ReadLine /\ ~Teardown
  BY DEF Ended, Setup, ReadChannels, PjInit, CachingPoolInit, EndptCreate,
     PoolCreate, CreateSinePort, CreatePlayer, Connect, Settle, Settled,
     Create, ReadLine, Teardown, Disconnect, Drain, Drained, SndDestroy,
     SndJoin, PortDestroy, PoolRelease, EndptDestroy, CachingPoolDestroy,
     Shutdown
<1>2. [Next]_vars
  BY StepOfMain
<1>3. CASE Device
  BY <1>3 DEF Device, Load, Frame, Ended
<1> QED BY <1>1, <1>2, <1>3 DEF Next, Gone, vars

(* The callback and the loop stay in step. *)
LEMMA InStepKeeps == InStep /\ [DemoNext]_demoVars => InStep'
<1> SUFFICES ASSUME InStep, [DemoNext]_demoVars, ~Ended, ~Ended'
             PROVE  phase' = "filling" <=> cb' = "port"
  BY StaysEnded DEF InStep
<1>1. phase = "filling" <=> cb = "port"
  BY DEF InStep
<1>2. CASE DemoSetup
  <2>1. cb' = cb
    BY <1>2, MainKeepsCallback
       DEF DemoSetup, CheckChannels, MakePort, MainOnly, Setup
  <2>2. phase' = phase \/ (phase = "new" /\ phase' = "idle")
    BY <1>2 DEF DemoSetup, CheckChannels, MakePort, MainOnly, SineCreate,
       sineVars
  <2> QED BY <1>1, <2>1, <2>2
<1>3. CASE DemoReadLine \/ DemoTeardown
  BY <1>1, <1>3, MainKeepsCallback DEF DemoReadLine, DemoTeardown, sineVars
<1>4. CASE DemoDevice
  <2>1. CASE CallPort
    BY <1>1, <2>1 DEF CallPort, Load, CbLoad, Enter, sineVars
  <2>2. CASE WriteSample
    BY <1>1, <2>2 DEF WriteSample, Sample, vars, sndVars
  <2>3. CASE TakeFrame
    BY <1>1, <2>3 DEF TakeFrame, Frame, CbFrame, CbEnds, SineReturn, sineVars
  <2> QED BY <1>4, <2>1, <2>2, <2>3 DEF DemoDevice
<1>5. CASE DemoGone \/ UNCHANGED demoVars
  BY <1>1, <1>5 DEF DemoGone, demoVars, vars, sndVars, sineVars
<1> QED BY <1>2, <1>3, <1>4, <1>5 DEF DemoNext

(* No sample is written to a table that is gone, whatever main() does      *)
(* while the generator is in the middle of its loop.                       *)
THEOREM LiveTableTheorem == DemoSpec => []LoopOnLiveTable
<1>1. DemoInit => InStep /\ IInv /\ SineInv
  BY Initially, SineInitially
     DEF DemoInit, Init, SndInit, SineInit, InStep
<1>2. IInv /\ SineInv /\ InStep /\ [DemoNext]_demoVars
        => (IInv /\ SineInv /\ InStep)'
  BY StepOfMain, StepOfSine, StepKeeps, SineStepKeeps, InStepKeeps
<1>3. IInv /\ SineInv /\ InStep => LoopOnLiveTable
  <2> SUFFICES ASSUME IInv, SineInv, InStep, phase = "filling", ~Ended
               PROVE  {"port", "pool", "snd"} \subseteq alive /\ count = table
    BY DEF LoopOnLiveTable
  <2>1. cb = "port" /\ count = table
    BY DEF InStep, SineInv
  <2>2. pc \in Playing \cup Stopping
    BY <2>1 DEF IInv, DeviceInv
  <2> QED
    BY <2>1, <2>2 DEF IInv, Staged, AliveAt, Layers, Playing, Stopping
<1> QED BY <1>1, <1>2, <1>3, PTL DEF DemoSpec

(* The properties of the parts are properties of the whole program: its    *)
(* layers stand and come down in order, a clean exit is clean, it plays    *)
(* back as a player should, and no sample is read or written out of place. *)
THEOREM WholeTheorem ==
    DemoSpec => /\ []LayersHold /\ []CleanExit /\ PlaysBackSafely
                /\ []ReadsInTable /\ []FillsFrame /\ []RightAtDoubleSpeed
<1>1. IInv => LayersHold /\ CleanExit
  BY DEF IInv, DeviceInv, Staged, AliveAt, CleanExit
<1>2. Init => Player!Init
  BY DEF Init, SndInit, Player!Init, Life
<1>3. DemoSpec => []LayersHold /\ []CleanExit /\ PlaysBackSafely
  BY <1>1, <1>2, RunsBothParts, Initially, StepKeeps, StepRefines, PTL
     DEF PlaysBackSafely
<1> QED
  BY <1>3, RunsBothParts, ReadsTheorem, FillsTheorem, DoubleSpeedTheorem, PTL
=============================================================================
