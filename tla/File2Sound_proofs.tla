-------------------------- MODULE File2Sound_proofs --------------------------
(* The safety of file2sound with its unchecked statuses, for every length  *)
(* of the sleeps that is at least two frames.                              *)
EXTENDS File2Sound, TLAPS

USE DEF Playing, Stopping, Over, Early, Unsure, Ended

LEMMA Initially == Init => IInv
<1> SUFFICES ASSUME Init PROVE IInv
  OBVIOUS
<1>1. TypeOK
  <2>1. ticks \in 0..SleepFrames
    BY SleepFramesAssumption DEF Init, SndInit
  <2>2. SndTypeOK
    BY <2>1 DEF Init, SndInit, SndTypeOK
  <2> QED BY <2>2 DEF Init, TypeOK
<1>2. Staged
  BY DEF Init, Staged
<1>3. DeviceInv
  BY DEF Init, SndInit, DeviceInv, SilentWhenDestroyed, HeardBeforeStopped,
         Connected
<1> QED BY <1>1, <1>2, <1>3 DEF IInv

(* Every step keeps the types. *)
LEMMA TypeKeeps == TypeOK /\ [Next]_vars => TypeOK'
<1> SUFFICES ASSUME TypeOK, [Next]_vars PROVE TypeOK'
  OBVIOUS
<1>0. 0 \in 0..SleepFrames
  BY SleepFramesAssumption
<1> USE SleepFramesAssumption DEF TypeOK, SndTypeOK, sndVars
<1>1. CASE CheckArgs
  BY <1>1 DEF CheckArgs, Goto, Nothing
<1>2. CASE PjInit
  BY <1>2 DEF PjInit, Adds, Goto, Fail, Nothing
<1>3. CASE CachingPoolInit
  BY <1>3 DEF CachingPoolInit, Adds, Goto
<1>4. CASE EndptCreate
  BY <1>4 DEF EndptCreate, Adds, Goto, Nothing
<1>5. CASE PoolCreate
  BY <1>5 DEF PoolCreate, Adds, Goto, Nothing
<1>6. CASE WavCreate
  BY <1>6 DEF WavCreate, Adds, Goto, Nothing
<1>7. CASE CreatePlayer
  BY <1>7 DEF CreatePlayer, SndOpen, Goto, Nothing
<1>8. CASE Connect
  BY <1>8 DEF Connect, ConnectCrashes, SndConnect, Goto, Fail, Nothing
<1>9. CASE Settle
  BY <1>0, <1>9 DEF Settle, FallAsleep, Goto
<1>10. CASE Settled
  BY <1>10 DEF Settled, SleptEnough, Goto, Nothing
<1>11. CASE ReadLine
  BY <1>11 DEF ReadLine, Goto, Nothing
<1>12. CASE Disconnect
  BY <1>12 DEF Disconnect, SndDisconnect, Goto, Fail, Nothing
<1>13. CASE Drain
  BY <1>0, <1>13 DEF Drain, FallAsleep, Goto
<1>14. CASE Drained
  BY <1>14 DEF Drained, SleptEnough, Goto, Nothing
<1>15. CASE SndDestroy
  BY <1>15 DEF SndDestroy, SndStop, Fail, Goto, Nothing
<1>16. CASE SndJoin
  BY <1>16 DEF SndJoin, SndClose, Goto
<1>17. CASE PortDestroy
  BY <1>17 DEF PortDestroy, Drops, Goto, Fail, Nothing
<1>18. CASE PoolRelease
  BY <1>18 DEF PoolRelease, Drops, Goto
<1>19. CASE EndptDestroy
  BY <1>19 DEF EndptDestroy, Drops, Goto
<1>20. CASE CachingPoolDestroy
  BY <1>20 DEF CachingPoolDestroy, Drops, Goto
<1>21. CASE Shutdown
  BY <1>21 DEF Shutdown, Drops, Goto
<1>22. CASE Load
  BY <1>22 DEF Load, CbLoad
<1>23. CASE Frame
  <2>1. ticks' \in 0..SleepFrames
    <3>1. ticks \in 0..SleepFrames
      OBVIOUS
    <3>2. ticks' = IF ticks < SleepFrames THEN ticks + 1 ELSE ticks
      BY <1>23, Zenon DEF Frame, CbFrame, CbEnds
    <3> HIDE DEF TypeOK
    <3> QED BY <3>1, <3>2
  <2>2. played' \in BOOLEAN
    BY <1>23, Zenon DEF Frame
  <2>3. heard' \in {"silence", "tone"} /\ cb' = "idle"
    BY <1>23 DEF Frame, CbFrame, CbEnds
  <2> QED BY <1>23, <2>1, <2>2, <2>3 DEF Frame, CbFrame, CbEnds
<1>24. CASE WildFrame
  BY <1>24 DEF WildFrame, Goto, Nothing
<1>25. CASE NoFrame
  BY <1>25 DEF NoFrame, CbRefused, CbEnds
<1>26. CASE UNCHANGED vars
  BY <1>26 DEF vars
<1> QED
  BY <1>1, <1>2, <1>3, <1>4, <1>5, <1>6, <1>7, <1>8, <1>9, <1>10,
     <1>11, <1>12, <1>13, <1>14, <1>15, <1>16, <1>17, <1>18, <1>19, <1>20,
     <1>21, <1>22, <1>23, <1>24, <1>25, <1>26
     DEF Next, Setup, Teardown, Device, Gone

(* Every step leaves main() with what belongs to where it is. *)
LEMMA StageKeeps == IInv /\ [Next]_vars => Staged'
<1> SUFFICES ASSUME TypeOK, Staged, DeviceInv, [Next]_vars PROVE Staged'
  BY DEF IInv
<1> USE DEF Staged, Needed, Connected
<1>1. CASE CheckArgs
  BY <1>1 DEF CheckArgs, Goto, Nothing
<1>2. CASE PjInit
  BY <1>2 DEF PjInit, Adds, Goto, Fail, Nothing
<1>3. CASE CachingPoolInit
  BY <1>3 DEF CachingPoolInit, Adds, Goto
<1>4. CASE EndptCreate
  BY <1>4 DEF EndptCreate, Adds, Goto, Nothing
<1>5. CASE PoolCreate
  BY <1>5 DEF PoolCreate, Adds, Goto, Nothing
<1>6. CASE WavCreate
  BY <1>6 DEF WavCreate, Adds, Goto, Nothing
<1>7. CASE CreatePlayer
  BY <1>7 DEF CreatePlayer, SndOpen, Goto, Nothing
<1>8. CASE Connect
  <2>1. CASE "snd" \in alive /\ Goto("settle") /\ UNCHANGED alive
    <3>1. {"pjlib", "cp", "endpt", "pool", "snd"} \subseteq alive
      BY <1>8, <2>1 DEF Connect
    <3>2. alive \ {"port"} = {"pjlib", "cp", "endpt", "pool", "snd"}
      BY <3>1 DEF TypeOK
    <3> QED BY <2>1, <3>2 DEF Goto
  <2>2. CASE Fail
    BY <2>2 DEF Fail, Goto
  <2>3. CASE ConnectCrashes
    BY <2>3 DEF ConnectCrashes, Goto
  <2> QED BY <1>8, <2>1, <2>2, <2>3 DEF Connect
<1>9. CASE Settle
  BY <1>9 DEF Settle, FallAsleep, Goto
<1>10. CASE Settled
  BY <1>10 DEF Settled, Goto, Nothing
<1>11. CASE ReadLine
  BY <1>11 DEF ReadLine, Goto, Nothing
<1>12. CASE Disconnect
  BY <1>12 DEF Disconnect, SndDisconnect, Goto, Fail, Nothing
<1>13. CASE Drain
  BY <1>13 DEF Drain, FallAsleep, Goto
<1>14. CASE Drained
  BY <1>14 DEF Drained, SleptEnough, Goto, Nothing
<1>15. CASE SndDestroy
  BY <1>15 DEF SndDestroy, SndStop, Fail, Goto, Nothing
<1>16. CASE SndJoin
  BY <1>16 DEF SndJoin, SndClose, Goto
<1>17. CASE PortDestroy
  BY <1>17 DEF PortDestroy, Drops, Goto, Fail, Nothing
<1>18. CASE PoolRelease
  BY <1>18 DEF PoolRelease, Drops, Goto
<1>19. CASE EndptDestroy
  BY <1>19 DEF EndptDestroy, Drops, Goto
<1>20. CASE CachingPoolDestroy
  BY <1>20 DEF CachingPoolDestroy, Drops, Goto
<1>21. CASE Shutdown
  BY <1>21 DEF Shutdown, Drops, Goto
<1>22. CASE Load
  BY <1>22 DEF Load, CbLoad
<1>23. CASE Frame
  BY <1>23 DEF Frame, CbFrame, CbEnds
<1>24. CASE WildFrame
  BY <1>24 DEF WildFrame, Goto, Nothing
<1>25. CASE NoFrame
  BY <1>25 DEF NoFrame, CbRefused, CbEnds
<1>26. CASE UNCHANGED vars
  BY <1>26 DEF vars
<1> QED
  BY <1>1, <1>2, <1>3, <1>4, <1>5, <1>6, <1>7, <1>8, <1>9, <1>10,
     <1>11, <1>12, <1>13, <1>14, <1>15, <1>16, <1>17, <1>18, <1>19, <1>20,
     <1>21, <1>22, <1>23, <1>24, <1>25, <1>26
     DEF Next, Setup, Teardown, Device, Gone

(* Every step keeps the two threads in step. *)
LEMMA DeviceKeeps == IInv /\ [Next]_vars => DeviceInv'
<1> SUFFICES ASSUME TypeOK, Staged, DeviceInv, [Next]_vars PROVE DeviceInv'
  BY DEF IInv
<1>0. /\ cb \in {"idle", "port", "none"} /\ ticks \in 0..SleepFrames
      /\ SleepFrames \in Nat /\ SleepFrames >= 2
  BY SleepFramesAssumption DEF TypeOK, SndTypeOK
<1> USE DEF DeviceInv, SilentWhenDestroyed, HeardBeforeStopped,
        Connected, sndVars
<1>1. CASE CheckArgs
  BY <1>1 DEF CheckArgs, Goto, Nothing
<1>2. CASE PjInit
  BY <1>2 DEF PjInit, Adds, Goto, Fail, Nothing
<1>3. CASE CachingPoolInit
  BY <1>3 DEF CachingPoolInit, Adds, Goto
<1>4. CASE EndptCreate
  BY <1>4 DEF EndptCreate, Adds, Goto, Nothing
<1>5. CASE PoolCreate
  BY <1>5 DEF PoolCreate, Adds, Goto, Nothing
<1>6. CASE WavCreate
  BY <1>6 DEF WavCreate, Adds, Goto, Nothing
<1>7. CASE CreatePlayer
  BY <1>7 DEF Staged, CreatePlayer, SndOpen, Goto, Nothing
<1>8. CASE Connect
  BY <1>8 DEF Connect, ConnectCrashes, SndConnect, Goto, Fail, Nothing
<1>9. CASE Settle
  BY <1>0, <1>9 DEF Settle, FallAsleep, Goto
<1>10. CASE Settled
  BY <1>0, <1>10 DEF Settled, SleptEnough, Goto, Nothing
<1>11. CASE ReadLine
  BY <1>11 DEF ReadLine, Goto, Nothing
<1>12. CASE Disconnect
  BY <1>12 DEF Disconnect, SndDisconnect, Goto, Fail, Nothing
<1>13. CASE Drain
  BY <1>0, <1>13 DEF Drain, FallAsleep, Goto
<1>14. CASE Drained
  BY <1>0, <1>14 DEF Drained, SleptEnough, Goto, Nothing
<1>15. CASE SndDestroy
  <2>1. CASE SndStop /\ Goto("snd_join")
    <3>1. "snd" \in alive /\ heard = "silence" /\ cb # "port"
      BY <1>15 DEF SndDestroy, Staged, Needed
    <3>2. /\ pc = "snd_destroy" /\ pc' = "snd_join" /\ dev' = "stopping"
          /\ UNCHANGED <<conn, cb, heard, ticks, alive, played>>
      BY <1>15, <2>1 DEF SndDestroy, SndStop, Fail, Goto
    <3> QED BY <3>1, <3>2
  <2>2. CASE Fail
    BY <1>15, <2>2 DEF SndDestroy, Fail, Goto, Nothing
  <2> QED BY <1>15, <2>1, <2>2 DEF SndDestroy
<1>16. CASE SndJoin
  BY <1>16 DEF SndJoin, SndClose, Goto
<1>17. CASE PortDestroy
  <2>1. CASE Drops("port") /\ Goto("pool_release")
    BY <1>17, <2>1 DEF PortDestroy, Drops, Goto
  <2>2. CASE Fail
    BY <1>17, <2>2 DEF PortDestroy, Fail, Goto, Nothing
  <2>3. CASE Nothing /\ Goto("crashed")
    BY <1>17, <2>3 DEF PortDestroy, Goto, Nothing
  <2> QED BY <1>17, <2>1, <2>2, <2>3 DEF PortDestroy
<1>18. CASE PoolRelease
  BY <1>18 DEF PoolRelease, Drops, Goto
<1>19. CASE EndptDestroy
  BY <1>19 DEF EndptDestroy, Drops, Goto
<1>20. CASE CachingPoolDestroy
  BY <1>20 DEF CachingPoolDestroy, Drops, Goto
<1>21. CASE Shutdown
  BY <1>21 DEF Staged, Needed, Shutdown, Drops, Goto
<1>22. CASE Load
  BY <1>22 DEF Load, CbLoad
<1>23. CASE Frame
  <2>1. (played => played') /\ (cb = "port" => played')
    BY <1>23, Zenon DEF Frame
  <2>2. /\ pc \notin {"exit0", "exit1", "crashed"}
        /\ cb # "idle" /\ cb' = "idle" /\ (cb = "port" => "port" \in alive)
        /\ heard' = IF cb = "port" THEN "tone" ELSE "silence"
        /\ ticks' = IF ticks < SleepFrames THEN ticks + 1 ELSE ticks
        /\ UNCHANGED <<dev, conn, pc, alive>>
    BY <1>23 DEF Frame, CbFrame, CbEnds
  <2>3. ticks' >= 1 /\ (ticks' >= 2 => ticks >= 1)
    BY <1>0, <2>2
  <2>4. pc \in {"settling", "draining"} /\ ticks >= 1 =>
           (pc = "settling" => cb = "port") /\ (pc = "draining" => cb = "none")
    BY <1>0, <2>2
  <2> QED BY <2>1, <2>2, <2>3, <2>4
<1>24. CASE WildFrame
  BY <1>24 DEF WildFrame, Goto, Nothing
<1>25. CASE NoFrame
  <2>1. /\ pc \notin {"exit0", "exit1", "crashed"}
        /\ cb = "port" /\ cb' = "idle" /\ "port" \notin alive
        /\ heard' = "silence"
        /\ ticks' = IF ticks < SleepFrames THEN ticks + 1 ELSE ticks
        /\ UNCHANGED <<dev, conn, pc, alive, played>>
    BY <1>25 DEF NoFrame, AsksNoPort, CbRefused, CbEnds
  <2> QED BY <1>0, <2>1
<1>26. CASE UNCHANGED vars
  BY <1>26 DEF vars
<1> QED
  BY <1>1, <1>2, <1>3, <1>4, <1>5, <1>6, <1>7, <1>8, <1>9, <1>10,
     <1>11, <1>12, <1>13, <1>14, <1>15, <1>16, <1>17, <1>18, <1>19, <1>20,
     <1>21, <1>22, <1>23, <1>24, <1>25, <1>26
     DEF Next, Setup, Teardown, Device, Gone

(* The inductive invariant holds of every run. *)
THEOREM Inductive == Spec => []IInv
<1>1. IInv /\ [Next]_vars => IInv'
  BY TypeKeeps, StageKeeps, DeviceKeeps DEF IInv
<1> QED BY <1>1, Initially, PTL DEF Spec

(* From the connection on, the file's port is the only handle that may     *)
(* never have been set, in spite of the statuses nobody looks at.          *)
THEOREM HandlesTheorem == Spec => []OnlyPortUnset
<1>1. IInv => OnlyPortUnset
  BY DEF IInv, Staged, Needed, Connected, OnlyPortUnset
<1> QED BY <1>1, Inductive, PTL

(* A file that was opened is heard before main() waits for ENTER.          *)
THEOREM HeardTheorem == Spec => []HeardBeforeStopped
<1>1. IInv => HeardBeforeStopped
  BY DEF IInv, DeviceInv
<1> QED BY <1>1, Inductive, PTL

(* The device is destroyed when it repeats silence. *)
THEOREM SilenceTheorem == Spec => []SilentWhenDestroyed
<1>1. IInv => SilentWhenDestroyed
  BY DEF IInv, DeviceInv
<1> QED BY <1>1, Inductive, PTL

(* Status 0: nothing is left over. *)
THEOREM CleanTheorem == Spec => []CleanExit
<1>1. IInv => CleanExit
  BY DEF IInv, DeviceInv, Staged, Needed, Connected, CleanExit
<1> QED BY <1>1, Inductive, PTL

(* Every step of the program is a step of the abstract player, or none. *)
LEMMA StepRefines == IInv /\ [Next]_vars => [Player!Next]_(Player!vars)
<1> SUFFICES ASSUME IInv, [Next]_vars
             PROVE  [Player!Next]_(Player!vars)
  OBVIOUS
<1>0. TypeOK /\ Staged /\ DeviceInv /\ cb \in {"idle", "port", "none"}
  BY DEF IInv, TypeOK, SndTypeOK
<1> USE <1>0 DEF DeviceInv, SilentWhenDestroyed, HeardBeforeStopped,
        Connected, sndVars, Life,
            Player!vars, Player!Next, Player!Start, Player!Fetch,
            Player!Arrive, Player!Hush, Player!Stop, Player!Leave,
            Player!BreakOff
<1>1. CASE CheckArgs
  BY <1>1 DEF CheckArgs, Goto, Nothing
<1>2. CASE PjInit
  BY <1>2 DEF PjInit, Adds, Goto, Fail, Nothing
<1>3. CASE CachingPoolInit
  BY <1>3 DEF CachingPoolInit, Adds, Goto
<1>4. CASE EndptCreate
  BY <1>4 DEF EndptCreate, Adds, Goto, Nothing
<1>5. CASE PoolCreate
  BY <1>5 DEF PoolCreate, Adds, Goto, Nothing
<1>6. CASE WavCreate
  BY <1>6 DEF WavCreate, Adds, Goto, Nothing
<1>7. CASE CreatePlayer
  BY <1>7 DEF CreatePlayer, SndOpen, Goto, Nothing
<1>8. CASE Connect
  BY <1>8 DEF Connect, ConnectCrashes, SndConnect, Goto, Fail, Nothing
<1>9. CASE Settle
  BY <1>9 DEF Settle, FallAsleep, Goto
<1>10. CASE Settled
  BY <1>10 DEF Settled, SleptEnough, Goto, Nothing
<1>11. CASE ReadLine
  BY <1>11 DEF ReadLine, Goto, Nothing
<1>12. CASE Disconnect
  BY <1>12 DEF Disconnect, SndDisconnect, Goto, Fail, Nothing
<1>13. CASE Drain
  BY <1>13 DEF Drain, FallAsleep, Goto
<1>14. CASE Drained
  BY <1>14 DEF Drained, SleptEnough, Goto, Nothing
<1>15. CASE SndDestroy
  BY <1>15 DEF SndDestroy, SndStop, Fail, Goto, Nothing
<1>16. CASE SndJoin
  BY <1>16 DEF SndJoin, SndClose, Goto
<1>17. CASE PortDestroy
  BY <1>17 DEF PortDestroy, Drops, Goto, Fail, Nothing
<1>18. CASE PoolRelease
  BY <1>18 DEF PoolRelease, Drops, Goto
<1>19. CASE EndptDestroy
  BY <1>19 DEF EndptDestroy, Drops, Goto
<1>20. CASE CachingPoolDestroy
  BY <1>20 DEF CachingPoolDestroy, Drops, Goto
<1>21. CASE Shutdown
  BY <1>21 DEF Shutdown, Drops, Goto
<1>22. CASE Load
  BY <1>22 DEF Load, CbLoad
<1>23. CASE Frame
  <2>1. CASE cb = "port"
    BY <1>23, <2>1 DEF Frame, CbFrame, CbEnds
  <2>2. CASE cb = "none"
    <3>1. Life # "over" /\ Life' = Life /\ heard' = "silence" /\ cb' = "idle"
      BY <1>23, <2>2 DEF Frame, CbFrame, CbEnds, Staged, Needed
    <3> QED BY <2>2, <3>1
  <2> QED BY <1>23, <2>1, <2>2 DEF Frame, CbFrame, CbEnds
<1>24. CASE WildFrame
  <2>1. /\ pc' = "crashed" /\ pc \in Playing \cup Stopping
        /\ heard = "silence" /\ "port" \notin alive
        /\ UNCHANGED <<alive, cb, heard>>
    BY <1>24 DEF WildFrame, AsksNoPort, Goto, Nothing
  <2> QED BY <2>1
<1>25. CASE NoFrame
  BY <1>25 DEF NoFrame, AsksNoPort, CbRefused, CbEnds
<1>26. CASE UNCHANGED vars
  BY <1>26 DEF vars
<1> QED
  BY <1>1, <1>2, <1>3, <1>4, <1>5, <1>6, <1>7, <1>8, <1>9, <1>10,
     <1>11, <1>12, <1>13, <1>14, <1>15, <1>16, <1>17, <1>18, <1>19, <1>20,
     <1>21, <1>22, <1>23, <1>24, <1>25, <1>26
     DEF Next, Setup, Teardown, Device, Gone

(* file2sound implements the abstract player, liveness apart. *)
THEOREM RefinementTheorem == Spec => PlaysBackSafely
<1>1. Init => Player!Init
  BY DEF Init, SndInit, Player!Init, Life
<1> QED BY <1>1, StepRefines, Inductive, PTL DEF Spec, PlaysBackSafely
=============================================================================
