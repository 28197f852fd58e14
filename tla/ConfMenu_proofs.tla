--------------------------- MODULE ConfMenu_proofs ---------------------------
(* The conference demo's safety, for any number of files, any levels and   *)
(* any number of commands.                                                 *)
EXTENDS ConfMenu, WellFoundedInduction, TLAPS

USE DEF Before, Filling, MenuUp, After, BridgeUp, Ended

LEMMA Numbering ==
    /\ PortCount \in Int
    /\ Slots \subseteq Int
    /\ Files \subseteq Int
    /\ 1 \in 1..(NFiles + 1)
    /\ \A n \in 1..(NFiles + 1) : n \in Int
    /\ \A n \in 1..(NFiles + 1) :
          n <= NFiles => n \in Ports /\ n \in Files /\ n + 1 \in 1..(NFiles + 1)
BY NFilesAssumption DEF PortCount, RECORDER, Slots, Ports, Files

LEMMA BridgeTypeQuiet == BridgeTypeOK /\ UNCHANGED bridgeVars => BridgeTypeOK'
BY DEF BridgeTypeOK, bridgeVars

(* The bridge's calls keep the types of its state. *)
LEMMA AddPortTyped ==
    ASSUME BridgeTypeOK, NEW p \in Ports, AddPort(p)
    PROVE  BridgeTypeOK'
<1>1. slot' \in [Slots -> Ports \cup {Sound, Empty}]
  BY DEF BridgeTypeOK, AddPort
<1> QED BY <1>1 DEF BridgeTypeOK, AddPort

LEMMA ConnectTyped ==
    ASSUME BridgeTypeOK, NEW a, NEW b,
           ConnectPort(a, b) \/ DisconnectPort(a, b)
    PROVE  BridgeTypeOK'
<1>1. CASE {a, b} \subseteq Occupied
  <2>1. a \in Slots /\ b \in Slots
    BY <1>1 DEF Occupied
  <2>2. listeners[a] \cup {b} \in SUBSET Slots
        /\ listeners[a] \ {b} \in SUBSET Slots
    BY <2>1 DEF BridgeTypeOK
  <2>3. listeners' \in [Slots -> SUBSET Slots]
    BY <1>1, <2>1, <2>2 DEF BridgeTypeOK, ConnectPort, DisconnectPort
  <2> QED BY <2>3 DEF BridgeTypeOK, ConnectPort, DisconnectPort
<1>2. CASE ~({a, b} \subseteq Occupied)
  BY <1>2 DEF BridgeTypeOK, ConnectPort, DisconnectPort
<1> QED BY <1>1, <1>2

LEMMA AdjustTyped ==
    ASSUME BridgeTypeOK, NEW a, NEW d \in {"t", "r"}, NEW n \in Int,
           AdjustLevel(a, d, n)
    PROVE  BridgeTypeOK'
<1>1. CASE a \in Occupied
  <2>1. a \in Slots
    BY <1>1 DEF Occupied
  <2>2. [adj[a] EXCEPT ![d] = n] \in [{"t", "r"} -> Int]
    BY <2>1 DEF BridgeTypeOK
  <2>3. adj' = [adj EXCEPT ![a] = [adj[a] EXCEPT ![d] = n]]
    BY <1>1 DEF AdjustLevel
  <2>4. adj' \in [Slots -> [{"t", "r"} -> Int]]
    BY <2>1, <2>2, <2>3 DEF BridgeTypeOK
  <2> QED BY <2>4 DEF BridgeTypeOK, AdjustLevel
<1>2. CASE a \notin Occupied
  BY <1>2 DEF BridgeTypeOK, AdjustLevel
<1> QED BY <1>1, <1>2

(* Every step keeps the types of the program's own variables. *)
LEMMA OwnTypeKeeps == OwnTypeOK /\ [Next]_vars => OwnTypeOK'
<1> SUFFICES ASSUME OwnTypeOK, [Next]_vars PROVE OwnTypeOK'
  OBVIOUS
<1> USE DEF OwnTypeOK, dialog, Commands
<1>1. CASE PjInit
  BY <1>1 DEF PjInit, Adds, Fail, Quietly
<1>2. CASE Options
  BY <1>2 DEF Options, Adds, Fail, Quietly
<1>3. CASE EndptCreate
  BY <1>3 DEF EndptCreate, Adds, Fail, Quietly
<1>4. CASE PoolCreate
  BY <1>4 DEF PoolCreate, Quietly
<1>5. CASE CreateBridge
  BY <1>5 DEF CreateBridge, OnBridge, Quietly, Fail
<1>6. CASE CreateRecorder
  BY <1>6 DEF CreateRecorder, Quietly, Fail, Ports
<1>7. CASE AddRecorder
  BY <1>7 DEF AddRecorder, OnBridge
<1>8. CASE CreateFile
  <2>1. i \in Ports
    BY <1>8, Numbering DEF CreateFile
  <2> QED BY <1>8, <2>1 DEF CreateFile, Quietly, Fail
<1>9. CASE AddFile
  BY <1>9, Numbering DEF AddFile, OnBridge, Fail, Quietly
<1>10. CASE FilesAdded
  BY <1>10 DEF FilesAdded, Quietly
<1>11. CASE ListPorts
  BY <1>11 DEF ListPorts, InMenu, Quietly
<1>12. CASE InputEnds
  BY <1>12 DEF InputEnds, InMenu
<1>13. CASE Select
  BY <1>13 DEF Select, BackToMenu, InMenu
<1>14. CASE Quit
  BY <1>14 DEF Quit, InMenu, Quietly
<1>15. CASE Cancel
  BY <1>15 DEF Cancel, Prompted, BackToMenu, GivesUp, InMenu
<1>16. CASE AnswerFirst
  <2>1. CASE /\ src' \in Slots /\ UNCHANGED <<dst, level>>
            /\ Answers(<<src'>>) /\ pc' = "second"
    BY <1>16, <2>1, Numbering DEF AnswerFirst, Answers, InMenu
  <2>2. CASE Refuses
    BY <1>16, <2>2 DEF AnswerFirst, Refuses, GivesUp, BackToMenu, InMenu
  <2> QED BY <1>16, <2>1, <2>2 DEF AnswerFirst
<1>17. CASE AnswerDestination
  <2>1. CASE /\ dst' \in Slots /\ UNCHANGED <<src, level>>
            /\ Answers(<<asked[1], dst'>>) /\ pc' = "apply"
    BY <1>17, <2>1, Numbering DEF AnswerDestination, Answers, InMenu
  <2>2. CASE Refuses
    BY <1>17, <2>2 DEF AnswerDestination, Refuses, GivesUp, BackToMenu, InMenu
  <2> QED BY <1>17, <2>1, <2>2 DEF AnswerDestination
<1>18. CASE AnswerLevel
  <2>1. CASE /\ level' \in Levels /\ level' >= -128 /\ UNCHANGED <<src, dst>>
            /\ Answers(<<asked[1], level'>>) /\ pc' = "apply"
    BY <1>18, <2>1, LevelsAssumption DEF AnswerLevel, Answers, InMenu
  <2>2. CASE Refuses
    BY <1>18, <2>2 DEF AnswerLevel, Refuses, GivesUp, BackToMenu, InMenu
  <2> QED BY <1>18, <2>1, <2>2 DEF AnswerLevel
<1>19. CASE AnswerMeter
  <2>1. CASE /\ Answers(asked) /\ UNCHANGED <<src, dst, level>>
            /\ pc' \in {"third", "monitor"}
    BY <1>19, <2>1 DEF AnswerMeter, Answers, InMenu
  <2>2. CASE Refuses
    BY <1>19, <2>2 DEF AnswerMeter, Refuses, GivesUp, BackToMenu, InMenu
  <2> QED BY <1>19, <2>1, <2>2 DEF AnswerMeter
<1>20. CASE Monitor
  BY <1>20 DEF Monitor, BackToMenu, GivesUp, InMenu
<1>21. CASE ApplyConnect
  BY <1>21 DEF ApplyConnect, Applies, BackToMenu, InMenu
<1>22. CASE ApplyDisconnect
  BY <1>22 DEF ApplyDisconnect, Applies, BackToMenu, InMenu
<1>23. CASE ApplyTx
  BY <1>23 DEF ApplyTx, Applies, BackToMenu, InMenu
<1>24. CASE ApplyRx
  BY <1>24 DEF ApplyRx, Applies, BackToMenu, InMenu
<1>25. CASE ConfDestroy
  BY <1>25 DEF ConfDestroy, OnBridge, InMenu, Fail, Quietly
<1>26. CASE ConfDestroyed
  BY <1>26, Numbering DEF ConfDestroyed, OnBridge
<1>27. CASE FileDestroy
  <2>1. i <= NFiles => i + 1 \in 1..(NFiles + 1)
    BY Numbering
  <2> QED BY <1>27, <2>1 DEF FileDestroy, Quietly, Fail
<1>28. CASE RecDestroy
  BY <1>28 DEF RecDestroy, Quietly
<1>29. CASE PoolRelease
  BY <1>29 DEF PoolRelease, Drops, Quietly
<1>30. CASE EndptDestroy
  BY <1>30 DEF EndptDestroy, Drops, Quietly
<1>31. CASE CachingPoolDestroy
  BY <1>31 DEF CachingPoolDestroy, Drops, Quietly
<1>32. CASE Shutdown
  BY <1>32 DEF Shutdown, Drops, Quietly
<1>33. CASE Tick
  BY <1>33 DEF Tick, OwnVars
<1>34. CASE UNCHANGED vars
  BY <1>34 DEF vars
<1> QED
  BY <1>1, <1>2, <1>3, <1>4, <1>5, <1>6, <1>7, <1>8, <1>9,
     <1>10, <1>11, <1>12, <1>13, <1>14, <1>15, <1>16, <1>17, <1>18,
     <1>19, <1>20, <1>21, <1>22, <1>23, <1>24, <1>25, <1>26, <1>27,
     <1>28, <1>29, <1>30, <1>31, <1>32, <1>33, <1>34
     DEF Next, Setup, Dialog, Apply, Teardown, Gone

(* Every step keeps the types of the bridge's variables. *)
LEMMA BridgeTypeKeeps == TypeOK /\ [Next]_vars => BridgeTypeOK'
<1> SUFFICES ASSUME TypeOK, [Next]_vars PROVE BridgeTypeOK'
  OBVIOUS
<1> USE BridgeTypeQuiet DEF dialog, TypeOK
<1>1. CASE PjInit
  BY <1>1 DEF PjInit, Adds, Fail, Quietly
<1>2. CASE Options
  BY <1>2 DEF Options, Adds, Fail, Quietly
<1>3. CASE EndptCreate
  BY <1>3 DEF EndptCreate, Adds, Fail, Quietly
<1>4. CASE PoolCreate
  BY <1>4 DEF PoolCreate, Quietly
<1>5. CASE CreateBridge
  BY <1>5 DEF CreateBridge, ConfCreate, BridgeTypeOK, Quietly, Fail
<1>6. CASE CreateRecorder
  BY <1>6 DEF CreateRecorder, Quietly, Fail
<1>7. CASE AddRecorder
  <2>1. Recorder \in Ports
    BY DEF Ports
  <2> QED BY <1>7, <2>1, AddPortTyped DEF AddRecorder
<1>8. CASE CreateFile
  BY <1>8 DEF CreateFile, Quietly, Fail
<1>9. CASE AddFile
  <2>1. i \in Ports
    BY <1>9, Numbering DEF AddFile, OwnTypeOK
  <2> QED BY <1>9, <2>1, AddPortTyped DEF AddFile, Fail, Quietly
<1>10. CASE FilesAdded
  BY <1>10 DEF FilesAdded, Quietly
<1>11. CASE ListPorts
  BY <1>11 DEF ListPorts, InMenu, Quietly
<1>12. CASE InputEnds
  BY <1>12 DEF InputEnds, InMenu
<1>13. CASE Select
  BY <1>13 DEF Select, BackToMenu, InMenu
<1>14. CASE Quit
  BY <1>14 DEF Quit, InMenu, Quietly
<1>15. CASE Cancel
  BY <1>15 DEF Cancel, Prompted, BackToMenu, GivesUp, InMenu
<1>16. CASE AnswerFirst
  BY <1>16 DEF AnswerFirst, Answers, Refuses, GivesUp, BackToMenu, InMenu
<1>17. CASE AnswerDestination
  BY <1>17 DEF AnswerDestination, Answers, Refuses, GivesUp, BackToMenu, InMenu
<1>18. CASE AnswerLevel
  BY <1>18 DEF AnswerLevel, Answers, Refuses, GivesUp, BackToMenu, InMenu
<1>19. CASE AnswerMeter
  BY <1>19 DEF AnswerMeter, Answers, Refuses, GivesUp, BackToMenu, InMenu
<1>20. CASE Monitor
  BY <1>20 DEF Monitor, BackToMenu, GivesUp, InMenu
<1>21. CASE ApplyConnect
  BY <1>21, ConnectTyped DEF ApplyConnect
<1>22. CASE ApplyDisconnect
  BY <1>22, ConnectTyped DEF ApplyDisconnect
<1>23. CASE ApplyTx
  BY <1>23, AdjustTyped DEF ApplyTx, OwnTypeOK
<1>24. CASE ApplyRx
  BY <1>24, AdjustTyped DEF ApplyRx, OwnTypeOK
<1>25. CASE ConfDestroy
  BY <1>25 DEF ConfDestroy, ConfStop, Fail, Quietly, BridgeTypeOK
<1>26. CASE ConfDestroyed
  BY <1>26 DEF ConfDestroyed, ConfJoin, BridgeTypeOK
<1>27. CASE FileDestroy
  BY <1>27 DEF FileDestroy, Quietly, Fail
<1>28. CASE RecDestroy
  BY <1>28 DEF RecDestroy, Quietly
<1>29. CASE PoolRelease
  BY <1>29 DEF PoolRelease, Drops, Quietly
<1>30. CASE EndptDestroy
  BY <1>30 DEF EndptDestroy, Drops, Quietly
<1>31. CASE CachingPoolDestroy
  BY <1>31 DEF CachingPoolDestroy, Drops, Quietly
<1>32. CASE Shutdown
  BY <1>32 DEF Shutdown, Drops, Quietly
<1>33. CASE Tick
  <2>1. at' \in Slots \cup {Idle}
    BY <1>33, NFilesAssumption
       DEF Tick, TickBegin, TickStep, BridgeTypeOK, Slots, PortCount, RECORDER,
           Idle
  <2> QED BY <1>33, <2>1 DEF Tick, TickBegin, TickStep, BridgeTypeOK
<1>34. CASE UNCHANGED vars
  BY <1>34 DEF vars
<1> QED
  BY <1>1, <1>2, <1>3, <1>4, <1>5, <1>6, <1>7, <1>8, <1>9,
     <1>10, <1>11, <1>12, <1>13, <1>14, <1>15, <1>16, <1>17, <1>18,
     <1>19, <1>20, <1>21, <1>22, <1>23, <1>24, <1>25, <1>26, <1>27,
     <1>28, <1>29, <1>30, <1>31, <1>32, <1>33, <1>34
     DEF Next, Setup, Dialog, Apply, Teardown, Gone

(* Every step keeps the bridge in phase with the program. *)
LEMMA PhasesKeep == IInv /\ [Next]_vars => Phases'
<1> SUFFICES ASSUME IInv, [Next]_vars PROVE Phases'
  OBVIOUS
<1> USE DEF IInv, TypeOK, OwnTypeOK, Phases, dialog, bridgeVars, Unlocked, Prompted
<1>1. CASE PjInit
  BY <1>1 DEF PjInit, Adds, Fail, Quietly
<1>2. CASE Options
  BY <1>2 DEF Options, Adds, Fail, Quietly
<1>3. CASE EndptCreate
  BY <1>3 DEF EndptCreate, Adds, Fail, Quietly
<1>4. CASE PoolCreate
  BY <1>4 DEF PoolCreate, Quietly
<1>5. CASE CreateBridge
  BY <1>5 DEF CreateBridge, ConfCreate, OnBridge, Quietly, Fail
<1>6. CASE CreateRecorder
  BY <1>6 DEF CreateRecorder, Quietly, Fail
<1>7. CASE AddRecorder
  BY <1>7 DEF AddRecorder, AddPort, OnBridge
<1>8. CASE CreateFile
  BY <1>8 DEF CreateFile, Quietly, Fail
<1>9. CASE AddFile
  BY <1>9 DEF AddFile, AddPort, OnBridge, Fail, Quietly
<1>10. CASE FilesAdded
  BY <1>10 DEF FilesAdded, Quietly
<1>11. CASE ListPorts
  BY <1>11 DEF ListPorts, InMenu, Quietly
<1>12. CASE InputEnds
  BY <1>12 DEF InputEnds, InMenu
<1>13. CASE Select
  BY <1>13 DEF Select, BackToMenu, InMenu
<1>14. CASE Quit
  BY <1>14 DEF Quit, InMenu, Quietly
<1>15. CASE Cancel
  BY <1>15 DEF Cancel, Prompted, BackToMenu, GivesUp, InMenu
<1>16. CASE AnswerFirst
  BY <1>16 DEF AnswerFirst, Answers, Refuses, GivesUp, BackToMenu, InMenu
<1>17. CASE AnswerDestination
  BY <1>17 DEF AnswerDestination, Answers, Refuses, GivesUp, BackToMenu, InMenu
<1>18. CASE AnswerLevel
  BY <1>18 DEF AnswerLevel, Answers, Refuses, GivesUp, BackToMenu, InMenu
<1>19. CASE AnswerMeter
  BY <1>19 DEF AnswerMeter, Answers, Refuses, GivesUp, BackToMenu, InMenu
<1>20. CASE Monitor
  BY <1>20 DEF Monitor, BackToMenu, GivesUp, InMenu
<1>21. CASE ApplyConnect
  BY <1>21 DEF ApplyConnect, Applies, ConnectPort, BackToMenu, InMenu
<1>22. CASE ApplyDisconnect
  BY <1>22 DEF ApplyDisconnect, Applies, DisconnectPort, BackToMenu, InMenu
<1>23. CASE ApplyTx
  BY <1>23 DEF ApplyTx, Applies, AdjustLevel, BackToMenu, InMenu
<1>24. CASE ApplyRx
  BY <1>24 DEF ApplyRx, Applies, AdjustLevel, BackToMenu, InMenu
<1>25. CASE ConfDestroy
  BY <1>25 DEF ConfDestroy, ConfStop, InMenu, OnBridge, Fail, Quietly
<1>26. CASE ConfDestroyed
  BY <1>26 DEF ConfDestroyed, ConfJoin, OnBridge
<1>27. CASE FileDestroy
  BY <1>27 DEF FileDestroy, Quietly, Fail
<1>28. CASE RecDestroy
  BY <1>28 DEF RecDestroy, Quietly
<1>29. CASE PoolRelease
  BY <1>29 DEF PoolRelease, Drops, Quietly
<1>30. CASE EndptDestroy
  BY <1>30 DEF EndptDestroy, Drops, Quietly
<1>31. CASE CachingPoolDestroy
  BY <1>31 DEF CachingPoolDestroy, Drops, Quietly
<1>32. CASE Shutdown
  BY <1>32 DEF Shutdown, Drops, Quietly
<1>33. CASE Tick
  BY <1>33 DEF Tick, TickBegin, TickStep, OwnVars
<1>34. CASE UNCHANGED vars
  BY <1>34 DEF vars
<1> QED
  BY <1>1, <1>2, <1>3, <1>4, <1>5, <1>6, <1>7, <1>8, <1>9,
     <1>10, <1>11, <1>12, <1>13, <1>14, <1>15, <1>16, <1>17, <1>18,
     <1>19, <1>20, <1>21, <1>22, <1>23, <1>24, <1>25, <1>26, <1>27,
     <1>28, <1>29, <1>30, <1>31, <1>32, <1>33, <1>34
     DEF Next, Setup, Dialog, Apply, Teardown, Gone

(* Every step leaves only existing ports in the slots. *)
LEMMA SlotsKeep == IInv /\ [Next]_vars => SlotsInUse'
<1> SUFFICES ASSUME IInv, [Next]_vars PROVE SlotsInUse'
  OBVIOUS
<1> USE DEF IInv, TypeOK, OwnTypeOK, BridgeTypeOK, Phases, SlotsInUse, dialog, bridgeVars,
        Unlocked, Occupied
<1>1. CASE PjInit
  BY <1>1 DEF PjInit, Adds, Fail, Quietly
<1>2. CASE Options
  BY <1>2 DEF Options, Adds, Fail, Quietly
<1>3. CASE EndptCreate
  BY <1>3 DEF EndptCreate, Adds, Fail, Quietly
<1>4. CASE PoolCreate
  BY <1>4 DEF PoolCreate, Quietly
<1>5. CASE CreateBridge
  BY <1>5 DEF CreateBridge, ConfCreate, OnBridge, Quietly, Fail
<1>6. CASE CreateRecorder
  BY <1>6 DEF CreateRecorder, Quietly, Fail
<1>7. CASE AddRecorder
  <2>1. CASE AddPort(Recorder) /\ pc' = "files" /\ live' = live
    <3>1. Sound # Empty /\ Recorder # Empty
      BY NFilesAssumption DEF Sound, Empty, Recorder
    <3>2. \A s \in Slots : slot'[s] = slot[s] \/ slot'[s] = Recorder
      BY <2>1 DEF AddPort
    <3>3. Recorder \in live /\ listeners' = listeners /\ clock' = clock
      BY <1>7, <2>1 DEF AddRecorder, AddPort
    <3>4. clock = "running"
      BY <1>7 DEF AddRecorder
    <3> QED BY <2>1, <3>1, <3>2, <3>3, <3>4
  <2>2. CASE UNCHANGED bridgeVars
    BY <1>7, <2>2 DEF AddRecorder, OnBridge
  <2> QED BY <1>7, <2>1, <2>2 DEF AddRecorder
<1>8. CASE CreateFile
  BY <1>8 DEF CreateFile, Quietly, Fail
<1>9. CASE AddFile
  <2>1. CASE AddPort(i) /\ pc' = "files" /\ live' = live
    <3>1. Sound # Empty /\ i # Empty
      BY NFilesAssumption DEF Sound, Empty, Recorder
    <3>2. \A s \in Slots : slot'[s] = slot[s] \/ slot'[s] = i
      BY <2>1 DEF AddPort
    <3>3. i \in live /\ listeners' = listeners /\ clock' = clock
      BY <1>9, <2>1 DEF AddFile, AddPort
    <3>4. clock = "running"
      BY <1>9 DEF AddFile
    <3> QED BY <2>1, <3>1, <3>2, <3>3, <3>4
  <2>2. CASE UNCHANGED bridgeVars
    BY <1>9, <2>2 DEF AddFile, OnBridge, Fail, Quietly
  <2> QED BY <1>9, <2>1, <2>2 DEF AddFile, Fail, Quietly
<1>10. CASE FilesAdded
  BY <1>10 DEF FilesAdded, Quietly
<1>11. CASE ListPorts
  BY <1>11 DEF ListPorts, InMenu, Quietly
<1>12. CASE InputEnds
  BY <1>12 DEF InputEnds, InMenu
<1>13. CASE Select
  BY <1>13 DEF Select, BackToMenu, InMenu
<1>14. CASE Quit
  BY <1>14 DEF Quit, InMenu, Quietly
<1>15. CASE Cancel
  BY <1>15 DEF Cancel, Prompted, BackToMenu, GivesUp, InMenu
<1>16. CASE AnswerFirst
  BY <1>16 DEF AnswerFirst, Answers, Refuses, GivesUp, BackToMenu, InMenu
<1>17. CASE AnswerDestination
  BY <1>17 DEF AnswerDestination, Answers, Refuses, GivesUp, BackToMenu, InMenu
<1>18. CASE AnswerLevel
  BY <1>18 DEF AnswerLevel, Answers, Refuses, GivesUp, BackToMenu, InMenu
<1>19. CASE AnswerMeter
  BY <1>19 DEF AnswerMeter, Answers, Refuses, GivesUp, BackToMenu, InMenu
<1>20. CASE Monitor
  BY <1>20 DEF Monitor, BackToMenu, GivesUp, InMenu
<1>21. CASE ApplyConnect
  BY <1>21 DEF ApplyConnect, Applies, ConnectPort, BackToMenu, InMenu
<1>22. CASE ApplyDisconnect
  BY <1>22 DEF ApplyDisconnect, Applies, DisconnectPort, BackToMenu, InMenu
<1>23. CASE ApplyTx
  BY <1>23 DEF ApplyTx, Applies, AdjustLevel, BackToMenu, InMenu
<1>24. CASE ApplyRx
  BY <1>24 DEF ApplyRx, Applies, AdjustLevel, BackToMenu, InMenu
<1>25. CASE ConfDestroy
  BY <1>25 DEF ConfDestroy, ConfStop, InMenu, OnBridge, Fail, Quietly
<1>26. CASE ConfDestroyed
  BY <1>26 DEF ConfDestroyed, ConfJoin, OnBridge
<1>27. CASE FileDestroy
  <2>1. clock = "gone" /\ bridgeVars' = bridgeVars /\ pc' \in {"file_destroy", "exit1"}
    BY <1>27 DEF FileDestroy, Quietly, Fail
  <2> QED BY <2>1
<1>28. CASE RecDestroy
  <2>1. clock = "gone" /\ bridgeVars' = bridgeVars /\ pc' = "pool_release"
    BY <1>28 DEF RecDestroy, Quietly
  <2> QED BY <2>1
<1>29. CASE PoolRelease
  BY <1>29 DEF PoolRelease, Drops, Quietly
<1>30. CASE EndptDestroy
  BY <1>30 DEF EndptDestroy, Drops, Quietly
<1>31. CASE CachingPoolDestroy
  BY <1>31 DEF CachingPoolDestroy, Drops, Quietly
<1>32. CASE Shutdown
  BY <1>32 DEF Shutdown, Drops, Quietly
<1>33. CASE Tick
  BY <1>33 DEF Tick, TickBegin, TickStep, OwnVars
<1>34. CASE UNCHANGED vars
  BY <1>34 DEF vars
<1> QED
  BY <1>1, <1>2, <1>3, <1>4, <1>5, <1>6, <1>7, <1>8, <1>9,
     <1>10, <1>11, <1>12, <1>13, <1>14, <1>15, <1>16, <1>17, <1>18,
     <1>19, <1>20, <1>21, <1>22, <1>23, <1>24, <1>25, <1>26, <1>27,
     <1>28, <1>29, <1>30, <1>31, <1>32, <1>33, <1>34
     DEF Next, Setup, Dialog, Apply, Teardown, Gone

(* What is still to be destroyed has a number, the recorder apart. *)
LEMMA LiveNumbered ==
    ASSUME IInv
    PROVE  \A p \in live : p = Recorder \/ (p \in Int /\ p <= NFiles)
<1>1. live \subseteq Ports \cup {Unclosed}
  BY DEF IInv, TypeOK, OwnTypeOK
<1>2. \A p \in Ports \cup {Unclosed} :
         p = Recorder \/ (p \in Int /\ p <= NFiles)
  BY NFilesAssumption DEF Ports, Files, Unclosed
<1> QED BY <1>1, <1>2, Zenon

(* Every step of the teardown leaves less. *)
LEMMA LeftoversKeep == IInv /\ [Next]_vars => Leftovers'
<1> SUFFICES ASSUME IInv, [Next]_vars PROVE Leftovers'
  OBVIOUS
<1> USE DEF IInv, TypeOK, OwnTypeOK, Leftovers, Phases, dialog, bridgeVars
<1>1. CASE PjInit
  BY <1>1 DEF PjInit, Adds, Fail, Quietly
<1>2. CASE Options
  BY <1>2 DEF Options, Adds, Fail, Quietly
<1>3. CASE EndptCreate
  BY <1>3 DEF EndptCreate, Adds, Fail, Quietly
<1>4. CASE PoolCreate
  BY <1>4 DEF PoolCreate, Quietly
<1>5. CASE CreateBridge
  BY <1>5 DEF CreateBridge, ConfCreate, OnBridge, Quietly, Fail
<1>6. CASE CreateRecorder
  <2>1. Recorder # Unclosed
    BY DEF Recorder, Unclosed
  <2>2. Unclosed \notin live
    BY <1>6 DEF CreateRecorder
  <2>3. live' \in {live, live \cup {Recorder}} /\ pc' \in {"rec_add", "exit1"}
    BY <1>6 DEF CreateRecorder, Fail
  <2>4. Unclosed \notin live'
    BY <2>1, <2>2, <2>3
  <2> QED BY <2>3, <2>4
<1>7. CASE AddRecorder
  BY <1>7 DEF AddRecorder, AddPort, OnBridge
<1>8. CASE CreateFile
  <2>1. i # Unclosed
    BY Numbering, NFilesAssumption DEF Unclosed
  <2>2. Unclosed \notin live
    BY <1>8 DEF CreateFile
  <2>3. live' \in {live, live \cup {i}} /\ pc' \in {"file_add", "exit1"}
    BY <1>8 DEF CreateFile, Fail
  <2>4. Unclosed \notin live'
    BY <2>1, <2>2, <2>3
  <2> QED BY <2>3, <2>4
<1>9. CASE AddFile
  BY <1>9 DEF AddFile, AddPort, OnBridge, Fail, Quietly
<1>10. CASE FilesAdded
  BY <1>10 DEF FilesAdded, Quietly
<1>11. CASE ListPorts
  BY <1>11 DEF ListPorts, InMenu, Quietly
<1>12. CASE InputEnds
  BY <1>12 DEF InputEnds, InMenu
<1>13. CASE Select
  BY <1>13 DEF Select, BackToMenu, InMenu
<1>14. CASE Quit
  BY <1>14 DEF Quit, InMenu, Quietly
<1>15. CASE Cancel
  BY <1>15 DEF Cancel, Prompted, BackToMenu, GivesUp, InMenu
<1>16. CASE AnswerFirst
  BY <1>16 DEF AnswerFirst, Answers, Refuses, GivesUp, BackToMenu, InMenu
<1>17. CASE AnswerDestination
  BY <1>17 DEF AnswerDestination, Answers, Refuses, GivesUp, BackToMenu, InMenu
<1>18. CASE AnswerLevel
  BY <1>18 DEF AnswerLevel, Answers, Refuses, GivesUp, BackToMenu, InMenu
<1>19. CASE AnswerMeter
  BY <1>19 DEF AnswerMeter, Answers, Refuses, GivesUp, BackToMenu, InMenu
<1>20. CASE Monitor
  BY <1>20 DEF Monitor, BackToMenu, GivesUp, InMenu
<1>21. CASE ApplyConnect
  BY <1>21 DEF ApplyConnect, Applies, ConnectPort, BackToMenu, InMenu
<1>22. CASE ApplyDisconnect
  BY <1>22 DEF ApplyDisconnect, Applies, DisconnectPort, BackToMenu, InMenu
<1>23. CASE ApplyTx
  BY <1>23 DEF ApplyTx, Applies, AdjustLevel, BackToMenu, InMenu
<1>24. CASE ApplyRx
  BY <1>24 DEF ApplyRx, Applies, AdjustLevel, BackToMenu, InMenu
<1>25. CASE ConfDestroy
  BY <1>25 DEF ConfDestroy, ConfStop, InMenu, OnBridge, Fail, Quietly
<1>26. CASE ConfDestroyed
  <2>1. Unclosed \notin live
    BY <1>26 DEF ConfDestroyed
  <2>2. \A p \in live : p = Recorder \/ p >= 1
    BY <2>1, NFilesAssumption DEF Ports, Files
  <2> QED BY <1>26, <2>1, <2>2 DEF ConfDestroyed
<1>27. CASE FileDestroy
  <2>1. CASE Fail
    BY <1>27, <2>1 DEF FileDestroy, Fail
  <2>2. CASE live' = live \ {i} /\ i' = i + 1 /\ pc' = pc
    <3>1. \A p \in live : p = Recorder \/ p \in Int
      BY LiveNumbered, Zenon
    <3>2. \A p \in live' : p = Recorder \/ p >= i'
      BY <1>27, <2>2, <3>1, Numbering DEF FileDestroy
    <3> QED BY <1>27, <2>2, <3>2 DEF FileDestroy
  <2> QED BY <1>27, <2>1, <2>2 DEF FileDestroy
<1>28. CASE RecDestroy
  <2>1. \A p \in live : p = Recorder \/ (p \in Int /\ p <= NFiles)
    BY LiveNumbered, Zenon
  <2>2. i \in Int /\ NFiles \in Int /\ i > NFiles
    BY <1>28, Numbering, NFilesAssumption DEF RecDestroy
  <2>3. live' \subseteq {Unclosed}
    <3>1. live \subseteq {Recorder}
      BY <1>28, <2>1, <2>2 DEF RecDestroy
    <3> QED BY <1>28, <3>1 DEF RecDestroy
  <2> QED BY <1>28, <2>3 DEF RecDestroy
<1>29. CASE PoolRelease
  BY <1>29 DEF PoolRelease, Drops, Quietly
<1>30. CASE EndptDestroy
  BY <1>30 DEF EndptDestroy, Drops, Quietly
<1>31. CASE CachingPoolDestroy
  BY <1>31 DEF CachingPoolDestroy, Drops, Quietly
<1>32. CASE Shutdown
  BY <1>32 DEF Shutdown, Drops, Quietly
<1>33. CASE Tick
  BY <1>33 DEF Tick, TickBegin, TickStep, OwnVars
<1>34. CASE UNCHANGED vars
  BY <1>34 DEF vars
<1> QED
  BY <1>1, <1>2, <1>3, <1>4, <1>5, <1>6, <1>7, <1>8, <1>9,
     <1>10, <1>11, <1>12, <1>13, <1>14, <1>15, <1>16, <1>17, <1>18,
     <1>19, <1>20, <1>21, <1>22, <1>23, <1>24, <1>25, <1>26, <1>27,
     <1>28, <1>29, <1>30, <1>31, <1>32, <1>33, <1>34
     DEF Next, Setup, Dialog, Apply, Teardown, Gone

(* No answer is used in another dialog. *)
LEMMA AnsweredKeep == IInv /\ [Next]_vars => Answered'
<1> SUFFICES ASSUME IInv, [Next]_vars PROVE Answered'
  OBVIOUS
<1> USE DEF IInv, TypeOK, OwnTypeOK, Answered, dialog, Commands
<1>1. CASE PjInit
  BY <1>1 DEF PjInit, Adds, Fail, Quietly
<1>2. CASE Options
  BY <1>2 DEF Options, Adds, Fail, Quietly
<1>3. CASE EndptCreate
  BY <1>3 DEF EndptCreate, Adds, Fail, Quietly
<1>4. CASE PoolCreate
  BY <1>4 DEF PoolCreate, Quietly
<1>5. CASE CreateBridge
  BY <1>5 DEF CreateBridge, ConfCreate, OnBridge, Quietly, Fail
<1>6. CASE CreateRecorder
  BY <1>6 DEF CreateRecorder, Quietly, Fail
<1>7. CASE AddRecorder
  BY <1>7 DEF AddRecorder, AddPort, OnBridge
<1>8. CASE CreateFile
  BY <1>8 DEF CreateFile, Quietly, Fail
<1>9. CASE AddFile
  BY <1>9 DEF AddFile, AddPort, OnBridge, Fail, Quietly
<1>10. CASE FilesAdded
  BY <1>10 DEF FilesAdded, Quietly
<1>11. CASE ListPorts
  BY <1>11 DEF ListPorts, InMenu, Quietly
<1>12. CASE InputEnds
  BY <1>12 DEF InputEnds, InMenu
<1>13. CASE Select
  BY <1>13 DEF Select, BackToMenu, InMenu
<1>14. CASE Quit
  BY <1>14 DEF Quit, InMenu, Quietly
<1>15. CASE Cancel
  BY <1>15 DEF Cancel, Prompted, BackToMenu, GivesUp, InMenu
<1>16. CASE AnswerFirst
  <2>1. CASE /\ src' \in Slots /\ UNCHANGED <<dst, level>>
            /\ Answers(<<src'>>) /\ pc' = "second"
    BY <1>16, <2>1 DEF AnswerFirst, Answers
  <2>2. CASE Refuses
    BY <1>16, <2>2 DEF Refuses, GivesUp, BackToMenu
  <2> QED BY <1>16, <2>1, <2>2 DEF AnswerFirst
<1>17. CASE AnswerDestination
  <2>1. CASE /\ dst' \in Slots /\ UNCHANGED <<src, level>>
            /\ Answers(<<asked[1], dst'>>) /\ pc' = "apply"
    <3>1. asked[1] = src /\ src \in Slots /\ src' = src /\ cmd' = cmd
      BY <1>17, <2>1 DEF AnswerDestination, Answers
    <3>2. asked' = <<src', dst'>>
      BY <2>1, <3>1 DEF Answers
    <3> QED BY <1>17, <2>1, <3>1, <3>2 DEF AnswerDestination
  <2>2. CASE Refuses
    BY <1>17, <2>2 DEF Refuses, GivesUp, BackToMenu
  <2> QED BY <1>17, <2>1, <2>2 DEF AnswerDestination
<1>18. CASE AnswerLevel
  <2>1. CASE /\ level' \in Levels /\ level' >= -128 /\ UNCHANGED <<src, dst>>
            /\ Answers(<<asked[1], level'>>) /\ pc' = "apply"
    <3>1. asked[1] = src /\ src \in Slots /\ src' = src /\ cmd' = cmd
      BY <1>18, <2>1 DEF AnswerLevel, Answers
    <3>2. asked' = <<src', level'>>
      BY <2>1, <3>1 DEF Answers
    <3> QED BY <1>18, <2>1, <3>1, <3>2 DEF AnswerLevel
  <2>2. CASE Refuses
    BY <1>18, <2>2 DEF Refuses, GivesUp, BackToMenu
  <2> QED BY <1>18, <2>1, <2>2 DEF AnswerLevel
<1>19. CASE AnswerMeter
  BY <1>19 DEF AnswerMeter, Answers, Refuses, GivesUp, BackToMenu, InMenu
<1>20. CASE Monitor
  BY <1>20 DEF Monitor, BackToMenu, GivesUp, InMenu
<1>21. CASE ApplyConnect
  BY <1>21 DEF ApplyConnect, Applies, ConnectPort, BackToMenu, InMenu
<1>22. CASE ApplyDisconnect
  BY <1>22 DEF ApplyDisconnect, Applies, DisconnectPort, BackToMenu, InMenu
<1>23. CASE ApplyTx
  BY <1>23 DEF ApplyTx, Applies, AdjustLevel, BackToMenu, InMenu
<1>24. CASE ApplyRx
  BY <1>24 DEF ApplyRx, Applies, AdjustLevel, BackToMenu, InMenu
<1>25. CASE ConfDestroy
  BY <1>25 DEF ConfDestroy, ConfStop, InMenu, OnBridge, Fail, Quietly
<1>26. CASE ConfDestroyed
  BY <1>26 DEF ConfDestroyed, ConfJoin, OnBridge
<1>27. CASE FileDestroy
  BY <1>27 DEF FileDestroy, Quietly, Fail
<1>28. CASE RecDestroy
  BY <1>28 DEF RecDestroy, Quietly
<1>29. CASE PoolRelease
  BY <1>29 DEF PoolRelease, Drops, Quietly
<1>30. CASE EndptDestroy
  BY <1>30 DEF EndptDestroy, Drops, Quietly
<1>31. CASE CachingPoolDestroy
  BY <1>31 DEF CachingPoolDestroy, Drops, Quietly
<1>32. CASE Shutdown
  BY <1>32 DEF Shutdown, Drops, Quietly
<1>33. CASE Tick
  BY <1>33 DEF Tick, TickBegin, TickStep, OwnVars
<1>34. CASE UNCHANGED vars
  BY <1>34 DEF vars
<1> QED
  BY <1>1, <1>2, <1>3, <1>4, <1>5, <1>6, <1>7, <1>8, <1>9,
     <1>10, <1>11, <1>12, <1>13, <1>14, <1>15, <1>16, <1>17, <1>18,
     <1>19, <1>20, <1>21, <1>22, <1>23, <1>24, <1>25, <1>26, <1>27,
     <1>28, <1>29, <1>30, <1>31, <1>32, <1>33, <1>34
     DEF Next, Setup, Dialog, Apply, Teardown, Gone

(* A set of slots that is not empty has a first one. *)
LEMMA FirstFreeIsFree ==
    ASSUME Occupied # Slots
    PROVE  /\ FirstFree \in Slots \ Occupied
           /\ \A s \in Slots \ Occupied : FirstFree <= s
<1> DEFINE Free == Slots \ Occupied
<1>1. Free # {} /\ Free \subseteq Nat
  BY DEF Occupied, Slots
<1> HIDE DEF Free
<1>2. PICK x \in Free : \A y \in Free : ~(<<y, x>> \in OpToRel(<, Nat))
  BY <1>1, NatLessThanWellFounded, WFMin
<1>3. ASSUME NEW y \in Free PROVE x <= y
  <2>1. x \in Nat /\ y \in Nat /\ <<y, x>> \in Nat \X Nat
    BY <1>1
  <2>2. ~(y < x)
    BY <1>2, <2>1 DEF OpToRel
  <2> QED BY <2>1, <2>2
<1>4. \E s \in Slots \ Occupied : \A t \in Slots \ Occupied : s <= t
  BY <1>3 DEF Free
<1> QED BY <1>4 DEF FirstFree

(* The files go into the slots in order. *)
LEMMA SlotKept ==
    ASSUME slot' = slot, NEW n, NEW offset
    PROVE  PluggedUpTo(n, offset)' <=> PluggedUpTo(n, offset)
BY DEF PluggedUpTo

LEMMA PluggedKeep == IInv /\ [Next]_vars => Plugged'
<1> SUFFICES ASSUME IInv, [Next]_vars PROVE Plugged'
  OBVIOUS
<1> USE SlotKept DEF IInv, Plugged, dialog, bridgeVars
<1>1. CASE PjInit
  BY <1>1 DEF PjInit, Adds, Fail, Quietly
<1>2. CASE Options
  BY <1>2 DEF Options, Adds, Fail, Quietly
<1>3. CASE EndptCreate
  BY <1>3 DEF EndptCreate, Adds, Fail, Quietly
<1>4. CASE PoolCreate
  BY <1>4 DEF PoolCreate, Quietly
<1>5. CASE CreateBridge
  <2>1. CASE ConfCreate /\ pc' = "rec_create" /\ i' = i
    <3>1. \A s \in Slots : slot[s] = Empty
      BY <1>5 DEF CreateBridge, Phases, SlotsInUse
    <3>2. PluggedUpTo(0, 0)'
      BY <2>1, <3>1, NFilesAssumption
         DEF ConfCreate, PluggedUpTo, TypeOK, BridgeTypeOK, Slots
    <3> QED BY <1>5, <2>1, <3>2 DEF CreateBridge
  <2>2. CASE pc' \in {"exit1", "crashed"}
    BY <2>2
  <2> QED BY <1>5, <2>1, <2>2 DEF CreateBridge, Fail
<1>6. CASE CreateRecorder
  BY <1>6 DEF CreateRecorder, Quietly, Fail
<1>7. CASE AddRecorder
  <2>1. PluggedUpTo(0, 0) /\ i = 1 /\ i' = 1 /\ pc' = "files"
    BY <1>7 DEF AddRecorder
  <2>2. 1 \in Slots /\ 0 \in Slots
    BY NFilesAssumption DEF Slots, PortCount, RECORDER
  <2>3. CASE AddPort(Recorder)
    <3>1. FirstFree \in Slots \ Occupied /\ 1 \in Slots \ Occupied
          /\ 0 \in Occupied
      BY <2>1, <2>2, <2>3, FirstFreeIsFree, NFilesAssumption
         DEF AddPort, PluggedUpTo, Occupied, Empty, Sound
    <3>2. FirstFree <= 1
      BY <2>3, <3>1, FirstFreeIsFree DEF AddPort
    <3>3. FirstFree = 1
      BY <3>1, <3>2 DEF Slots
    <3>4. PluggedUpTo(0, 1)'
      BY <2>1, <2>3, <3>3
         DEF AddPort, PluggedUpTo, TypeOK, BridgeTypeOK, Slots
    <3> QED BY <2>1, <3>4 DEF RECORDER
  <2>4. CASE UNCHANGED bridgeVars
    <3>1. PluggedUpTo(0, 0)'
      BY <2>1, <2>4 DEF bridgeVars, PluggedUpTo
    <3> QED BY <2>1, <3>1
  <2> QED BY <1>7, <2>3, <2>4 DEF AddRecorder
<1>8. CASE CreateFile
  BY <1>8 DEF CreateFile, Quietly, Fail
<1>9. CASE AddFile
  <2>1. CASE AddPort(i) /\ i' = i + 1 /\ pc' = "files"
    <3>1. PICK offset \in {0, RECORDER} : PluggedUpTo(i - 1, offset)
      BY <1>9 DEF AddFile
    <3>2. i \in 1..NFiles /\ offset \in {0, 1}
      BY <1>9, NFilesAssumption DEF AddFile, TypeOK, OwnTypeOK, RECORDER
    <3>3. i + offset \in Slots \ Occupied
      BY <3>1, <3>2, NFilesAssumption
         DEF PluggedUpTo, Occupied, Slots, PortCount, RECORDER
    <3>4. \A s \in Slots : s < i + offset => s \in Occupied
      BY <3>1, <3>2, NFilesAssumption
         DEF PluggedUpTo, Occupied, Slots, Empty, Sound, Recorder
    <3>5. FirstFree \in Slots \ Occupied /\ FirstFree <= i + offset
      BY <2>1, <3>3, FirstFreeIsFree DEF AddPort
    <3>6. FirstFree = i + offset
      BY <3>2, <3>4, <3>5 DEF Slots
    <3>7. \A s \in Slots : slot'[s] = IF s = i + offset THEN i ELSE slot[s]
      BY <2>1, <3>6 DEF AddPort, TypeOK, BridgeTypeOK
    <3>9. i' - 1 = i
      BY <2>1, <3>2
    <3>10. PluggedUpTo(i - 1, offset)'
      BY <2>1, <3>1, <3>2, <3>7, <3>9 DEF PluggedUpTo, Slots
    <3> QED BY <2>1, <3>1, <3>10
  <2>2. CASE Fail
    BY <2>2 DEF Fail
  <2> QED BY <1>9, <2>1, <2>2 DEF AddFile
<1>10. CASE FilesAdded
  <2>1. i - 1 = NFiles
    BY <1>10, NFilesAssumption DEF FilesAdded, TypeOK, OwnTypeOK
  <2>2. PICK offset \in {0, RECORDER} : PluggedUpTo(NFiles, offset)
    BY <1>10, <2>1 DEF FilesAdded
  <2>3. PluggedUpTo(NFiles, offset)'
    BY <1>10, <2>2 DEF FilesAdded, Quietly, bridgeVars, PluggedUpTo
  <2> QED BY <1>10, <2>3 DEF FilesAdded
<1>11. CASE ListPorts
  BY <1>11 DEF ListPorts, InMenu, Quietly
<1>12. CASE InputEnds
  BY <1>12 DEF InputEnds, InMenu
<1>13. CASE Select
  BY <1>13 DEF Select, BackToMenu, InMenu
<1>14. CASE Quit
  BY <1>14 DEF Quit, InMenu, Quietly
<1>15. CASE Cancel
  BY <1>15 DEF Cancel, Prompted, BackToMenu, GivesUp, InMenu
<1>16. CASE AnswerFirst
  BY <1>16 DEF AnswerFirst, Answers, Refuses, GivesUp, BackToMenu, InMenu
<1>17. CASE AnswerDestination
  BY <1>17 DEF AnswerDestination, Answers, Refuses, GivesUp, BackToMenu, InMenu
<1>18. CASE AnswerLevel
  BY <1>18 DEF AnswerLevel, Answers, Refuses, GivesUp, BackToMenu, InMenu
<1>19. CASE AnswerMeter
  BY <1>19 DEF AnswerMeter, Answers, Refuses, GivesUp, BackToMenu, InMenu
<1>20. CASE Monitor
  BY <1>20 DEF Monitor, BackToMenu, GivesUp, InMenu
<1>21. CASE ApplyConnect
  BY <1>21 DEF ApplyConnect, Applies, ConnectPort, BackToMenu, InMenu
<1>22. CASE ApplyDisconnect
  BY <1>22 DEF ApplyDisconnect, Applies, DisconnectPort, BackToMenu, InMenu
<1>23. CASE ApplyTx
  BY <1>23 DEF ApplyTx, Applies, AdjustLevel, BackToMenu, InMenu
<1>24. CASE ApplyRx
  BY <1>24 DEF ApplyRx, Applies, AdjustLevel, BackToMenu, InMenu
<1>25. CASE ConfDestroy
  BY <1>25 DEF ConfDestroy, ConfStop, InMenu, OnBridge, Fail, Quietly
<1>26. CASE ConfDestroyed
  BY <1>26 DEF ConfDestroyed, ConfJoin, OnBridge
<1>27. CASE FileDestroy
  BY <1>27 DEF FileDestroy, Quietly, Fail
<1>28. CASE RecDestroy
  BY <1>28 DEF RecDestroy, Quietly
<1>29. CASE PoolRelease
  BY <1>29 DEF PoolRelease, Drops, Quietly
<1>30. CASE EndptDestroy
  BY <1>30 DEF EndptDestroy, Drops, Quietly
<1>31. CASE CachingPoolDestroy
  BY <1>31 DEF CachingPoolDestroy, Drops, Quietly
<1>32. CASE Shutdown
  BY <1>32 DEF Shutdown, Drops, Quietly
<1>33. CASE Tick
  BY <1>33 DEF Tick, TickBegin, TickStep, OwnVars
<1>34. CASE UNCHANGED vars
  BY <1>34 DEF vars
<1> QED
  BY <1>1, <1>2, <1>3, <1>4, <1>5, <1>6, <1>7, <1>8, <1>9,
     <1>10, <1>11, <1>12, <1>13, <1>14, <1>15, <1>16, <1>17, <1>18,
     <1>19, <1>20, <1>21, <1>22, <1>23, <1>24, <1>25, <1>26, <1>27,
     <1>28, <1>29, <1>30, <1>31, <1>32, <1>33, <1>34
     DEF Next, Setup, Dialog, Apply, Teardown, Gone

LEMMA Initially == Init => IInv
<1> SUFFICES ASSUME Init PROVE IInv
  OBVIOUS
<1>1. OwnTypeOK
  <2>1. live \in SUBSET (Ports \cup {Unclosed}) /\ i \in 1..(NFiles + 1)
    BY Numbering DEF Init
  <2>2. eof \in BOOLEAN /\ layers \in SUBSET {"pjlib", "cp", "endpt", "pool"}
    BY DEF Init
  <2>3. pc = "pj_init" /\ cmd = "s" /\ src = 0 /\ dst = 0 /\ level = 0
        /\ applied = 0
    BY DEF Init
  <2> QED BY <2>1, <2>2, <2>3 DEF OwnTypeOK
<1>2. BridgeTypeOK
  BY DEF Init, BridgeInit, BridgeTypeOK
<1>3. Phases /\ SlotsInUse /\ Leftovers /\ Answered /\ Plugged
  BY DEF Init, BridgeInit, Phases, SlotsInUse, Leftovers, Answered, Plugged
<1> QED BY <1>1, <1>2, <1>3 DEF IInv, TypeOK

LEMMA StepKeeps == IInv /\ [Next]_vars => IInv'
<1> SUFFICES ASSUME IInv, [Next]_vars PROVE IInv'
  OBVIOUS
<1>1. TypeOK'
  BY OwnTypeKeeps, BridgeTypeKeeps DEF IInv, TypeOK
<1>2. Phases' /\ SlotsInUse'
  BY PhasesKeep, SlotsKeep
<1>3. Leftovers' /\ Answered' /\ Plugged'
  BY LeftoversKeep, AnsweredKeep, PluggedKeep
<1> QED BY <1>1, <1>2, <1>3 DEF IInv

(* The inductive invariant holds of every run. *)
THEOREM Inductive == Spec => []IInv
BY Initially, StepKeeps, PTL DEF Spec

(* The bridge's thread never touches a port that has been destroyed. *)
THEOREM NoDeadPortTheorem == Spec => []NoDeadPortTouched
<1>1. IInv => NoDeadPortTouched
  <2> SUFFICES ASSUME IInv, at # Idle
               PROVE  slot[at] \in live \cup {Sound, Empty} /\ "pool" \in layers
    BY DEF NoDeadPortTouched
  <2>1. at \in Slots
    BY DEF IInv, TypeOK, BridgeTypeOK
  <2> QED BY <2>1 DEF IInv, Phases, SlotsInUse
<1> QED BY <1>1, Inductive, PTL

(* The files are in the slots in the order of the command line. *)
THEOREM FilesTheorem == Spec => []FilesInOrder
<1>1. IInv => FilesInOrder
  <2> SUFFICES ASSUME IInv, pc \in MenuUp
               PROVE  \E offset \in {0, RECORDER} :
                         \A f \in Files : slot[f + offset] = f
    BY DEF FilesInOrder
  <2>1. PICK offset \in {0, RECORDER} : PluggedUpTo(NFiles, offset)
    BY DEF IInv, Plugged
  <2>2. \A f \in Files : slot[f + offset] = f
    BY <2>1, NFilesAssumption DEF PluggedUpTo, Files, Slots, PortCount, RECORDER
  <2> QED BY <2>2
<1> QED BY <1>1, Inductive, PTL

(* Status 0: nothing is left over. *)
THEOREM CleanTheorem == Spec => []CleanExit
<1>1. IInv => CleanExit
  BY DEF IInv, Phases, Leftovers, CleanExit
<1> QED BY <1>1, Inductive, PTL

(* Routes and levels change only as a complete dialog says. *)
LEMMA StepAsTyped == IInv /\ [Next]_vars => AsTypedStep
<1> SUFFICES ASSUME IInv, [Next]_vars PROVE AsTypedStep
  OBVIOUS
<1> USE DEF IInv, Phases, Answered, AsTypedStep, bridgeVars
<1>1. CASE PjInit
  BY <1>1 DEF PjInit, Adds, Fail, Quietly
<1>2. CASE Options
  BY <1>2 DEF Options, Adds, Fail, Quietly
<1>3. CASE EndptCreate
  BY <1>3 DEF EndptCreate, Adds, Fail, Quietly
<1>4. CASE PoolCreate
  BY <1>4 DEF PoolCreate, Quietly
<1>5. CASE CreateBridge
  BY <1>5 DEF CreateBridge, ConfCreate, OnBridge, Quietly, Fail
<1>6. CASE CreateRecorder
  BY <1>6 DEF CreateRecorder, Quietly, Fail
<1>7. CASE AddRecorder
  BY <1>7 DEF AddRecorder, AddPort, OnBridge
<1>8. CASE CreateFile
  BY <1>8 DEF CreateFile, Quietly, Fail
<1>9. CASE AddFile
  BY <1>9 DEF AddFile, AddPort, OnBridge, Fail, Quietly
<1>10. CASE FilesAdded
  BY <1>10 DEF FilesAdded, Quietly
<1>11. CASE ListPorts
  BY <1>11 DEF ListPorts, InMenu, Quietly
<1>12. CASE InputEnds
  BY <1>12 DEF InputEnds, InMenu
<1>13. CASE Select
  BY <1>13 DEF Select, BackToMenu, InMenu
<1>14. CASE Quit
  BY <1>14 DEF Quit, InMenu, Quietly
<1>15. CASE Cancel
  BY <1>15 DEF Cancel, Prompted, BackToMenu, GivesUp, InMenu
<1>16. CASE AnswerFirst
  BY <1>16 DEF AnswerFirst, Answers, Refuses, GivesUp, BackToMenu, InMenu
<1>17. CASE AnswerDestination
  BY <1>17 DEF AnswerDestination, Answers, Refuses, GivesUp, BackToMenu, InMenu
<1>18. CASE AnswerLevel
  BY <1>18 DEF AnswerLevel, Answers, Refuses, GivesUp, BackToMenu, InMenu
<1>19. CASE AnswerMeter
  BY <1>19 DEF AnswerMeter, Answers, Refuses, GivesUp, BackToMenu, InMenu
<1>20. CASE Monitor
  BY <1>20 DEF Monitor, BackToMenu, GivesUp, InMenu
<1>21. CASE ApplyConnect
  <2>1. cmd = "c" /\ asked = <<src, dst>>
    BY <1>21 DEF ApplyConnect, Applies
  <2>2. asked[1] = src /\ asked[2] = dst
    BY <2>1
  <2> QED BY <1>21, <2>1, <2>2 DEF ApplyConnect, Applies, ConnectPort
<1>22. CASE ApplyDisconnect
  <2>1. cmd = "d" /\ asked = <<src, dst>>
    BY <1>22 DEF ApplyDisconnect, Applies
  <2>2. asked[1] = src /\ asked[2] = dst
    BY <2>1
  <2> QED BY <1>22, <2>1, <2>2 DEF ApplyDisconnect, Applies, DisconnectPort
<1>23. CASE ApplyTx
  <2>1. cmd = "t" /\ asked = <<src, level>>
    BY <1>23 DEF ApplyTx, Applies
  <2>2. asked[1] = src /\ asked[2] = level
    BY <2>1
  <2> QED BY <1>23, <2>1, <2>2 DEF ApplyTx, Applies, AdjustLevel
<1>24. CASE ApplyRx
  <2>1. cmd = "r" /\ asked = <<src, level>>
    BY <1>24 DEF ApplyRx, Applies
  <2>2. asked[1] = src /\ asked[2] = level
    BY <2>1
  <2> QED BY <1>24, <2>1, <2>2 DEF ApplyRx, Applies, AdjustLevel
<1>25. CASE ConfDestroy
  BY <1>25 DEF ConfDestroy, ConfStop, InMenu, OnBridge, Fail, Quietly
<1>26. CASE ConfDestroyed
  BY <1>26 DEF ConfDestroyed, ConfJoin, OnBridge
<1>27. CASE FileDestroy
  BY <1>27 DEF FileDestroy, Quietly, Fail
<1>28. CASE RecDestroy
  BY <1>28 DEF RecDestroy, Quietly
<1>29. CASE PoolRelease
  BY <1>29 DEF PoolRelease, Drops, Quietly
<1>30. CASE EndptDestroy
  BY <1>30 DEF EndptDestroy, Drops, Quietly
<1>31. CASE CachingPoolDestroy
  BY <1>31 DEF CachingPoolDestroy, Drops, Quietly
<1>32. CASE Shutdown
  BY <1>32 DEF Shutdown, Drops, Quietly
<1>33. CASE Tick
  BY <1>33 DEF Tick, TickBegin, TickStep, OwnVars
<1>34. CASE UNCHANGED vars
  BY <1>34 DEF vars
<1> QED
  BY <1>1, <1>2, <1>3, <1>4, <1>5, <1>6, <1>7, <1>8, <1>9,
     <1>10, <1>11, <1>12, <1>13, <1>14, <1>15, <1>16, <1>17, <1>18,
     <1>19, <1>20, <1>21, <1>22, <1>23, <1>24, <1>25, <1>26, <1>27,
     <1>28, <1>29, <1>30, <1>31, <1>32, <1>33, <1>34
     DEF Next, Setup, Dialog, Apply, Teardown, Gone

(* Routes and levels change only as a complete dialog says, and then just  *)
(* as it says.                                                             *)
THEOREM AsTypedTheorem == Spec => AsTyped
BY StepAsTyped, Inductive, PTL DEF Spec, AsTyped

(* Every step of the program is a step of the patch board, or none. *)
LEMMA StepDrives == IInv /\ [Next]_vars => [Board!Next]_(Board!vars)
<1> SUFFICES ASSUME IInv, [Next]_vars
             PROVE  [Board!Next]_(Board!vars)
  OBVIOUS
<1>q. ASSUME UNCHANGED <<clock, slot, listeners>>
      PROVE  UNCHANGED Board!vars
  BY <1>q DEF Board!vars, Occupied, Routes
<1>p. ASSUME NEW p, p # Empty, AddPort(p), clock = "running"
      PROVE  Board!Plug
  <2>1. FirstFree \in Slots \ Occupied
    BY <1>p, FirstFreeIsFree DEF AddPort
  <2>2. Occupied' = Occupied \cup {FirstFree}
    BY <1>p, <2>1 DEF AddPort, Occupied, IInv, TypeOK, BridgeTypeOK
  <2> QED BY <1>p, <2>1, <2>2 DEF Board!Plug, AddPort, Routes
<1> USE <1>q DEF IInv, bridgeVars, Board!Next
<1>1. CASE PjInit
  BY <1>1 DEF PjInit, Adds, Fail, Quietly
<1>2. CASE Options
  BY <1>2 DEF Options, Adds, Fail, Quietly
<1>3. CASE EndptCreate
  BY <1>3 DEF EndptCreate, Adds, Fail, Quietly
<1>4. CASE PoolCreate
  BY <1>4 DEF PoolCreate, Quietly
<1>5. CASE CreateBridge
  <2>1. CASE ConfCreate
    <3>1. clock = "none" /\ \A s \in Slots : slot[s] = Empty
      BY <1>5 DEF CreateBridge, Phases, SlotsInUse
    <3>2. 0 \in Slots /\ Sound # Empty
      BY NFilesAssumption DEF Slots, PortCount, RECORDER, Sound, Empty
    <3>3. Occupied' = {0}
      BY <2>1, <3>1, <3>2
         DEF ConfCreate, Occupied, TypeOK, BridgeTypeOK
    <3> QED BY <2>1, <3>1, <3>2, <3>3 DEF ConfCreate, Board!Open, Routes
  <2>2. CASE UNCHANGED bridgeVars
    BY <2>2
  <2> QED BY <1>5, <2>1, <2>2 DEF CreateBridge, Quietly, Fail
<1>6. CASE CreateRecorder
  BY <1>6 DEF CreateRecorder, Quietly, Fail
<1>7. CASE AddRecorder
  <2>1. CASE AddPort(Recorder)
    BY <1>7, <2>1, <1>p DEF AddRecorder, Phases, Recorder, Empty
  <2>2. CASE UNCHANGED bridgeVars
    BY <2>2
  <2> QED BY <1>7, <2>1, <2>2 DEF AddRecorder
<1>8. CASE CreateFile
  BY <1>8 DEF CreateFile, Quietly, Fail
<1>9. CASE AddFile
  <2>1. CASE AddPort(i)
    <3>1. i # Empty /\ clock = "running"
      BY <1>9 DEF AddFile, Phases, TypeOK, OwnTypeOK, Empty
    <3> QED BY <2>1, <3>1, <1>p
  <2>2. CASE Fail
    BY <2>2 DEF Fail, Quietly
  <2> QED BY <1>9, <2>1, <2>2 DEF AddFile
<1>10. CASE FilesAdded
  BY <1>10 DEF FilesAdded, Quietly
<1>11. CASE ListPorts
  BY <1>11 DEF ListPorts, InMenu, Quietly
<1>12. CASE InputEnds
  BY <1>12 DEF InputEnds, InMenu
<1>13. CASE Select
  BY <1>13 DEF Select, BackToMenu, InMenu
<1>14. CASE Quit
  BY <1>14 DEF Quit, InMenu, Quietly
<1>15. CASE Cancel
  BY <1>15 DEF Cancel, Prompted, BackToMenu, GivesUp, InMenu
<1>16. CASE AnswerFirst
  BY <1>16 DEF AnswerFirst, Answers, Refuses, GivesUp, BackToMenu, InMenu
<1>17. CASE AnswerDestination
  BY <1>17 DEF AnswerDestination, Answers, Refuses, GivesUp, BackToMenu, InMenu
<1>18. CASE AnswerLevel
  BY <1>18 DEF AnswerLevel, Answers, Refuses, GivesUp, BackToMenu, InMenu
<1>19. CASE AnswerMeter
  BY <1>19 DEF AnswerMeter, Answers, Refuses, GivesUp, BackToMenu, InMenu
<1>20. CASE Monitor
  BY <1>20 DEF Monitor, BackToMenu, GivesUp, InMenu
<1>21. CASE ApplyConnect
  <2>1. clock = "running" /\ clock' = clock /\ slot' = slot
    BY <1>21 DEF ApplyConnect, Applies, Phases, ConnectPort
  <2>2. CASE {src, dst} \subseteq Occupied
    <3>1. src \in Slots /\ dst \in Slots
      BY <2>2 DEF Occupied
    <3>2. listeners' = [listeners EXCEPT ![src] = listeners[src] \cup {dst}]
      BY <1>21, <2>2 DEF ApplyConnect, ConnectPort
    <3>3. Routes' = Routes \cup {<<src, dst>>}
      BY <3>1, <3>2 DEF Routes, TypeOK, BridgeTypeOK
    <3> QED BY <2>1, <2>2, <3>3 DEF Board!Connect, Occupied
  <2>3. CASE ~({src, dst} \subseteq Occupied)
    <3>1. listeners' = listeners
      BY <1>21, <2>3 DEF ApplyConnect, ConnectPort
    <3> QED BY <2>1, <3>1
  <2> QED BY <2>2, <2>3
<1>22. CASE ApplyDisconnect
  <2>1. clock = "running" /\ clock' = clock /\ slot' = slot
    BY <1>22 DEF ApplyDisconnect, Applies, Phases, DisconnectPort
  <2>2. CASE {src, dst} \subseteq Occupied
    <3>1. src \in Slots /\ dst \in Slots
      BY <2>2 DEF Occupied
    <3>2. listeners' = [listeners EXCEPT ![src] = listeners[src] \ {dst}]
      BY <1>22, <2>2 DEF ApplyDisconnect, DisconnectPort
    <3>3. Routes' = Routes \ {<<src, dst>>}
      BY <3>1, <3>2 DEF Routes, TypeOK, BridgeTypeOK
    <3> QED BY <2>1, <2>2, <3>3 DEF Board!Disconnect, Occupied
  <2>3. CASE ~({src, dst} \subseteq Occupied)
    <3>1. listeners' = listeners
      BY <1>22, <2>3 DEF ApplyDisconnect, DisconnectPort
    <3> QED BY <2>1, <3>1
  <2> QED BY <2>2, <2>3
<1>23. CASE ApplyTx
  BY <1>23 DEF ApplyTx, Applies, AdjustLevel, BackToMenu, InMenu
<1>24. CASE ApplyRx
  BY <1>24 DEF ApplyRx, Applies, AdjustLevel, BackToMenu, InMenu
<1>25. CASE ConfDestroy
  <2>1. CASE ConfStop
    BY <1>25, <2>1 DEF ConfDestroy, ConfStop, Phases, Board!vars, Occupied, Routes
  <2>2. CASE Fail
    BY <2>2 DEF Fail, Quietly
  <2> QED BY <1>25, <2>1, <2>2 DEF ConfDestroy
<1>26. CASE ConfDestroyed
  <2>1. ConfJoin
    BY <1>26 DEF ConfDestroyed
  <2>2. Occupied' = {} /\ Routes' = {}
    BY <2>1 DEF ConfJoin, Occupied, Routes
  <2> QED BY <2>1, <2>2 DEF ConfJoin, Board!Shut
<1>27. CASE FileDestroy
  BY <1>27 DEF FileDestroy, Quietly, Fail
<1>28. CASE RecDestroy
  BY <1>28 DEF RecDestroy, Quietly
<1>29. CASE PoolRelease
  BY <1>29 DEF PoolRelease, Drops, Quietly
<1>30. CASE EndptDestroy
  BY <1>30 DEF EndptDestroy, Drops, Quietly
<1>31. CASE CachingPoolDestroy
  BY <1>31 DEF CachingPoolDestroy, Drops, Quietly
<1>32. CASE Shutdown
  BY <1>32 DEF Shutdown, Drops, Quietly
<1>33. CASE Tick
  BY <1>33 DEF Tick, TickBegin, TickStep, OwnVars
<1>34. CASE UNCHANGED vars
  BY <1>34 DEF vars
<1> QED
  BY <1>1, <1>2, <1>3, <1>4, <1>5, <1>6, <1>7, <1>8, <1>9,
     <1>10, <1>11, <1>12, <1>13, <1>14, <1>15, <1>16, <1>17, <1>18,
     <1>19, <1>20, <1>21, <1>22, <1>23, <1>24, <1>25, <1>26, <1>27,
     <1>28, <1>29, <1>30, <1>31, <1>32, <1>33, <1>34
     DEF Next, Setup, Dialog, Apply, Teardown, Gone

(* The program drives its bridge as a patch board. *)
THEOREM BoardTheorem == Spec => DrivesBoard
<1>1. Init => Board!Init
  BY DEF Init, BridgeInit, Board!Init, Occupied, Routes
<1> QED BY <1>1, StepDrives, Inductive, PTL DEF Spec, DrivesBoard, Board!Spec
=============================================================================
