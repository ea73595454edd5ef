------------------------- MODULE ComponentStateProofs -------------------------
(***************************************************************************)
(* Proofs about ComponentState, for every set of receivers and every bound.*)
(* What the lifecycle promises is not inductive: that receivers are open   *)
(* for playback alone depends on who may open them at that moment (the     *)
(* holder of transport_mutex_), on playback staying open for as long as a  *)
(* worker connects, and on Connecting lasting until the setup is over.     *)
(* That the selection reaches the receivers depends on an update that is   *)
(* due for as long as it does not, wherever a worker has the old one.      *)
(***************************************************************************)
EXTENDS ComponentState, TLAPS

\* The groups of variables only shorten UNCHANGED: they are never folded.
USE DEF cacheVars, playbackVars, requestVars, transportVars, localVars,
        historyVars, boundVars

-----------------------------------------------------------------------------
(* The inductive invariant.                                                *)

\* transport_mutex_ has one holder.
Exclusive ==
    /\ setup = "connecting" => refresh # "scanning" /\ control # "applying"
    /\ refresh = "scanning" => control # "applying"

\* open_playback_stream() before it has published Open.
HandshakeSteps == {"discover", "found", "check", "snapshot", "connect",
                   "connecting", "publish", "unwind", "failed"}

\* Connecting lasts for the handshake, Open from its end to the next stop; the
\* stream of the engine is open while receivers are opened for it; a failure is
\* reported after the render thread is done.
Phases ==
    /\ failure_stop => setup \in {"none", "done"}
    /\ setup = "none" <=> host \notin {"streaming", "stopping"}
    /\ host = "spawning" => connecting /\ ~playback_open /\ ~failure_stop
    /\ CancelVisible
    /\ setup \in HandshakeSteps => connecting /\ ~playback_open
    /\ setup \in {"reconcile", "playing"} => playback_open
    /\ setup \in {"connecting", "publish"} => engine_open
    /\ playback_open => setup # "none"
    /\ control = "applying" /\ controlLocals.connect => playback_open

\* Nothing is cached, copied or selected that discovery has not found.
FoundFirst ==
    /\ known => discovered
    /\ setupLocals.known => discovered
    /\ refreshed.known => discovered
    /\ controlLocals.known => discovered
    /\ cached # {} => known
    /\ setupLocals.selected # {} => discovered
    /\ setup \in {"found", "publish"} /\ setupLocals.selected # {} => setupLocals.known
    /\ refreshed.selected # {} => refreshed.known
    /\ controlLocals.selected # {} => discovered

Typed == PointsTyped /\ FlagsTyped /\ SelectionsTyped /\ LocalsTyped /\ CountersTyped

Inv ==
    /\ Typed /\ Exclusive /\ Phases /\ FoundFirst
    /\ SessionsHavePlayback /\ ScanOnlyWithoutSessions

-----------------------------------------------------------------------------
(* The initial states.                                                     *)

\* The variables start with values of their types.
LEMMA InitTyped == Init => Typed
<1>1. Init => FlagsTyped
  BY Zenon DEF Init, FlagsTyped
<1>2. Init => PointsTyped /\ SelectionsTyped /\ CountersTyped
  BY BoundsAssumption DEF Init, PointsTyped, SelectionsTyped, CountersTyped, Selection
<1>3. Init => LocalsTyped
  BY DEF Init, LocalsTyped, Selection, NoSetup, NoOutputs, NoControl, NonePending
<1>. QED BY <1>1, <1>2, <1>3 DEF Typed

\* Nothing runs, is cached or open at the start.
LEMMA InitInv == Init => Inv
BY InitTyped DEF Init, Inv, Exclusive, Phases, HandshakeSteps, CancelVisible, FoundFirst,
    SessionsHavePlayback, ScanOnlyWithoutSessions, NoSetup, NoOutputs, NoControl

-----------------------------------------------------------------------------
(* Steps and types.                                                        *)

\* Toggling a speaker and activating a group both select.
Steps ==
    \/ \E on \in Selection, off \in Selection, search \in BOOLEAN :
          on \cap off = {} /\ Select(on, off, search)
    \/ SelectStores \/ SelectSchedules \/ SearchMembers
    \/ ChangePartial \/ RequestRefresh
    \/ FailureStops \/ FailureStopsHost \/ UserRefreshes
    \/ HostOpen \/ HostSpawns \/ HostSpawnFails
    \/ HostCancels \/ HostStops \/ HostRefreshes
    \/ SetupScan \/ SetupCaches \/ SetupNeedsNoScan \/ SetupScanFails
    \/ SetupChecks \/ SetupSnapshot
    \/ SetupConnects \/ SetupRefused \/ SetupConnected \/ SetupConnectFails
    \/ SetupPublishes \/ SetupReconciles
    \/ SetupUnwinds \/ SetupFailed \/ RenderEnds
    \/ RefreshBegins \/ RefreshScans \/ RefreshFails
    \/ RefreshPublishes \/ RefreshRepeats
    \/ ControlSnapshot \/ ControlBegins \/ ControlRefused \/ ControlApplies
    \/ ControlFails \/ ControlNames \/ ControlPublishes \/ ControlReports
    \/ ControlRepeats

\* Every step is one of them.
LEMMA StepsOfNext == Typed /\ Next => Steps
<1> SUFFICES ASSUME Typed, Next PROVE Steps
  OBVIOUS
<1>1. ASSUME NEW o \in Output, Toggle(o) PROVE Steps
  <2>1. {o} \ cached \in Selection /\ {o} \cap cached \in Selection /\ {} \in Selection
    BY DEF Selection
  <2>2. CASE known
    <3>1. Select({o} \ cached, {o} \cap cached, FALSE)
      BY <1>1, <2>2, Zenon DEF Toggle
    <3>. QED BY <3>1, <2>1, Zenon DEF Steps
  <2>3. CASE ~known
    <3>1. Select({}, {}, FALSE)
      BY <1>1, <2>3, Zenon DEF Toggle
    <3>. QED BY <3>1, <2>1, Zenon DEF Steps
  <2>. QED BY <2>2, <2>3
<1>2. ASSUME NEW members \in Selection, ActivateGroup(members) PROVE Steps
  <2> DEFINE others == {o \in Output \ members : o \in cached \/ stored[o] # "none"}
  <2>1. others \in Selection
    BY DEF Selection
  <2>2. Select(members, others, ~known)
    BY <1>2, Zenon DEF ActivateGroup
  <2>3. (~known) \in BOOLEAN
    BY Zenon
  <2>. QED BY <2>1, <2>2, <2>3, Zenon DEF Steps
<1>. QED
  BY <1>1, <1>2, Zenon DEF Next, User, Host, Setup, Refresh, Control, Steps

\* A scan lists a part of the outputs.
LEMMA ListedType == ASSUME NEW found PROVE Listed(found) \in Selection
BY DEF Listed, Selection

\* The control points and the counters of every action.
LEMMA PointsType == Typed /\ Next => PointsTyped' /\ CountersTyped'
<1> SUFFICES ASSUME Typed, Next PROVE PointsTyped' /\ CountersTyped'
  OBVIOUS
<1>. PointsTyped /\ CountersTyped
  BY DEF Typed
<1> USE BoundsAssumption DEF PointsTyped, CountersTyped
<1>1. ASSUME NEW on \in Selection, NEW off \in Selection, NEW search \in BOOLEAN,
             Select(on, off, search)
      PROVE  PointsTyped' /\ CountersTyped'
  BY <1>1 DEF Select
<1>2. CASE SelectStores
  BY <1>2 DEF SelectStores
<1>3. CASE SelectSchedules
  BY <1>3 DEF SelectSchedules, Schedule
<1>4. CASE SearchMembers
  BY <1>4 DEF SearchMembers
<1>5. CASE ChangePartial
  BY <1>5 DEF ChangePartial, Schedule
<1>6. CASE RequestRefresh
  BY <1>6 DEF RequestRefresh, RefreshOutputs
<1>7. CASE FailureStops
  BY <1>7 DEF FailureStops, StopPlayback
<1>8. CASE FailureStopsHost
  BY <1>8 DEF FailureStopsHost
<1>9. CASE UserRefreshes
  BY <1>9 DEF UserRefreshes, RefreshOutputs
<1>10. CASE HostOpen
  BY <1>10 DEF HostOpen
<1>11. CASE HostCancels
  BY <1>11 DEF HostCancels
<1>12. CASE HostStops
  BY <1>12 DEF HostStops, StopPlayback
<1>13. CASE HostRefreshes
  BY <1>13 DEF HostRefreshes, RefreshOutputs
<1>14. CASE SetupScan
  BY <1>14 DEF SetupScan, SetupGoto
<1>15. CASE SetupCaches
  BY <1>15 DEF SetupCaches, SetupGoto, NoteLoss
<1>16. CASE SetupNeedsNoScan
  BY <1>16 DEF SetupNeedsNoScan, SetupGoto
<1>17. CASE SetupScanFails
  BY <1>17 DEF SetupScanFails, SetupGoto
<1>18. CASE SetupChecks
  BY <1>18 DEF SetupChecks
<1>19. CASE SetupSnapshot
  BY <1>19 DEF SetupSnapshot
<1>20. CASE SetupConnects
  BY <1>20 DEF SetupConnects, SetupGoto
<1>21. CASE SetupRefused
  BY <1>21 DEF SetupRefused, SetupGoto
<1>22. CASE SetupConnected
  BY <1>22 DEF SetupConnected, SetupGoto
<1>23. CASE SetupConnectFails
  BY <1>23 DEF SetupConnectFails, SetupGoto
<1>24. CASE SetupPublishes
  BY <1>24 DEF SetupPublishes, SetupGoto, NoteLoss
<1>25. CASE SetupReconciles
  BY <1>25 DEF SetupReconciles, Schedule, SetupGoto
<1>26. CASE SetupUnwinds
  BY <1>26 DEF SetupUnwinds, SetupGoto
<1>27. CASE SetupFailed
  BY <1>27 DEF SetupFailed, SetupGoto
<1>28. CASE RenderEnds
  BY <1>28 DEF RenderEnds, SetupGoto
<1>29. CASE RefreshBegins
  BY <1>29 DEF RefreshBegins
<1>30. CASE RefreshScans
  BY <1>30 DEF RefreshScans
<1>31. CASE RefreshFails
  BY <1>31 DEF RefreshFails
<1>32. CASE RefreshPublishes
  BY <1>32 DEF RefreshPublishes, NoteLoss
<1>33. CASE RefreshRepeats
  BY <1>33 DEF RefreshRepeats
<1>34. CASE ControlSnapshot
  BY <1>34 DEF ControlSnapshot
<1>35. CASE ControlBegins
  BY <1>35 DEF ControlBegins, ControlGoto
<1>36. CASE ControlRefused
  BY <1>36 DEF ControlRefused, ControlGoto
<1>37. CASE ControlApplies
  BY <1>37 DEF ControlApplies
<1>38. CASE ControlFails
  BY <1>38 DEF ControlFails, ControlGoto
<1>39. CASE ControlNames
  BY <1>39 DEF ControlNames, ControlGoto
<1>40. CASE ControlPublishes
  BY <1>40 DEF ControlPublishes, ControlGoto
<1>41. CASE ControlReports
  BY <1>41 DEF ControlReports, ControlGoto
<1>42. CASE ControlRepeats
  BY <1>42 DEF ControlRepeats
<1>43. CASE HostSpawns
  BY <1>43 DEF HostSpawns
<1>44. CASE HostSpawnFails
  BY <1>44 DEF HostSpawnFails
<1> HIDE DEF PointsTyped, CountersTyped
<1>. QED
  BY StepsOfNext, <1>1, <1>2, <1>3, <1>4, <1>5, <1>6, <1>7, <1>8, <1>9, <1>10, <1>11, <1>12,
     <1>13, <1>14, <1>15, <1>16, <1>17, <1>18, <1>19, <1>20, <1>21, <1>22, <1>23, <1>24,
     <1>25, <1>26, <1>27, <1>28, <1>29, <1>30, <1>31, <1>32, <1>33, <1>34, <1>35, <1>36,
     <1>37, <1>38, <1>39, <1>40, <1>41, <1>42, <1>43, <1>44
  DEF Steps

\* Flags stay flags.  (A lemma of its own because the leaves about Booleans
\* are Zenon's.)
LEMMA FlagsType == Typed /\ Next => FlagsTyped'
<1> SUFFICES ASSUME Typed, Next PROVE FlagsTyped'
  OBVIOUS
<1>. FlagsTyped /\ LocalsTyped
  BY DEF Typed
<1>. /\ setupLocals.known \in BOOLEAN /\ refreshed.known \in BOOLEAN
     /\ controlLocals.known \in BOOLEAN /\ controlLocals.connect \in BOOLEAN
  BY DEF LocalsTyped
<1> USE DEF FlagsTyped
<1>1. ASSUME NEW on \in Selection, NEW off \in Selection, NEW search \in BOOLEAN,
             Select(on, off, search)
      PROVE  FlagsTyped'
  BY <1>1, Zenon DEF Select
<1>2. CASE SelectStores
  BY <1>2, Zenon DEF SelectStores
<1>3. CASE SelectSchedules
  BY <1>3, Zenon DEF SelectSchedules, Schedule
<1>4. CASE SearchMembers
  BY <1>4, Zenon DEF SearchMembers
<1>5. CASE ChangePartial
  BY <1>5, Zenon DEF ChangePartial, Schedule
<1>6. CASE RequestRefresh
  BY <1>6, Zenon DEF RequestRefresh, RefreshOutputs, PlaybackActive
<1>7. CASE FailureStops
  BY <1>7, Zenon DEF FailureStops, StopPlayback
<1>8. CASE FailureStopsHost
  BY <1>8, Zenon DEF FailureStopsHost
<1>9. CASE UserRefreshes
  BY <1>9, Zenon DEF UserRefreshes, RefreshOutputs, PlaybackActive
<1>10. CASE HostOpen
  BY <1>10, Zenon DEF HostOpen
<1>11. CASE HostCancels
  BY <1>11, Zenon DEF HostCancels
<1>12. CASE HostStops
  BY <1>12, Zenon DEF HostStops, StopPlayback
<1>13. CASE HostRefreshes
  BY <1>13, Zenon DEF HostRefreshes, RefreshOutputs, PlaybackActive
<1>14. CASE SetupScan
  <2>1. UNCHANGED <<known, connecting, refresh_requested, deferred, playback_open,
                    cancel_requested, engine_open, failure_stop, wanted, control_failed>>
    BY <1>14 DEF SetupScan
  <2>2. discovered' \in BOOLEAN
    BY <1>14, Zenon DEF SetupScan
  <2>. QED BY <2>1, <2>2, Zenon
<1>15. CASE SetupCaches
  BY <1>15, Zenon DEF SetupCaches, SetupGoto
<1>16. CASE SetupNeedsNoScan
  BY <1>16, Zenon DEF SetupNeedsNoScan, SetupGoto
<1>17. CASE SetupScanFails
  BY <1>17, Zenon DEF SetupScanFails, SetupGoto
<1>18. CASE SetupChecks
  BY <1>18, Zenon DEF SetupChecks
<1>19. CASE SetupSnapshot
  BY <1>19, Zenon DEF SetupSnapshot
<1>20. CASE SetupConnects
  BY <1>20, Zenon DEF SetupConnects, SetupGoto
<1>21. CASE SetupRefused
  BY <1>21, Zenon DEF SetupRefused, SetupGoto
<1>22. CASE SetupConnected
  BY <1>22, Zenon DEF SetupConnected, SetupGoto
<1>23. CASE SetupConnectFails
  BY <1>23, Zenon DEF SetupConnectFails, SetupGoto
<1>24. CASE SetupPublishes
  BY <1>24, Zenon DEF SetupPublishes, SetupGoto
<1>25. CASE SetupReconciles
  BY <1>25, Zenon DEF SetupReconciles, Schedule, SetupGoto
<1>26. CASE SetupUnwinds
  BY <1>26, Zenon DEF SetupUnwinds, SetupGoto
<1>27. CASE SetupFailed
  BY <1>27, Zenon DEF SetupFailed, SetupGoto
<1>28. CASE RenderEnds
  BY <1>28, Zenon DEF RenderEnds, SetupGoto
<1>29. CASE RefreshBegins
  BY <1>29, Zenon DEF RefreshBegins, PlaybackActive
<1>30. CASE RefreshScans
  <2>1. UNCHANGED <<known, connecting, refresh_requested, deferred, playback_open,
                    cancel_requested, engine_open, failure_stop, wanted, control_failed>>
    BY <1>30 DEF RefreshScans
  <2>2. discovered' \in BOOLEAN
    BY <1>30, Zenon DEF RefreshScans
  <2>. QED BY <2>1, <2>2, Zenon
<1>31. CASE RefreshFails
  BY <1>31, Zenon DEF RefreshFails
<1>32. CASE RefreshPublishes
  BY <1>32, Zenon DEF RefreshPublishes
<1>33. CASE RefreshRepeats
  BY <1>33, Zenon DEF RefreshRepeats
<1>34. CASE ControlSnapshot
  BY <1>34, Zenon DEF ControlSnapshot
<1>35. CASE ControlBegins
  BY <1>35, Zenon DEF ControlBegins, ControlGoto
<1>36. CASE ControlRefused
  BY <1>36, Zenon DEF ControlRefused, ControlGoto
<1>37. CASE ControlApplies
  BY <1>37, Zenon DEF ControlApplies
<1>38. CASE ControlFails
  BY <1>38, Zenon DEF ControlFails, ControlGoto
<1>39. CASE ControlNames
  BY <1>39, Zenon DEF ControlNames, ControlGoto
<1>40. CASE ControlPublishes
  BY <1>40, Zenon DEF ControlPublishes, ControlGoto
<1>41. CASE ControlReports
  BY <1>41 DEF ControlReports, ControlGoto
<1>42. CASE ControlRepeats
  BY <1>42, Zenon DEF ControlRepeats
<1>43. CASE HostSpawns \/ HostSpawnFails
  <2>1. UNCHANGED <<known, connecting, refresh_requested, deferred, playback_open,
                    cancel_requested, discovered, engine_open, failure_stop, wanted,
                    control_failed>>
    BY <1>43 DEF HostSpawns, HostSpawnFails
  <2>. QED BY <2>1, Zenon
<1> HIDE DEF FlagsTyped
<1>. QED
  BY StepsOfNext, <1>1, <1>2, <1>3, <1>4, <1>5, <1>6, <1>7, <1>8, <1>9, <1>10, <1>11, <1>12,
     <1>13, <1>14, <1>15, <1>16, <1>17, <1>18, <1>19, <1>20, <1>21, <1>22, <1>23, <1>24,
     <1>25, <1>26, <1>27, <1>28, <1>29, <1>30, <1>31, <1>32, <1>33, <1>34, <1>35, <1>36,
     <1>37, <1>38, <1>39, <1>40, <1>41, <1>42, <1>43
  DEF Steps

\* Selections and the locals of the threads: the locals are copied field by
\* field from selections and flags.
LEMMA DataType == Typed /\ Next => SelectionsTyped' /\ LocalsTyped'
<1> SUFFICES ASSUME Typed, Next PROVE SelectionsTyped' /\ LocalsTyped'
  OBVIOUS
<1>. SelectionsTyped /\ LocalsTyped /\ FlagsTyped
  BY DEF Typed
<1>. FlagsTyped'
  BY FlagsType
<1>a. known \in BOOLEAN /\ discovered \in BOOLEAN /\ playback_open \in BOOLEAN
  BY Zenon DEF FlagsTyped
<1>b. discovered' \in BOOLEAN
  BY Zenon DEF FlagsTyped
<1>c. Listed(discovered') \in Selection
  BY ListedType
<1> USE DEF SelectionsTyped, LocalsTyped, Selection
<1>1. ASSUME NEW on \in Selection, NEW off \in Selection, NEW search \in BOOLEAN,
             Select(on, off, search)
      PROVE  SelectionsTyped' /\ LocalsTyped'
  BY <1>1 DEF Select
<1>2. CASE SelectStores
  BY <1>2 DEF SelectStores, NonePending
<1>3. CASE SelectSchedules
  BY <1>3 DEF SelectSchedules, Schedule, NonePending
<1>4. CASE SearchMembers
  BY <1>4 DEF SearchMembers
<1>5. CASE ChangePartial
  BY <1>5 DEF ChangePartial, Schedule
<1>6. CASE RequestRefresh
  BY <1>6 DEF RequestRefresh, RefreshOutputs
<1>7. CASE FailureStops
  BY <1>7 DEF FailureStops, StopPlayback
<1>8. CASE FailureStopsHost
  BY <1>8 DEF FailureStopsHost
<1>9. CASE UserRefreshes
  BY <1>9 DEF UserRefreshes, RefreshOutputs
<1>10. CASE HostOpen
  BY <1>10 DEF HostOpen
<1>11. CASE HostCancels
  BY <1>11 DEF HostCancels
<1>12. CASE HostStops
  BY <1>12 DEF HostStops, StopPlayback
<1>13. CASE HostRefreshes
  BY <1>13 DEF HostRefreshes, RefreshOutputs
<1>14. CASE SetupScan
  BY <1>14, <1>b, <1>c DEF SetupScan, SetupGoto
<1>15. CASE SetupCaches
  BY <1>15 DEF SetupCaches, SetupGoto
<1>16. CASE SetupNeedsNoScan
  BY <1>16 DEF SetupNeedsNoScan, SetupGoto
<1>17. CASE SetupScanFails
  BY <1>17 DEF SetupScanFails, SetupGoto
<1>18. CASE SetupChecks
  BY <1>18 DEF SetupChecks
<1>19. CASE SetupSnapshot
  BY <1>19 DEF SetupSnapshot
<1>20. CASE SetupConnects
  BY <1>20 DEF SetupConnects, SetupGoto
<1>21. CASE SetupRefused
  BY <1>21 DEF SetupRefused, SetupGoto
<1>22. CASE SetupConnected
  <2>1. PICK opened \in SUBSET setupLocals.selected :
            /\ sessions' = opened
            /\ setupLocals' = [setupLocals EXCEPT !.known = discovered, !.names = opened]
    BY <1>22 DEF SetupConnected
  <2>2. opened \in SUBSET Output
    BY <2>1
  <2>3. LocalsTyped'
    BY <1>22, <1>a, <2>1, <2>2 DEF SetupConnected
  <2>. QED BY <1>22, <2>2, <2>1, <2>3 DEF SetupConnected
<1>23. CASE SetupConnectFails
  BY <1>23 DEF SetupConnectFails, SetupGoto
<1>24. CASE SetupPublishes
  BY <1>24 DEF SetupPublishes, SetupGoto, NoSetup
<1>25. CASE SetupReconciles
  BY <1>25 DEF SetupReconciles, Schedule, SetupGoto
<1>26. CASE SetupUnwinds
  BY <1>26 DEF SetupUnwinds, SetupGoto
<1>27. CASE SetupFailed
  BY <1>27 DEF SetupFailed, SetupGoto, NoSetup
<1>28. CASE RenderEnds
  BY <1>28 DEF RenderEnds, SetupGoto
<1>29. CASE RefreshBegins
  BY <1>29 DEF RefreshBegins
<1>30. CASE RefreshScans
  BY <1>30, <1>b, <1>c DEF RefreshScans
<1>31. CASE RefreshFails
  BY <1>31 DEF RefreshFails
<1>32. CASE RefreshPublishes
  BY <1>32 DEF RefreshPublishes, NoOutputs
<1>33. CASE RefreshRepeats
  BY <1>33 DEF RefreshRepeats
<1>34. CASE ControlSnapshot
  BY <1>34, <1>a DEF ControlSnapshot, NoControl
<1>35. CASE ControlBegins
  BY <1>35, <1>a DEF ControlBegins, ControlGoto
<1>36. CASE ControlRefused
  BY <1>36, <1>a DEF ControlRefused, ControlGoto
<1>37. CASE ControlApplies
  BY <1>37, <1>a DEF ControlApplies
<1>38. CASE ControlFails
  BY <1>38 DEF ControlFails, ControlGoto
<1>39. CASE ControlNames
  BY <1>39 DEF ControlNames, ControlGoto
<1>40. CASE ControlPublishes
  BY <1>40 DEF ControlPublishes, ControlGoto, NoControl
<1>41. CASE ControlReports
  BY <1>41 DEF ControlReports, ControlGoto, NoControl
<1>42. CASE ControlRepeats
  BY <1>42 DEF ControlRepeats
<1>43. CASE HostSpawns \/ HostSpawnFails
  BY <1>43 DEF HostSpawns, HostSpawnFails
<1> HIDE DEF SelectionsTyped, LocalsTyped
<1>. QED
  BY StepsOfNext, <1>1, <1>2, <1>3, <1>4, <1>5, <1>6, <1>7, <1>8, <1>9, <1>10, <1>11, <1>12,
     <1>13, <1>14, <1>15, <1>16, <1>17, <1>18, <1>19, <1>20, <1>21, <1>22, <1>23, <1>24,
     <1>25, <1>26, <1>27, <1>28, <1>29, <1>30, <1>31, <1>32, <1>33, <1>34, <1>35, <1>36,
     <1>37, <1>38, <1>39, <1>40, <1>41, <1>42, <1>43
  DEF Steps

\* No step and no stutter leaves the types.
LEMMA TypeStep == Typed /\ [Next]_vars => Typed'
<1>1. Typed /\ UNCHANGED vars => Typed'
  BY DEF Typed, PointsTyped, FlagsTyped, SelectionsTyped, LocalsTyped, CountersTyped, vars
<1>. QED BY <1>1, PointsType, FlagsType, DataType DEF Typed

-----------------------------------------------------------------------------
(* The holders of transport_mutex_ and the phases of playback.             *)

\* Who enters transport_mutex_ finds it free.
LEMMA ExclusiveStep == Exclusive /\ Typed /\ Next => Exclusive'
<1> SUFFICES ASSUME Exclusive, Typed, Next PROVE Exclusive'
  OBVIOUS
<1> USE DEF Exclusive
<1>1. ASSUME NEW on \in Selection, NEW off \in Selection, NEW search \in BOOLEAN,
             Select(on, off, search)
      PROVE  Exclusive'
  BY <1>1 DEF Select
<1>2. CASE SelectStores
  BY <1>2 DEF SelectStores
<1>3. CASE SelectSchedules
  BY <1>3 DEF SelectSchedules, Schedule
<1>4. CASE SearchMembers
  BY <1>4 DEF SearchMembers
<1>5. CASE ChangePartial
  BY <1>5 DEF ChangePartial, Schedule
<1>6. CASE RequestRefresh
  BY <1>6 DEF RequestRefresh, RefreshOutputs
<1>7. CASE FailureStops
  BY <1>7 DEF FailureStops, StopPlayback, TransportFree
<1>8. CASE FailureStopsHost
  BY <1>8 DEF FailureStopsHost
<1>9. CASE UserRefreshes
  BY <1>9 DEF UserRefreshes, RefreshOutputs
<1>10. CASE HostOpen
  BY <1>10 DEF HostOpen
<1>11. CASE HostCancels
  BY <1>11 DEF HostCancels
<1>12. CASE HostStops
  BY <1>12 DEF HostStops, StopPlayback, TransportFree
<1>13. CASE HostRefreshes
  BY <1>13 DEF HostRefreshes, RefreshOutputs
<1>14. CASE SetupScan
  BY <1>14 DEF SetupScan, SetupGoto, TransportFree
<1>15. CASE SetupCaches
  BY <1>15 DEF SetupCaches, SetupGoto
<1>16. CASE SetupNeedsNoScan
  BY <1>16 DEF SetupNeedsNoScan, SetupGoto
<1>17. CASE SetupScanFails
  BY <1>17 DEF SetupScanFails, SetupGoto, TransportFree
<1>18. CASE SetupChecks
  BY <1>18 DEF SetupChecks
<1>19. CASE SetupSnapshot
  BY <1>19 DEF SetupSnapshot
<1>20. CASE SetupConnects
  BY <1>20 DEF SetupConnects, SetupGoto, TransportFree
<1>21. CASE SetupRefused
  BY <1>21 DEF SetupRefused, SetupGoto, TransportFree
<1>22. CASE SetupConnected
  BY <1>22 DEF SetupConnected, SetupGoto
<1>23. CASE SetupConnectFails
  BY <1>23 DEF SetupConnectFails, SetupGoto
<1>24. CASE SetupPublishes
  BY <1>24 DEF SetupPublishes, SetupGoto
<1>25. CASE SetupReconciles
  BY <1>25 DEF SetupReconciles, Schedule, SetupGoto
<1>26. CASE SetupUnwinds
  BY <1>26 DEF SetupUnwinds, SetupGoto, TransportFree
<1>27. CASE SetupFailed
  BY <1>27 DEF SetupFailed, SetupGoto
<1>28. CASE RenderEnds
  BY <1>28 DEF RenderEnds, SetupGoto
<1>29. CASE RefreshBegins
  BY <1>29 DEF RefreshBegins, TransportFree
<1>30. CASE RefreshScans
  BY <1>30 DEF RefreshScans
<1>31. CASE RefreshFails
  BY <1>31 DEF RefreshFails
<1>32. CASE RefreshPublishes
  BY <1>32 DEF RefreshPublishes
<1>33. CASE RefreshRepeats
  BY <1>33 DEF RefreshRepeats
<1>34. CASE ControlSnapshot
  BY <1>34 DEF ControlSnapshot
<1>35. CASE ControlBegins
  BY <1>35 DEF ControlBegins, TransportFree, ControlGoto
<1>36. CASE ControlRefused
  BY <1>36 DEF ControlRefused, TransportFree, ControlGoto
<1>37. CASE ControlApplies
  BY <1>37 DEF ControlApplies
<1>38. CASE ControlFails
  BY <1>38 DEF ControlFails, ControlGoto
<1>39. CASE ControlNames
  BY <1>39 DEF ControlNames, TransportFree, ControlGoto
<1>40. CASE ControlPublishes
  BY <1>40 DEF ControlPublishes, ControlGoto
<1>41. CASE ControlReports
  BY <1>41 DEF ControlReports, ControlGoto
<1>42. CASE ControlRepeats
  BY <1>42 DEF ControlRepeats
<1>43. CASE HostSpawns \/ HostSpawnFails
  BY <1>43 DEF HostSpawns, HostSpawnFails
<1> HIDE DEF Exclusive
<1>. QED
  BY StepsOfNext, <1>1, <1>2, <1>3, <1>4, <1>5, <1>6, <1>7, <1>8, <1>9, <1>10, <1>11, <1>12,
     <1>13, <1>14, <1>15, <1>16, <1>17, <1>18, <1>19, <1>20, <1>21, <1>22, <1>23, <1>24,
     <1>25, <1>26, <1>27, <1>28, <1>29, <1>30, <1>31, <1>32, <1>33, <1>34, <1>35, <1>36,
     <1>37, <1>38, <1>39, <1>40, <1>41, <1>42, <1>43
  DEF Steps

\* A stop or a failed setup closes playback only when nobody connects for it:
\* both hold transport_mutex_.
LEMMA PhasesStep == Phases /\ Exclusive /\ Typed /\ Next => Phases'
<1> SUFFICES ASSUME Phases, Exclusive, Typed, Next PROVE Phases'
  OBVIOUS
<1>. PointsTyped /\ LocalsTyped
  BY DEF Typed
<1> USE DEF Phases, Exclusive, HandshakeSteps, CancelVisible, PointsTyped
<1>1. ASSUME NEW on \in Selection, NEW off \in Selection, NEW search \in BOOLEAN,
             Select(on, off, search)
      PROVE  Phases'
  BY <1>1 DEF Select
<1>2. CASE SelectStores
  BY <1>2 DEF SelectStores
<1>3. CASE SelectSchedules
  BY <1>3 DEF SelectSchedules, Schedule
<1>4. CASE SearchMembers
  BY <1>4 DEF SearchMembers
<1>5. CASE ChangePartial
  BY <1>5 DEF ChangePartial, Schedule
<1>6. CASE RequestRefresh
  BY <1>6 DEF RequestRefresh, RefreshOutputs, PlaybackActive
<1>7. CASE FailureStops
  BY <1>7 DEF FailureStops, StopPlayback, TransportFree
<1>8. CASE FailureStopsHost
  BY <1>8 DEF FailureStopsHost
<1>9. CASE UserRefreshes
  BY <1>9 DEF UserRefreshes, RefreshOutputs, PlaybackActive
<1>10. CASE HostOpen
  BY <1>10 DEF HostOpen
<1>11. CASE HostCancels
  BY <1>11 DEF HostCancels
<1>12. CASE HostStops
  BY <1>12 DEF HostStops, StopPlayback, TransportFree
<1>13. CASE HostRefreshes
  BY <1>13 DEF HostRefreshes, RefreshOutputs, PlaybackActive
<1>14. CASE SetupScan
  BY <1>14 DEF SetupScan, SetupGoto, TransportFree
<1>15. CASE SetupCaches
  BY <1>15 DEF SetupCaches, SetupGoto
<1>16. CASE SetupNeedsNoScan
  BY <1>16 DEF SetupNeedsNoScan, SetupGoto
<1>17. CASE SetupScanFails
  BY <1>17 DEF SetupScanFails, SetupGoto, TransportFree
<1>18. CASE SetupChecks
  BY <1>18 DEF SetupChecks
<1>19. CASE SetupSnapshot
  BY <1>19 DEF SetupSnapshot
<1>20. CASE SetupConnects
  BY <1>20 DEF SetupConnects, SetupGoto, TransportFree
<1>21. CASE SetupRefused
  BY <1>21 DEF SetupRefused, SetupGoto, TransportFree
<1>22. CASE SetupConnected
  BY <1>22 DEF SetupConnected, SetupGoto
<1>23. CASE SetupConnectFails
  BY <1>23 DEF SetupConnectFails, SetupGoto
<1>24. CASE SetupPublishes
  BY <1>24 DEF SetupPublishes, SetupGoto
<1>25. CASE SetupReconciles
  BY <1>25 DEF SetupReconciles, Schedule, SetupGoto
<1>26. CASE SetupUnwinds
  BY <1>26 DEF SetupUnwinds, SetupGoto, TransportFree
<1>27. CASE SetupFailed
  BY <1>27 DEF SetupFailed, SetupGoto
<1>28. CASE RenderEnds
  BY <1>28 DEF RenderEnds, SetupGoto
<1>29. CASE RefreshBegins
  BY <1>29 DEF RefreshBegins, TransportFree, PlaybackActive
<1>30. CASE RefreshScans
  BY <1>30 DEF RefreshScans
<1>31. CASE RefreshFails
  BY <1>31 DEF RefreshFails
<1>32. CASE RefreshPublishes
  BY <1>32 DEF RefreshPublishes
<1>33. CASE RefreshRepeats
  BY <1>33 DEF RefreshRepeats
<1>34. CASE ControlSnapshot
  BY <1>34 DEF ControlSnapshot, LocalsTyped
<1>35. CASE ControlBegins
  BY <1>35 DEF ControlBegins, TransportFree, ControlGoto, LocalsTyped
<1>36. CASE ControlRefused
  BY <1>36 DEF ControlRefused, TransportFree, ControlGoto
<1>37. CASE ControlApplies
  BY <1>37 DEF ControlApplies
<1>38. CASE ControlFails
  BY <1>38 DEF ControlFails, ControlGoto
<1>39. CASE ControlNames
  BY <1>39 DEF ControlNames, TransportFree, ControlGoto
<1>40. CASE ControlPublishes
  BY <1>40 DEF ControlPublishes, ControlGoto
<1>41. CASE ControlReports
  BY <1>41 DEF ControlReports, ControlGoto
<1>42. CASE ControlRepeats
  BY <1>42 DEF ControlRepeats
<1>43. CASE HostSpawns \/ HostSpawnFails
  BY <1>43 DEF HostSpawns, HostSpawnFails
<1> HIDE DEF Phases, Exclusive, HandshakeSteps, PointsTyped
<1>. QED
  BY StepsOfNext, <1>1, <1>2, <1>3, <1>4, <1>5, <1>6, <1>7, <1>8, <1>9, <1>10, <1>11, <1>12,
     <1>13, <1>14, <1>15, <1>16, <1>17, <1>18, <1>19, <1>20, <1>21, <1>22, <1>23, <1>24,
     <1>25, <1>26, <1>27, <1>28, <1>29, <1>30, <1>31, <1>32, <1>33, <1>34, <1>35, <1>36,
     <1>37, <1>38, <1>39, <1>40, <1>41, <1>42, <1>43
  DEF Steps

-----------------------------------------------------------------------------
(* Discovery first, then the cache, the copies and the selections.         *)

\* What is copied, published and enabled stays within what was discovered.
LEMMA FoundFirstStep == FoundFirst /\ Typed /\ Next => FoundFirst'
<1> SUFFICES ASSUME FoundFirst, Typed, Next PROVE FoundFirst'
  OBVIOUS
<1>. LocalsTyped /\ FlagsTyped
  BY DEF Typed
<1>a. discovered' \in BOOLEAN
  BY FlagsType, Zenon DEF FlagsTyped
<1> USE DEF FoundFirst, LocalsTyped
<1>1. ASSUME NEW on \in Selection, NEW off \in Selection, NEW search \in BOOLEAN,
             Select(on, off, search)
      PROVE  FoundFirst'
  BY <1>1 DEF Select
<1>2. CASE SelectStores
  BY <1>2 DEF SelectStores
<1>3. CASE SelectSchedules
  BY <1>3 DEF SelectSchedules, Schedule
<1>4. CASE SearchMembers
  BY <1>4 DEF SearchMembers
<1>5. CASE ChangePartial
  BY <1>5 DEF ChangePartial, Schedule
<1>6. CASE RequestRefresh
  BY <1>6 DEF RequestRefresh, RefreshOutputs
<1>7. CASE FailureStops
  BY <1>7 DEF FailureStops, StopPlayback
<1>8. CASE FailureStopsHost
  BY <1>8 DEF FailureStopsHost
<1>9. CASE UserRefreshes
  BY <1>9 DEF UserRefreshes, RefreshOutputs
<1>10. CASE HostOpen
  BY <1>10 DEF HostOpen
<1>11. CASE HostCancels
  BY <1>11 DEF HostCancels
<1>12. CASE HostStops
  BY <1>12 DEF HostStops, StopPlayback
<1>13. CASE HostRefreshes
  BY <1>13 DEF HostRefreshes, RefreshOutputs
<1>14. CASE SetupScan
  <2>1. discovered => discovered'
    BY <1>14, Zenon DEF SetupScan
  <2>2. setupLocals'.known = discovered' /\ setupLocals'.selected = Listed(discovered')
    BY <1>14 DEF SetupScan
  <2>3. Listed(discovered') # {} => discovered'
    BY Zenon DEF Listed
  <2>. QED BY <1>14, <2>1, <2>2, <2>3 DEF SetupScan, SetupGoto
<1>15. CASE SetupCaches
  BY <1>15 DEF SetupCaches, SetupGoto
<1>16. CASE SetupNeedsNoScan
  BY <1>16 DEF SetupNeedsNoScan, SetupGoto
<1>17. CASE SetupScanFails
  <2>1. discovered => discovered'
    BY <1>17, Zenon DEF SetupScanFails
  <2>. QED BY <1>17, <2>1 DEF SetupScanFails, SetupGoto
<1>18. CASE SetupChecks
  BY <1>18 DEF SetupChecks
<1>19. CASE SetupSnapshot
  BY <1>19 DEF SetupSnapshot
<1>20. CASE SetupConnects
  BY <1>20 DEF SetupConnects, SetupGoto
<1>21. CASE SetupRefused
  BY <1>21 DEF SetupRefused, SetupGoto
<1>22. CASE SetupConnected
  BY <1>22 DEF SetupConnected, SetupGoto
<1>23. CASE SetupConnectFails
  BY <1>23 DEF SetupConnectFails, SetupGoto
<1>24. CASE SetupPublishes
  BY <1>24 DEF SetupPublishes, SetupGoto, NoSetup
<1>25. CASE SetupReconciles
  BY <1>25 DEF SetupReconciles, Schedule, SetupGoto
<1>26. CASE SetupUnwinds
  BY <1>26 DEF SetupUnwinds, SetupGoto
<1>27. CASE SetupFailed
  BY <1>27 DEF SetupFailed, SetupGoto, NoSetup
<1>28. CASE RenderEnds
  BY <1>28 DEF RenderEnds, SetupGoto
<1>29. CASE RefreshBegins
  BY <1>29 DEF RefreshBegins
<1>30. CASE RefreshScans
  BY <1>30, <1>a DEF RefreshScans, Listed
<1>31. CASE RefreshFails
  BY <1>31 DEF RefreshFails
<1>32. CASE RefreshPublishes
  BY <1>32 DEF RefreshPublishes, NoOutputs
<1>33. CASE RefreshRepeats
  BY <1>33 DEF RefreshRepeats
<1>34. CASE ControlSnapshot
  BY <1>34 DEF ControlSnapshot, NoControl
<1>35. CASE ControlBegins
  BY <1>35 DEF ControlBegins, ControlGoto
<1>36. CASE ControlRefused
  BY <1>36 DEF ControlRefused, ControlGoto
<1>37. CASE ControlApplies
  BY <1>37 DEF ControlApplies
<1>38. CASE ControlFails
  BY <1>38 DEF ControlFails, ControlGoto
<1>39. CASE ControlNames
  BY <1>39 DEF ControlNames, ControlGoto
<1>40. CASE ControlPublishes
  BY <1>40 DEF ControlPublishes, ControlGoto, NoControl
<1>41. CASE ControlReports
  BY <1>41 DEF ControlReports, ControlGoto, NoControl
<1>42. CASE ControlRepeats
  BY <1>42 DEF ControlRepeats
<1>43. CASE HostSpawns \/ HostSpawnFails
  BY <1>43 DEF HostSpawns, HostSpawnFails
<1> HIDE DEF FoundFirst, LocalsTyped
<1>. QED
  BY StepsOfNext, <1>1, <1>2, <1>3, <1>4, <1>5, <1>6, <1>7, <1>8, <1>9, <1>10, <1>11, <1>12,
     <1>13, <1>14, <1>15, <1>16, <1>17, <1>18, <1>19, <1>20, <1>21, <1>22, <1>23, <1>24,
     <1>25, <1>26, <1>27, <1>28, <1>29, <1>30, <1>31, <1>32, <1>33, <1>34, <1>35, <1>36,
     <1>37, <1>38, <1>39, <1>40, <1>41, <1>42, <1>43
  DEF Steps

-----------------------------------------------------------------------------
(* Receivers are open for playback, and never during a scan.               *)

\* A receiver is opened by a setup or, while playback is open, by the control
\* worker; both end playback with the receivers closed.
LEMMA SessionsStep ==
    SessionsHavePlayback /\ Phases /\ Exclusive /\ Typed /\ Next => SessionsHavePlayback'
<1> SUFFICES ASSUME SessionsHavePlayback, Phases, Exclusive, Typed, Next
             PROVE SessionsHavePlayback'
  OBVIOUS
<1>. PointsTyped
  BY DEF Typed
<1> USE DEF SessionsHavePlayback, Phases, HandshakeSteps, PointsTyped
<1>1. ASSUME NEW on \in Selection, NEW off \in Selection, NEW search \in BOOLEAN,
             Select(on, off, search)
      PROVE  SessionsHavePlayback'
  BY <1>1 DEF Select
<1>2. CASE SelectStores
  BY <1>2 DEF SelectStores
<1>3. CASE SelectSchedules
  BY <1>3 DEF SelectSchedules, Schedule
<1>4. CASE SearchMembers
  BY <1>4 DEF SearchMembers
<1>5. CASE ChangePartial
  BY <1>5 DEF ChangePartial, Schedule
<1>6. CASE RequestRefresh
  BY <1>6 DEF RequestRefresh, RefreshOutputs
<1>7. CASE FailureStops
  BY <1>7 DEF FailureStops, StopPlayback, TransportFree
<1>8. CASE FailureStopsHost
  BY <1>8 DEF FailureStopsHost
<1>9. CASE UserRefreshes
  BY <1>9 DEF UserRefreshes, RefreshOutputs
<1>10. CASE HostOpen
  BY <1>10 DEF HostOpen
<1>11. CASE HostCancels
  BY <1>11 DEF HostCancels
<1>12. CASE HostStops
  BY <1>12 DEF HostStops, StopPlayback, TransportFree
<1>13. CASE HostRefreshes
  BY <1>13 DEF HostRefreshes, RefreshOutputs
<1>14. CASE SetupScan
  BY <1>14 DEF SetupScan, SetupGoto, TransportFree
<1>15. CASE SetupCaches
  BY <1>15 DEF SetupCaches, SetupGoto
<1>16. CASE SetupNeedsNoScan
  BY <1>16 DEF SetupNeedsNoScan, SetupGoto
<1>17. CASE SetupScanFails
  BY <1>17 DEF SetupScanFails, SetupGoto, TransportFree
<1>18. CASE SetupChecks
  BY <1>18 DEF SetupChecks
<1>19. CASE SetupSnapshot
  BY <1>19 DEF SetupSnapshot
<1>20. CASE SetupConnects
  BY <1>20 DEF SetupConnects, SetupGoto, TransportFree
<1>21. CASE SetupRefused
  BY <1>21 DEF SetupRefused, SetupGoto, TransportFree
<1>22. CASE SetupConnected
  BY <1>22 DEF SetupConnected, SetupGoto
<1>23. CASE SetupConnectFails
  BY <1>23 DEF SetupConnectFails, SetupGoto
<1>24. CASE SetupPublishes
  BY <1>24 DEF SetupPublishes, SetupGoto
<1>25. CASE SetupReconciles
  BY <1>25 DEF SetupReconciles, Schedule, SetupGoto
<1>26. CASE SetupUnwinds
  BY <1>26 DEF SetupUnwinds, SetupGoto, TransportFree
<1>27. CASE SetupFailed
  BY <1>27 DEF SetupFailed, SetupGoto
<1>28. CASE RenderEnds
  BY <1>28 DEF RenderEnds, SetupGoto
<1>29. CASE RefreshBegins
  BY <1>29 DEF RefreshBegins, TransportFree
<1>30. CASE RefreshScans
  BY <1>30 DEF RefreshScans
<1>31. CASE RefreshFails
  BY <1>31 DEF RefreshFails
<1>32. CASE RefreshPublishes
  BY <1>32 DEF RefreshPublishes
<1>33. CASE RefreshRepeats
  BY <1>33 DEF RefreshRepeats
<1>34. CASE ControlSnapshot
  BY <1>34 DEF ControlSnapshot
<1>35. CASE ControlBegins
  BY <1>35 DEF ControlBegins, TransportFree, ControlGoto
<1>36. CASE ControlRefused
  BY <1>36 DEF ControlRefused, TransportFree, ControlGoto
<1>37. CASE ControlApplies
  BY <1>37 DEF ControlApplies
<1>38. CASE ControlFails
  BY <1>38 DEF ControlFails, ControlGoto
<1>39. CASE ControlNames
  BY <1>39 DEF ControlNames, TransportFree, ControlGoto
<1>40. CASE ControlPublishes
  BY <1>40 DEF ControlPublishes, ControlGoto
<1>41. CASE ControlReports
  BY <1>41 DEF ControlReports, ControlGoto
<1>42. CASE ControlRepeats
  BY <1>42 DEF ControlRepeats
<1>43. CASE HostSpawns \/ HostSpawnFails
  BY <1>43 DEF HostSpawns, HostSpawnFails
<1> HIDE DEF SessionsHavePlayback, Phases, HandshakeSteps, PointsTyped
<1>. QED
  BY StepsOfNext, <1>1, <1>2, <1>3, <1>4, <1>5, <1>6, <1>7, <1>8, <1>9, <1>10, <1>11, <1>12,
     <1>13, <1>14, <1>15, <1>16, <1>17, <1>18, <1>19, <1>20, <1>21, <1>22, <1>23, <1>24,
     <1>25, <1>26, <1>27, <1>28, <1>29, <1>30, <1>31, <1>32, <1>33, <1>34, <1>35, <1>36,
     <1>37, <1>38, <1>39, <1>40, <1>41, <1>42, <1>43
  DEF Steps

\* A scan starts with no session and shuts out who could open one.
LEMMA ScanStep ==
    ScanOnlyWithoutSessions /\ SessionsHavePlayback /\ Phases /\ Exclusive /\ Typed /\ Next
        => ScanOnlyWithoutSessions'
<1> SUFFICES ASSUME ScanOnlyWithoutSessions, SessionsHavePlayback, Phases, Exclusive,
                    Typed, Next
             PROVE ScanOnlyWithoutSessions'
  OBVIOUS
<1>. PointsTyped
  BY DEF Typed
<1> USE DEF ScanOnlyWithoutSessions, SessionsHavePlayback, Phases, Exclusive,
            HandshakeSteps, PointsTyped
<1>1. ASSUME NEW on \in Selection, NEW off \in Selection, NEW search \in BOOLEAN,
             Select(on, off, search)
      PROVE  ScanOnlyWithoutSessions'
  BY <1>1 DEF Select
<1>2. CASE SelectStores
  BY <1>2 DEF SelectStores
<1>3. CASE SelectSchedules
  BY <1>3 DEF SelectSchedules, Schedule
<1>4. CASE SearchMembers
  BY <1>4 DEF SearchMembers
<1>5. CASE ChangePartial
  BY <1>5 DEF ChangePartial, Schedule
<1>6. CASE RequestRefresh
  BY <1>6 DEF RequestRefresh, RefreshOutputs, PlaybackActive
<1>7. CASE FailureStops
  BY <1>7 DEF FailureStops, StopPlayback, TransportFree
<1>8. CASE FailureStopsHost
  BY <1>8 DEF FailureStopsHost
<1>9. CASE UserRefreshes
  BY <1>9 DEF UserRefreshes, RefreshOutputs, PlaybackActive
<1>10. CASE HostOpen
  BY <1>10 DEF HostOpen
<1>11. CASE HostCancels
  BY <1>11 DEF HostCancels
<1>12. CASE HostStops
  BY <1>12 DEF HostStops, StopPlayback, TransportFree
<1>13. CASE HostRefreshes
  BY <1>13 DEF HostRefreshes, RefreshOutputs, PlaybackActive
<1>14. CASE SetupScan
  BY <1>14 DEF SetupScan, SetupGoto, TransportFree
<1>15. CASE SetupCaches
  BY <1>15 DEF SetupCaches, SetupGoto
<1>16. CASE SetupNeedsNoScan
  BY <1>16 DEF SetupNeedsNoScan, SetupGoto
<1>17. CASE SetupScanFails
  BY <1>17 DEF SetupScanFails, SetupGoto, TransportFree
<1>18. CASE SetupChecks
  BY <1>18 DEF SetupChecks
<1>19. CASE SetupSnapshot
  BY <1>19 DEF SetupSnapshot
<1>20. CASE SetupConnects
  BY <1>20 DEF SetupConnects, SetupGoto, TransportFree
<1>21. CASE SetupRefused
  BY <1>21 DEF SetupRefused, SetupGoto, TransportFree
<1>22. CASE SetupConnected
  BY <1>22 DEF SetupConnected, SetupGoto
<1>23. CASE SetupConnectFails
  BY <1>23 DEF SetupConnectFails, SetupGoto
<1>24. CASE SetupPublishes
  BY <1>24 DEF SetupPublishes, SetupGoto
<1>25. CASE SetupReconciles
  BY <1>25 DEF SetupReconciles, Schedule, SetupGoto
<1>26. CASE SetupUnwinds
  BY <1>26 DEF SetupUnwinds, SetupGoto, TransportFree
<1>27. CASE SetupFailed
  BY <1>27 DEF SetupFailed, SetupGoto
<1>28. CASE RenderEnds
  BY <1>28 DEF RenderEnds, SetupGoto
<1>29. CASE RefreshBegins
  BY <1>29 DEF RefreshBegins, TransportFree, PlaybackActive
<1>30. CASE RefreshScans
  BY <1>30 DEF RefreshScans
<1>31. CASE RefreshFails
  BY <1>31 DEF RefreshFails
<1>32. CASE RefreshPublishes
  BY <1>32 DEF RefreshPublishes
<1>33. CASE RefreshRepeats
  BY <1>33 DEF RefreshRepeats
<1>34. CASE ControlSnapshot
  BY <1>34 DEF ControlSnapshot
<1>35. CASE ControlBegins
  BY <1>35 DEF ControlBegins, TransportFree, ControlGoto
<1>36. CASE ControlRefused
  BY <1>36 DEF ControlRefused, TransportFree, ControlGoto
<1>37. CASE ControlApplies
  BY <1>37 DEF ControlApplies
<1>38. CASE ControlFails
  BY <1>38 DEF ControlFails, ControlGoto
<1>39. CASE ControlNames
  BY <1>39 DEF ControlNames, TransportFree, ControlGoto
<1>40. CASE ControlPublishes
  BY <1>40 DEF ControlPublishes, ControlGoto
<1>41. CASE ControlReports
  BY <1>41 DEF ControlReports, ControlGoto
<1>42. CASE ControlRepeats
  BY <1>42 DEF ControlRepeats
<1>43. CASE HostSpawns \/ HostSpawnFails
  BY <1>43 DEF HostSpawns, HostSpawnFails
<1> HIDE DEF ScanOnlyWithoutSessions, SessionsHavePlayback, Phases, Exclusive,
     HandshakeSteps, PointsTyped
<1>. QED
  BY StepsOfNext, <1>1, <1>2, <1>3, <1>4, <1>5, <1>6, <1>7, <1>8, <1>9, <1>10, <1>11, <1>12,
     <1>13, <1>14, <1>15, <1>16, <1>17, <1>18, <1>19, <1>20, <1>21, <1>22, <1>23, <1>24,
     <1>25, <1>26, <1>27, <1>28, <1>29, <1>30, <1>31, <1>32, <1>33, <1>34, <1>35, <1>36,
     <1>37, <1>38, <1>39, <1>40, <1>41, <1>42, <1>43
  DEF Steps

-----------------------------------------------------------------------------
(* The invariant, and what follows from it.                                *)

\* The invariant is inductive ...
LEMMA InvStep == Inv /\ [Next]_vars => Inv'
<1>1. Inv /\ UNCHANGED vars => Inv'
  BY TypeStep DEF Inv, Exclusive, Phases, FoundFirst, HandshakeSteps, CancelVisible,
                  SessionsHavePlayback, ScanOnlyWithoutSessions, vars
<1>. QED BY <1>1, TypeStep, ExclusiveStep, PhasesStep, FoundFirstStep, SessionsStep,
            ScanStep DEF Inv

\* ... and holds in every reachable state.
THEOREM Invariance == Spec => []Inv
<1>. QED BY InitInv, InvStep, PTL DEF Spec

\* Every variable keeps its type, and an empty cache selects nothing.
THEOREM TypeCorrect == Spec => []TypeOK
<1>1. Inv => TypeOK
  BY Zenon DEF Inv, Typed, FoundFirst, TypeOK
<1>. QED BY <1>1, Invariance, PTL

\* Whatever stops and updates overlap, a receiver is open only while its stream
\* is open or being set up, and the engine can close it.
THEOREM SessionsCorrect == Spec => []SessionsHavePlayback
<1>1. Inv => SessionsHavePlayback
  BY DEF Inv
<1>. QED BY <1>1, Invariance, PTL

\* The refresh worker never scans while a receiver is open.
THEOREM ScanCorrect == Spec => []ScanOnlyWithoutSessions
<1>1. Inv => ScanOnlyWithoutSessions
  BY DEF Inv
<1>. QED BY <1>1, Invariance, PTL

\* A setup that is being stopped can see that it is.
THEOREM CancelVisibleCorrect == Spec => []CancelVisible
<1>1. Inv => CancelVisible
  BY DEF Inv, Phases
<1>. QED BY <1>1, Invariance, PTL

\* playback_active() holds from prepare_playback_open() to the end of the stream.
THEOREM AnnouncementCorrect == Spec => []PlaybackAnnounced
<1>1. Inv => PlaybackAnnounced
  BY DEF Inv, Typed, PointsTyped, Phases, HandshakeSteps, PlaybackAnnounced, PlaybackActive
<1>. QED BY <1>1, Invariance, PTL

-----------------------------------------------------------------------------
(* The calls of the output.                                                *)

\* The steps of the host and of the setup, one by one: each is a call, the end of
\* the render thread, or nothing.
LEMMA CallsStep ==
    Phases /\ Typed /\ Next => Calls!Next \/ UNCHANGED Calls!callsVars
<1> SUFFICES ASSUME Phases, Typed, Next PROVE Calls!Next \/ UNCHANGED Calls!callsVars
  OBVIOUS
<1>0. host \in {"closed", "spawning", "streaming", "stopping", "refreshing"}
  BY DEF Typed, PointsTyped
<1> USE <1>0 DEF Phases, Calls!callsVars, Calls!Next, SetupGoto
<1>1. CASE HostOpen
  BY <1>1 DEF HostOpen, Calls!Prepare
<1>2. CASE HostSpawns
  BY <1>2 DEF HostSpawns, Calls!Start
<1>3. CASE HostSpawnFails
  BY <1>3 DEF HostSpawnFails, Calls!StartFails
<1>4. CASE HostCancels
  BY <1>4 DEF HostCancels, Calls!Cancel
<1>5. CASE HostStops
  BY <1>5 DEF HostStops, Calls!Stop
<1>6. CASE HostRefreshes
  BY <1>6 DEF HostRefreshes
<1>7. CASE SetupFailed \/ RenderEnds
  BY <1>7 DEF SetupFailed, RenderEnds, Calls!End
<1>8. CASE SetupScan \/ SetupCaches \/ SetupNeedsNoScan \/ SetupScanFails \/ SetupChecks
          \/ SetupSnapshot \/ SetupConnects \/ SetupRefused \/ SetupConnected
          \/ SetupConnectFails \/ SetupPublishes \/ SetupReconciles \/ SetupUnwinds
  <2>1. setup \notin {"none", "done"} /\ setup' \notin {"none", "done"} /\ UNCHANGED host
    BY <1>8 DEF SetupScan, SetupCaches, SetupNeedsNoScan, SetupScanFails, SetupChecks,
      SetupSnapshot, SetupConnects, SetupRefused, SetupConnected, SetupConnectFails,
      SetupPublishes, SetupReconciles, SetupUnwinds
  <2>. QED BY <2>1
<1>9. ASSUME NEW on \in Selection, NEW off \in Selection, NEW search \in BOOLEAN,
             Select(on, off, search)
      PROVE  UNCHANGED <<host, setup>>
  BY <1>9 DEF Select
<1>10. CASE SelectStores \/ SelectSchedules \/ SearchMembers \/ ChangePartial
           \/ RequestRefresh \/ FailureStops \/ FailureStopsHost \/ UserRefreshes
           \/ RefreshBegins \/ RefreshScans \/ RefreshFails \/ RefreshPublishes
           \/ RefreshRepeats \/ ControlSnapshot \/ ControlBegins \/ ControlRefused
           \/ ControlApplies \/ ControlFails \/ ControlNames \/ ControlPublishes
           \/ ControlReports \/ ControlRepeats
  <2>1. UNCHANGED <<host, setup>>
    BY <1>10, Zenon DEF SelectStores, SelectSchedules, SearchMembers, ChangePartial,
      RequestRefresh, FailureStops, FailureStopsHost, UserRefreshes, RefreshBegins,
      RefreshScans, RefreshFails, RefreshPublishes, RefreshRepeats, ControlSnapshot,
      ControlBegins, ControlRefused, ControlApplies, ControlFails, ControlNames,
      ControlPublishes, ControlReports, ControlRepeats
  <2>. QED BY <2>1
<1>11. ASSUME UNCHANGED <<host, setup>> PROVE UNCHANGED Calls!callsVars
  BY <1>11
<1> HIDE DEF Phases, Calls!callsVars, Calls!Next
<1>. QED
  BY StepsOfNext, <1>1, <1>2, <1>3, <1>4, <1>5, <1>6, <1>7, <1>8, <1>9, <1>10, <1>11
  DEF Steps

\* The lifecycle is driven by the calls that HostCalls has and by no others.
THEOREM LifecycleFollowsCalls == Spec => FollowsCalls
<1>1. Init => Calls!Init
  BY DEF Init, Calls!Init
<1>2. Inv /\ [Next]_vars => [Calls!Next]_Calls!callsVars
  <2>1. UNCHANGED vars => UNCHANGED Calls!callsVars
    BY DEF vars, Calls!callsVars
  <2>. QED BY <2>1, CallsStep DEF Inv
<1>. QED BY <1>1, <1>2, Invariance, PTL DEF Spec, FollowsCalls, Calls!Spec

-----------------------------------------------------------------------------
(* The selection on its way from the user to the receivers: while a stream *)
(* plays, the cache, the registry and the receivers agree, or else a full  *)
(* update is under way or due.  "lost" has who published an older          *)
(* selection.                                                              *)

\* What is selected in the cache and not yet stored.
PendingApart ==
    /\ user # "store" => pending.on = {} /\ pending.off = {}
    /\ pending.on \cap pending.off = {}

\* A request starts the worker, and the worker leaves none behind.
RequestsTaken == requests # {} => control # "none"

\* The flags of a cancel are raised by the host that goes on to stop.
CancelOwned == cancel_requested => host = "stopping"

Playing == setup \in {"reconcile", "playing"}

\* Nothing is scanned from the handshake on: the cache knows the outputs if
\* discovery has found them.
DiscoverySettled ==
    /\ setup \in {"connecting", "publish", "reconcile", "playing"} => refresh # "scanning"
    /\ setup = "publish" => (setupLocals.known <=> discovered)
    /\ Playing /\ lost = {} => (known <=> discovered)

\* The cache has what the user wants.
CacheFollows == Playing /\ lost = {} /\ known => cached = Wish

\* The registry has the selection of whoever connects by it.
SelectionHeld ==
    /\ control = "applying" => enabled = controlLocals.selected
    /\ setup = "connecting" => enabled = setupLocals.selected

\* Receivers are closed when they are deselected, but for an update that a stop
\* has cancelled.
SessionsEnabled == host # "stopping" => sessions \subseteq enabled

\* A full update will be made of what the cache has then.
Due == setup = "reconcile" \/ user \in {"store", "schedule"} \/ "full" \in requests

\* Otherwise the update under way has copied the selection, or the registry has it.
UpdateFollows ==
    Playing /\ lost = {} /\ known /\ ~Due =>
        IF control = "apply" THEN controlLocals.selected = cached ELSE enabled = cached

\* Playback runs, and no full update is requested.
Steady == host = "streaming" /\ setup = "playing" /\ "full" \notin requests

\* An update in progress will renew the label; without one it is up to date, or
\* was cleared by a failure.
LabelFollows ==
    Steady =>
        /\ control \in {"apply", "applying", "names", "publish", "failed"} => controlLocals.connect
        /\ control = "publish" => controlLocals.names = sessions
        /\ control \in {"none", "snapshot", "again"} =>
               names \subseteq sessions /\ (~control_failed => names = sessions)

SelectionInv ==
    /\ PendingApart /\ RequestsTaken /\ CancelOwned /\ DiscoverySettled /\ CacheFollows
    /\ SelectionHeld /\ SessionsEnabled /\ UpdateFollows /\ LabelFollows

\* A selection is stored before the next is made, and takes effect once.
LEMMA PendingStep == PendingApart /\ Typed /\ Next => PendingApart'
<1> SUFFICES ASSUME PendingApart, Typed, Next PROVE PendingApart'
  OBVIOUS
<1>1. ASSUME NEW on \in Selection, NEW off \in Selection, NEW search \in BOOLEAN, on \cap off = {},
             Select(on, off, search)
      PROVE PendingApart'
  BY <1>1 DEF Select, PendingApart
<1>2. CASE SelectStores
  BY <1>2 DEF SelectStores, PendingApart, NonePending
<1>3. CASE SelectSchedules
  BY <1>3 DEF SelectSchedules, PendingApart, NonePending
<1>4. CASE SearchMembers
  BY <1>4 DEF SearchMembers, PendingApart
<1>5. CASE FailureStops
  BY <1>5 DEF FailureStops, StopPlayback, PendingApart
<1>6. CASE UserRefreshes
  BY <1>6 DEF UserRefreshes, PendingApart
<1>7. CASE ChangePartial \/ RequestRefresh \/ FailureStopsHost \/ HostOpen
          \/ HostSpawns \/ HostSpawnFails \/ HostCancels \/ HostStops \/ HostRefreshes \/ SetupScan \/ SetupCaches \/ SetupNeedsNoScan
          \/ SetupScanFails \/ SetupChecks \/ SetupSnapshot \/ SetupConnects
          \/ SetupRefused \/ SetupConnected \/ SetupConnectFails \/ SetupPublishes
          \/ SetupReconciles \/ SetupUnwinds \/ SetupFailed \/ RenderEnds \/ RefreshBegins
          \/ RefreshScans \/ RefreshFails \/ RefreshPublishes \/ RefreshRepeats
          \/ ControlSnapshot \/ ControlBegins \/ ControlRefused \/ ControlApplies
          \/ ControlFails \/ ControlNames \/ ControlPublishes \/ ControlReports
          \/ ControlRepeats
  <2>1. UNCHANGED <<user, pending>>
    BY <1>7, Zenon DEF ChangePartial, RequestRefresh, FailureStopsHost, HostOpen, HostSpawns,
      HostSpawnFails, HostCancels, HostStops, StopPlayback, HostRefreshes, SetupScan, SetupGoto, SetupCaches,
      SetupNeedsNoScan, SetupScanFails, SetupChecks, SetupSnapshot, SetupConnects,
      SetupRefused, SetupConnected, SetupConnectFails, SetupPublishes, SetupReconciles,
      SetupUnwinds, SetupFailed, RenderEnds, RefreshBegins, RefreshScans, RefreshFails,
      RefreshPublishes, RefreshRepeats, ControlSnapshot, ControlBegins, ControlGoto,
      ControlRefused, ControlApplies, ControlFails, ControlNames, ControlPublishes,
      ControlReports, ControlRepeats
  <2>. QED BY <2>1 DEF PendingApart
<1>. QED BY StepsOfNext, <1>1, <1>2, <1>3, <1>4, <1>5, <1>6, <1>7
  DEF Steps

\* Whoever requests an update starts the worker unless it runs.
LEMMA RequestsStep == RequestsTaken /\ Typed /\ Next => RequestsTaken'
<1> SUFFICES ASSUME RequestsTaken, Typed, Next PROVE RequestsTaken'
  OBVIOUS
<1>1. CASE SelectSchedules
  BY <1>1 DEF SelectSchedules, Schedule, RequestsTaken
<1>2. CASE ChangePartial
  BY <1>2 DEF ChangePartial, Schedule, RequestsTaken
<1>3. CASE SetupReconciles
  BY <1>3 DEF SetupReconciles, SetupGoto, Schedule, RequestsTaken
<1>4. CASE ControlSnapshot
  BY <1>4 DEF ControlSnapshot, RequestsTaken
<1>5. CASE ControlBegins
  BY <1>5 DEF ControlBegins, ControlGoto, RequestsTaken
<1>6. CASE ControlRefused
  BY <1>6 DEF ControlRefused, ControlGoto, RequestsTaken
<1>7. CASE ControlApplies
  BY <1>7 DEF ControlApplies, RequestsTaken
<1>8. CASE ControlFails
  BY <1>8 DEF ControlFails, ControlGoto, RequestsTaken
<1>9. CASE ControlNames
  BY <1>9 DEF ControlNames, ControlGoto, RequestsTaken
<1>10. CASE ControlPublishes
  BY <1>10 DEF ControlPublishes, ControlGoto, RequestsTaken
<1>11. CASE ControlReports
  BY <1>11 DEF ControlReports, ControlGoto, RequestsTaken
<1>12. CASE ControlRepeats
  BY <1>12 DEF ControlRepeats, RequestsTaken
<1>13. ASSUME NEW on \in Selection, NEW off \in Selection, NEW search \in BOOLEAN,
              Select(on, off, search)
      PROVE  RequestsTaken'
  BY <1>13 DEF Select, RequestsTaken
<1>14. CASE SelectStores \/ SearchMembers \/ RequestRefresh \/ FailureStops
          \/ FailureStopsHost \/ UserRefreshes \/ HostOpen \/ HostSpawns
          \/ HostSpawnFails \/ HostCancels \/ HostStops \/ HostRefreshes \/ SetupScan \/ SetupCaches \/ SetupNeedsNoScan
          \/ SetupScanFails \/ SetupChecks \/ SetupSnapshot \/ SetupConnects
          \/ SetupRefused \/ SetupConnected \/ SetupConnectFails \/ SetupPublishes
          \/ SetupUnwinds \/ SetupFailed \/ RenderEnds \/ RefreshBegins \/ RefreshScans
          \/ RefreshFails \/ RefreshPublishes \/ RefreshRepeats
  <2>1. UNCHANGED <<requests, control>>
    BY <1>14, Zenon DEF SelectStores, SearchMembers, RequestRefresh, FailureStops,
      StopPlayback, FailureStopsHost, UserRefreshes, HostOpen, HostSpawns,
      HostSpawnFails, HostCancels, HostStops,
      HostRefreshes, SetupScan, SetupGoto, SetupCaches, SetupNeedsNoScan, SetupScanFails,
      SetupChecks, SetupSnapshot, SetupConnects, SetupRefused, SetupConnected,
      SetupConnectFails, SetupPublishes, SetupUnwinds, SetupFailed, RenderEnds, RefreshBegins,
      RefreshScans, RefreshFails, RefreshPublishes, RefreshRepeats
  <2>. QED BY <2>1 DEF RequestsTaken
<1>. QED BY StepsOfNext, <1>1, <1>2, <1>3, <1>4, <1>5, <1>6, <1>7, <1>8, <1>9, <1>10, <1>11,
     <1>12, <1>13, <1>14
  DEF Steps

\* A stop resets the flags that its cancel has set.
LEMMA CancelStep == CancelOwned /\ Phases /\ Typed /\ Next => CancelOwned'
<1> SUFFICES ASSUME CancelOwned, Phases, Typed, Next PROVE CancelOwned'
  OBVIOUS
<1>1. CASE FailureStops
  BY <1>1 DEF FailureStops, StopPlayback, CancelOwned
<1>2. CASE HostOpen
  BY <1>2 DEF HostOpen, CancelOwned
<1>3. CASE HostCancels
  BY <1>3 DEF HostCancels, CancelOwned
<1>4. CASE HostStops
  BY <1>4 DEF HostStops, StopPlayback, CancelOwned
<1>5. CASE HostRefreshes
  BY <1>5 DEF HostRefreshes, CancelOwned
<1>6. ASSUME NEW on \in Selection, NEW off \in Selection, NEW search \in BOOLEAN,
             Select(on, off, search)
      PROVE  CancelOwned'
  BY <1>6 DEF Select, CancelOwned
<1>7. CASE SelectStores \/ SelectSchedules \/ SearchMembers \/ ChangePartial
          \/ RequestRefresh \/ FailureStopsHost \/ UserRefreshes \/ SetupScan
          \/ SetupCaches \/ SetupNeedsNoScan \/ SetupScanFails \/ SetupChecks
          \/ SetupSnapshot \/ SetupConnects \/ SetupRefused \/ SetupConnected
          \/ SetupConnectFails \/ SetupPublishes \/ SetupReconciles \/ SetupUnwinds
          \/ SetupFailed \/ RenderEnds \/ RefreshBegins \/ RefreshScans \/ RefreshFails
          \/ RefreshPublishes \/ RefreshRepeats \/ ControlSnapshot \/ ControlBegins
          \/ ControlRefused \/ ControlApplies \/ ControlFails \/ ControlNames
          \/ ControlPublishes \/ ControlReports \/ ControlRepeats
  <2>1. UNCHANGED <<cancel_requested, host>>
    BY <1>7, Zenon DEF SelectStores, SelectSchedules, Schedule, SearchMembers, ChangePartial,
      RequestRefresh, FailureStopsHost, UserRefreshes, SetupScan, SetupGoto, SetupCaches,
      SetupNeedsNoScan, SetupScanFails, SetupChecks, SetupSnapshot, SetupConnects,
      SetupRefused, SetupConnected, SetupConnectFails, SetupPublishes, SetupReconciles,
      SetupUnwinds, SetupFailed, RenderEnds, RefreshBegins, RefreshScans, RefreshFails,
      RefreshPublishes, RefreshRepeats, ControlSnapshot, ControlBegins, ControlGoto,
      ControlRefused, ControlApplies, ControlFails, ControlNames, ControlPublishes,
      ControlReports, ControlRepeats
  <2>. QED BY <2>1 DEF CancelOwned
<1>8. CASE HostSpawns \/ HostSpawnFails
  BY <1>8 DEF HostSpawns, HostSpawnFails, CancelOwned
<1>. QED BY StepsOfNext, <1>1, <1>2, <1>3, <1>4, <1>5, <1>6, <1>7, <1>8
  DEF Steps

\* A publication that is not noted publishes what the user wants.
LEMMA NotLost ==
    ASSUME NEW who, NoteLoss(who), lost' = {}
    PROVE  lost = {} /\ (known' => cached' = Wish) /\ (known => known')
BY DEF NoteLoss

\* A scan needs the lock that the handshake holds, and no playback announced; with
\* discovery settled, only an outdated list can make the cache forget its outputs.
LEMMA DiscoveryStep ==
    DiscoverySettled /\ FoundFirst /\ Phases /\ Exclusive /\
    Typed /\ Next => DiscoverySettled'
<1> SUFFICES ASSUME DiscoverySettled, FoundFirst, Phases, Exclusive, Typed, Next
             PROVE  DiscoverySettled'
  OBVIOUS
<1>1. CASE RequestRefresh
  BY <1>1 DEF RequestRefresh, DiscoverySettled, Playing, RefreshOutputs, PlaybackActive,
    Phases, HandshakeSteps
<1>2. CASE UserRefreshes
  BY <1>2 DEF UserRefreshes, DiscoverySettled, Playing, RefreshOutputs, PlaybackActive, Phases,
    HandshakeSteps
<1>3. CASE HostOpen
  BY <1>3 DEF HostOpen, DiscoverySettled, Playing
<1>4. CASE HostStops
  BY <1>4 DEF HostStops, StopPlayback, DiscoverySettled, Playing
<1>5. CASE HostRefreshes
  BY <1>5 DEF HostRefreshes, DiscoverySettled, Playing, RefreshOutputs, PlaybackActive, Phases,
    HandshakeSteps
<1>6. CASE SetupScan
  BY <1>6 DEF SetupScan, SetupGoto, DiscoverySettled, Playing
<1>7. CASE SetupCaches
  BY <1>7 DEF SetupCaches, SetupGoto, DiscoverySettled, Playing
<1>8. CASE SetupNeedsNoScan
  BY <1>8 DEF SetupNeedsNoScan, SetupGoto, DiscoverySettled, Playing
<1>9. CASE SetupScanFails
  BY <1>9 DEF SetupScanFails, SetupGoto, DiscoverySettled, Playing
<1>10. CASE SetupChecks
  BY <1>10 DEF SetupChecks, DiscoverySettled, Playing
<1>11. CASE SetupSnapshot
  BY <1>11 DEF SetupSnapshot, DiscoverySettled, Playing
<1>12. CASE SetupConnects
  BY <1>12 DEF SetupConnects, SetupGoto, DiscoverySettled, Playing, TransportFree
<1>13. CASE SetupRefused
  BY <1>13 DEF SetupRefused, SetupGoto, DiscoverySettled, Playing
<1>14. CASE SetupConnected
  BY <1>14 DEF SetupConnected, SetupGoto, DiscoverySettled, Playing
<1>15. CASE SetupConnectFails
  BY <1>15 DEF SetupConnectFails, SetupGoto, DiscoverySettled, Playing
<1>16. CASE SetupPublishes
  BY <1>16 DEF SetupPublishes, SetupGoto, DiscoverySettled, Playing
<1>17. CASE SetupReconciles
  BY <1>17 DEF SetupReconciles, SetupGoto, Schedule, DiscoverySettled, Playing
<1>18. CASE SetupUnwinds
  BY <1>18 DEF SetupUnwinds, SetupGoto, DiscoverySettled, Playing
<1>19. CASE SetupFailed
  BY <1>19 DEF SetupFailed, SetupGoto, DiscoverySettled, Playing
<1>20. CASE RenderEnds
  BY <1>20 DEF RenderEnds, SetupGoto, DiscoverySettled, Playing
<1>21. CASE RefreshBegins
  BY <1>21 DEF RefreshBegins, DiscoverySettled, Playing, TransportFree, PlaybackActive, Phases,
    HandshakeSteps
<1>22. CASE RefreshScans
  BY <1>22 DEF RefreshScans, DiscoverySettled, Playing
<1>23. CASE RefreshFails
  BY <1>23 DEF RefreshFails, DiscoverySettled, Playing
<1>24. CASE RefreshPublishes
  <2>1. lost' = {} => lost = {} /\ (known => known')
    BY <1>24, NotLost DEF RefreshPublishes
  <2>2. known' => discovered
    BY <1>24, Zenon DEF RefreshPublishes, FoundFirst
  <2>3. UNCHANGED <<setup, setupLocals, discovered>> /\ refresh' # "scanning"
    BY <1>24 DEF RefreshPublishes
  <2>. QED BY <2>1, <2>2, <2>3 DEF DiscoverySettled, Playing
<1>25. CASE RefreshRepeats
  BY <1>25 DEF RefreshRepeats, DiscoverySettled, Playing
<1>26. CASE ControlPublishes
  <2>1. lost' = {} => lost = {} /\ (known => known')
    BY <1>26 DEF ControlPublishes
  <2>2. known' => discovered
    BY <1>26, Zenon DEF ControlPublishes, FoundFirst
  <2>3. UNCHANGED <<setup, setupLocals, discovered, refresh>>
    BY <1>26 DEF ControlPublishes, ControlGoto
  <2>. QED BY <2>1, <2>2, <2>3 DEF DiscoverySettled, Playing
<1>27. ASSUME NEW on \in Selection, NEW off \in Selection, NEW search \in BOOLEAN,
              Select(on, off, search)
      PROVE  DiscoverySettled'
  BY <1>27 DEF Select, DiscoverySettled, Playing
<1>28. CASE SelectStores \/ SelectSchedules \/ SearchMembers \/ ChangePartial
          \/ FailureStops \/ FailureStopsHost \/ HostCancels \/ ControlSnapshot
          \/ ControlBegins \/ ControlRefused \/ ControlApplies \/ ControlFails
          \/ ControlNames \/ ControlReports \/ ControlRepeats
  <2>1. UNCHANGED <<setup, refresh, setupLocals, discovered, lost, known>>
    BY <1>28, Zenon DEF SelectStores, SelectSchedules, Schedule, SearchMembers, ChangePartial,
      FailureStops, StopPlayback, FailureStopsHost, HostCancels, ControlSnapshot,
      ControlBegins, ControlGoto, ControlRefused, ControlApplies, ControlFails, ControlNames,
      ControlReports, ControlRepeats
  <2>. QED BY <2>1 DEF DiscoverySettled, Playing
<1>29. CASE HostSpawns \/ HostSpawnFails
  BY <1>29 DEF HostSpawns, HostSpawnFails, DiscoverySettled, Playing
<1>. QED BY StepsOfNext, <1>1, <1>2, <1>3, <1>4, <1>5, <1>6, <1>7, <1>8, <1>9, <1>10, <1>11,
     <1>12, <1>13, <1>14, <1>15, <1>16, <1>17, <1>18, <1>19, <1>20, <1>21, <1>22, <1>23, <1>24,
     <1>25, <1>26, <1>27, <1>28, <1>29
  DEF Steps

\* What is stored is still wanted, and nothing else.
LEMMA WishStored == PendingApart /\ Typed /\ SelectStores => Wish' = Wish
<1> SUFFICES ASSUME PendingApart, Typed, SelectStores PROVE Wish' = Wish
  OBVIOUS
<1>1. /\ stored' = [o \in Output |-> IF o \in pending.on THEN "on"
                                   ELSE IF o \in pending.off THEN "off" ELSE stored[o]]
      /\ pending'.on = {} /\ pending'.off = {}
  BY DEF SelectStores, NonePending
<1>2. StoredSelection' = {o \in Output : o \in pending.on
                                        \/ (o \notin pending.off /\ stored[o] = "on")}
  BY <1>1 DEF StoredSelection
<1>3. pending.on \subseteq Output
  BY DEF Typed, LocalsTyped, Selection
<1>. QED BY <1>1, <1>2, <1>3 DEF Wish, StoredSelection, PendingApart

\* What the user wants does not change by anything else.
LEMMA WishKept == UNCHANGED <<stored, pending>> => Wish' = Wish
BY DEF Wish, StoredSelection

\* A selection changes cache and wish alike; what replaces the cache is noted if it
\* is older.
LEMMA CacheStep ==
    CacheFollows /\ PendingApart /\ DiscoverySettled /\ FoundFirst /\
    Typed /\ Next => CacheFollows'
<1> SUFFICES ASSUME CacheFollows, PendingApart, DiscoverySettled, FoundFirst, Typed, Next
             PROVE  CacheFollows'
  OBVIOUS
<1>1. ASSUME NEW on \in Selection, NEW off \in Selection, NEW search \in BOOLEAN,
             Select(on, off, search)
      PROVE CacheFollows'
  <2>1. UNCHANGED <<setup, lost, known>> /\ user = "idle"
    BY <1>1 DEF Select
  <2>2. StoredSelection' = StoredSelection
    BY <1>1 DEF Select, StoredSelection
  <2>3. known => cached' = (cached \cup on) \ off
    BY <1>1, Zenon DEF Select
  <2>4. pending'.on = on /\ pending'.off = off
    BY <1>1 DEF Select
  <2>5. pending.on = {} /\ pending.off = {}
    BY <2>1 DEF PendingApart
  <2>. QED BY <2>1, <2>2, <2>3, <2>4, <2>5 DEF CacheFollows, Playing, Wish
<1>2. CASE SelectStores
  <2>1. UNCHANGED <<setup, lost, known, cached>>
    BY <1>2, Zenon DEF SelectStores
  <2>. QED BY <1>2, <2>1, WishStored DEF CacheFollows, Playing
<1>3. CASE SelectSchedules
  <2>1. UNCHANGED <<setup, lost, known, cached, stored>> /\ user = "schedule"
    BY <1>3 DEF SelectSchedules
  <2>2. pending'.on = {} /\ pending'.off = {} /\ pending.on = {} /\ pending.off = {}
    BY <1>3, <2>1 DEF SelectSchedules, NonePending, PendingApart
  <2>. QED BY <2>1, <2>2 DEF CacheFollows, Playing, Wish, StoredSelection
<1>4. CASE HostOpen
  BY <1>4 DEF HostOpen, CacheFollows, Playing
<1>5. CASE HostStops
  BY <1>5 DEF HostStops, StopPlayback, CacheFollows, Playing
<1>6. CASE SetupScan
  BY <1>6 DEF SetupScan, SetupGoto, CacheFollows, Playing
<1>7. CASE SetupCaches
  BY <1>7 DEF SetupCaches, SetupGoto, CacheFollows, Playing
<1>8. CASE SetupNeedsNoScan
  BY <1>8 DEF SetupNeedsNoScan, SetupGoto, CacheFollows, Playing
<1>9. CASE SetupScanFails
  BY <1>9 DEF SetupScanFails, SetupGoto, CacheFollows, Playing
<1>10. CASE SetupChecks
  BY <1>10 DEF SetupChecks, CacheFollows, Playing
<1>11. CASE SetupSnapshot
  BY <1>11 DEF SetupSnapshot, CacheFollows, Playing
<1>12. CASE SetupConnects
  BY <1>12 DEF SetupConnects, SetupGoto, CacheFollows, Playing
<1>13. CASE SetupRefused
  BY <1>13 DEF SetupRefused, SetupGoto, CacheFollows, Playing
<1>14. CASE SetupConnected
  BY <1>14 DEF SetupConnected, SetupGoto, CacheFollows, Playing
<1>15. CASE SetupConnectFails
  BY <1>15 DEF SetupConnectFails, SetupGoto, CacheFollows, Playing
<1>16. CASE SetupPublishes
  <2>1. UNCHANGED <<stored, pending>>
    BY <1>16 DEF SetupPublishes
  <2>2. lost' = {} /\ known' => cached' = Wish
    BY <1>16, NotLost DEF SetupPublishes
  <2>. QED BY <2>1, <2>2, WishKept DEF CacheFollows
<1>17. CASE SetupReconciles
  <2>1. UNCHANGED <<lost, known, cached, stored, pending>> /\ setup = "reconcile"
    BY <1>17 DEF SetupReconciles, SetupGoto
  <2>. QED BY <2>1, WishKept DEF CacheFollows, Playing
<1>18. CASE SetupUnwinds
  BY <1>18 DEF SetupUnwinds, SetupGoto, CacheFollows, Playing
<1>19. CASE SetupFailed
  BY <1>19 DEF SetupFailed, SetupGoto, CacheFollows, Playing
<1>20. CASE RenderEnds
  BY <1>20 DEF RenderEnds, SetupGoto, CacheFollows, Playing
<1>21. CASE RefreshPublishes
  <2>1. UNCHANGED <<stored, pending>>
    BY <1>21 DEF RefreshPublishes
  <2>2. lost' = {} /\ known' => cached' = Wish
    BY <1>21, NotLost DEF RefreshPublishes
  <2>. QED BY <2>1, <2>2, WishKept DEF CacheFollows
<1>22. CASE ControlPublishes
  <2>1. UNCHANGED <<setup, stored, pending>>
    BY <1>22 DEF ControlPublishes
  <2>2. lost' = {} => lost = {}
    BY <1>22 DEF ControlPublishes
  <2>3. known' => discovered
    BY <1>22, Zenon DEF ControlPublishes, FoundFirst
  <2>4. known /\ known' => cached' = cached
    BY <1>22, Zenon DEF ControlPublishes
  <2>. QED BY <2>1, <2>2, <2>3, <2>4, WishKept DEF CacheFollows, DiscoverySettled, Playing
<1>23. CASE SearchMembers \/ ChangePartial \/ RequestRefresh \/ FailureStops
          \/ FailureStopsHost \/ UserRefreshes \/ HostCancels \/ HostRefreshes
          \/ RefreshBegins \/ RefreshScans \/ RefreshFails \/ RefreshRepeats
          \/ ControlSnapshot \/ ControlBegins \/ ControlRefused \/ ControlApplies
          \/ ControlFails \/ ControlNames \/ ControlReports \/ ControlRepeats
  <2>1. UNCHANGED <<setup, lost, known, cached, stored, pending>>
    BY <1>23, Zenon DEF SearchMembers, ChangePartial, Schedule, RequestRefresh, FailureStops,
      StopPlayback, FailureStopsHost, UserRefreshes, HostCancels, HostRefreshes, RefreshBegins,
      RefreshScans, RefreshFails, RefreshRepeats, ControlSnapshot, ControlBegins, ControlGoto,
      ControlRefused, ControlApplies, ControlFails, ControlNames, ControlReports,
      ControlRepeats
  <2>. QED BY <2>1 DEF CacheFollows, Playing, Wish, StoredSelection
<1>24. CASE HostSpawns \/ HostSpawnFails
  BY <1>24 DEF HostSpawns, HostSpawnFails, CacheFollows, Playing
<1>. QED BY StepsOfNext, <1>1, <1>2, <1>3, <1>4, <1>5, <1>6, <1>7, <1>8, <1>9, <1>10, <1>11,
     <1>12, <1>13, <1>14, <1>15, <1>16, <1>17, <1>18, <1>19, <1>20, <1>21, <1>22, <1>23, <1>24
  DEF Steps

\* The registry changes under the lock that setup and update hold while they connect.
LEMMA HeldStep == SelectionHeld /\ Exclusive /\ Typed /\ Next => SelectionHeld'
<1> SUFFICES ASSUME SelectionHeld, Exclusive, Typed, Next PROVE SelectionHeld'
  OBVIOUS
<1>1. CASE SelectSchedules
  BY <1>1 DEF SelectSchedules, Schedule, SelectionHeld
<1>2. CASE ChangePartial
  BY <1>2 DEF ChangePartial, Schedule, SelectionHeld
<1>3. CASE HostOpen
  BY <1>3 DEF HostOpen, SelectionHeld
<1>4. CASE HostStops
  BY <1>4 DEF HostStops, StopPlayback, SelectionHeld
<1>5. CASE SetupScan
  BY <1>5 DEF SetupScan, SetupGoto, SelectionHeld
<1>6. CASE SetupCaches
  BY <1>6 DEF SetupCaches, SetupGoto, SelectionHeld
<1>7. CASE SetupNeedsNoScan
  BY <1>7 DEF SetupNeedsNoScan, SetupGoto, SelectionHeld
<1>8. CASE SetupScanFails
  BY <1>8 DEF SetupScanFails, SetupGoto, SelectionHeld
<1>9. CASE SetupChecks
  BY <1>9 DEF SetupChecks, SelectionHeld
<1>10. CASE SetupSnapshot
  BY <1>10 DEF SetupSnapshot, SelectionHeld
<1>11. CASE SetupConnects
  BY <1>11 DEF SetupConnects, SetupGoto, SelectionHeld, TransportFree
<1>12. CASE SetupRefused
  BY <1>12 DEF SetupRefused, SetupGoto, SelectionHeld, TransportFree
<1>13. CASE SetupConnected
  BY <1>13 DEF SetupConnected, SetupGoto, SelectionHeld
<1>14. CASE SetupConnectFails
  BY <1>14 DEF SetupConnectFails, SetupGoto, SelectionHeld
<1>15. CASE SetupPublishes
  BY <1>15 DEF SetupPublishes, SetupGoto, SelectionHeld
<1>16. CASE SetupReconciles
  BY <1>16 DEF SetupReconciles, SetupGoto, Schedule, SelectionHeld
<1>17. CASE SetupUnwinds
  BY <1>17 DEF SetupUnwinds, SetupGoto, SelectionHeld
<1>18. CASE SetupFailed
  BY <1>18 DEF SetupFailed, SetupGoto, SelectionHeld
<1>19. CASE RenderEnds
  BY <1>19 DEF RenderEnds, SetupGoto, SelectionHeld
<1>20. CASE ControlSnapshot
  BY <1>20 DEF ControlSnapshot, SelectionHeld
<1>21. CASE ControlBegins
  BY <1>21 DEF ControlBegins, ControlGoto, SelectionHeld, TransportFree
<1>22. CASE ControlRefused
  BY <1>22 DEF ControlRefused, ControlGoto, SelectionHeld, TransportFree
<1>23. CASE ControlApplies
  BY <1>23 DEF ControlApplies, SelectionHeld
<1>24. CASE ControlFails
  BY <1>24 DEF ControlFails, ControlGoto, SelectionHeld
<1>25. CASE ControlNames
  BY <1>25 DEF ControlNames, ControlGoto, SelectionHeld
<1>26. CASE ControlPublishes
  BY <1>26 DEF ControlPublishes, ControlGoto, SelectionHeld
<1>27. CASE ControlReports
  BY <1>27 DEF ControlReports, ControlGoto, SelectionHeld
<1>28. CASE ControlRepeats
  BY <1>28 DEF ControlRepeats, SelectionHeld
<1>29. ASSUME NEW on \in Selection, NEW off \in Selection, NEW search \in BOOLEAN,
              Select(on, off, search)
      PROVE  SelectionHeld'
  BY <1>29 DEF Select, SelectionHeld
<1>30. CASE SelectStores \/ SearchMembers \/ RequestRefresh \/ FailureStops
          \/ FailureStopsHost \/ UserRefreshes \/ HostCancels \/ HostRefreshes
          \/ RefreshBegins \/ RefreshScans \/ RefreshFails \/ RefreshPublishes
          \/ RefreshRepeats
  <2>1. UNCHANGED <<control, setup, enabled, controlLocals, setupLocals>>
    BY <1>30, Zenon DEF SelectStores, SearchMembers, RequestRefresh, FailureStops,
      StopPlayback, FailureStopsHost, UserRefreshes, HostCancels, HostRefreshes, RefreshBegins,
      RefreshScans, RefreshFails, RefreshPublishes, RefreshRepeats
  <2>. QED BY <2>1 DEF SelectionHeld
<1>31. CASE HostSpawns \/ HostSpawnFails
  BY <1>31 DEF HostSpawns, HostSpawnFails, SelectionHeld
<1>. QED BY StepsOfNext, <1>1, <1>2, <1>3, <1>4, <1>5, <1>6, <1>7, <1>8, <1>9, <1>10, <1>11,
     <1>12, <1>13, <1>14, <1>15, <1>16, <1>17, <1>18, <1>19, <1>20, <1>21, <1>22, <1>23, <1>24,
     <1>25, <1>26, <1>27, <1>28, <1>29, <1>30, <1>31
  DEF Steps

\* Who opens a receiver has its selection in the registry, and who changes that
\* closes the others, unless it was cancelled.
LEMMA EnabledStep ==
    SessionsEnabled /\ SelectionHeld /\ SessionsHavePlayback /\ CancelOwned /\ Phases /\
    Typed /\ Next => SessionsEnabled'
<1> SUFFICES ASSUME SessionsEnabled, SelectionHeld, SessionsHavePlayback, CancelOwned, Phases,
                    Typed, Next
             PROVE  SessionsEnabled'
  OBVIOUS
<1>1. CASE FailureStops
  BY <1>1 DEF FailureStops, StopPlayback, SessionsEnabled
<1>2. CASE HostOpen
  BY <1>2 DEF HostOpen, SessionsEnabled
<1>3. CASE HostCancels
  BY <1>3 DEF HostCancels, SessionsEnabled
<1>4. CASE HostStops
  BY <1>4 DEF HostStops, StopPlayback, SessionsEnabled, SessionsHavePlayback
<1>5. CASE HostRefreshes
  BY <1>5 DEF HostRefreshes, SessionsEnabled
<1>6. CASE SetupConnects
  BY <1>6 DEF SetupConnects, SetupGoto, SessionsEnabled
<1>7. CASE SetupRefused
  BY <1>7 DEF SetupRefused, SetupGoto, SessionsEnabled, SessionsHavePlayback, Phases,
    HandshakeSteps
<1>8. CASE SetupConnected
  BY <1>8 DEF SetupConnected, SetupGoto, SessionsEnabled, SelectionHeld
<1>9. CASE SetupConnectFails
  BY <1>9 DEF SetupConnectFails, SetupGoto, SessionsEnabled, SelectionHeld
<1>10. CASE SetupUnwinds
  BY <1>10 DEF SetupUnwinds, SetupGoto, SessionsEnabled
<1>11. CASE ControlBegins
  BY <1>11 DEF ControlBegins, ControlGoto, SessionsEnabled
<1>12. CASE ControlRefused
  BY <1>12 DEF ControlRefused, ControlGoto, SessionsEnabled, Refused, CancelOwned
<1>13. CASE ControlApplies
  BY <1>13 DEF ControlApplies, SessionsEnabled, SelectionHeld
<1>14. CASE ControlFails
  BY <1>14 DEF ControlFails, ControlGoto, SessionsEnabled, SelectionHeld
<1>15. ASSUME NEW on \in Selection, NEW off \in Selection, NEW search \in BOOLEAN,
              Select(on, off, search)
      PROVE  SessionsEnabled'
  BY <1>15 DEF Select, SessionsEnabled
<1>16. CASE SelectStores \/ SelectSchedules \/ SearchMembers \/ ChangePartial
          \/ RequestRefresh \/ FailureStopsHost \/ UserRefreshes \/ SetupScan
          \/ SetupCaches \/ SetupNeedsNoScan \/ SetupScanFails \/ SetupChecks
          \/ SetupSnapshot \/ SetupPublishes \/ SetupReconciles \/ SetupFailed
          \/ RenderEnds \/ RefreshBegins \/ RefreshScans \/ RefreshFails
          \/ RefreshPublishes \/ RefreshRepeats \/ ControlSnapshot \/ ControlNames
          \/ ControlPublishes \/ ControlReports \/ ControlRepeats
  <2>1. UNCHANGED <<host, sessions, enabled>>
    BY <1>16, Zenon DEF SelectStores, SelectSchedules, Schedule, SearchMembers, ChangePartial,
      RequestRefresh, FailureStopsHost, UserRefreshes, SetupScan, SetupGoto, SetupCaches,
      SetupNeedsNoScan, SetupScanFails, SetupChecks, SetupSnapshot, SetupPublishes,
      SetupReconciles, SetupFailed, RenderEnds, RefreshBegins, RefreshScans, RefreshFails,
      RefreshPublishes, RefreshRepeats, ControlSnapshot, ControlNames, ControlGoto,
      ControlPublishes, ControlReports, ControlRepeats
  <2>. QED BY <2>1 DEF SessionsEnabled
<1>17. CASE HostSpawns \/ HostSpawnFails
  BY <1>17 DEF HostSpawns, HostSpawnFails, SessionsEnabled
<1>. QED BY StepsOfNext, <1>1, <1>2, <1>3, <1>4, <1>5, <1>6, <1>7, <1>8, <1>9, <1>10, <1>11,
     <1>12, <1>13, <1>14, <1>15, <1>16, <1>17
  DEF Steps

\* What changes the selection makes an update due; the update copies the cache and
\* gives it to the registry.
LEMMA UpdateStep ==
    UpdateFollows /\ DiscoverySettled /\ CacheFollows /\ FoundFirst /\
    Typed /\ Next => UpdateFollows'
<1> SUFFICES ASSUME UpdateFollows, DiscoverySettled, CacheFollows, FoundFirst, Typed, Next
             PROVE  UpdateFollows'
  OBVIOUS
<1>1. ASSUME NEW on \in Selection, NEW off \in Selection, NEW search \in BOOLEAN,
             Select(on, off, search)
      PROVE UpdateFollows'
  BY <1>1 DEF Select, UpdateFollows, Playing, Due
<1>2. CASE SelectStores
  BY <1>2 DEF SelectStores, UpdateFollows, Playing, Due
<1>3. CASE SelectSchedules
  BY <1>3 DEF SelectSchedules, Schedule, UpdateFollows, Playing, Due
<1>4. CASE SearchMembers
  BY <1>4 DEF SearchMembers, UpdateFollows, Playing, Due
<1>5. CASE ChangePartial
  BY <1>5 DEF ChangePartial, Schedule, UpdateFollows, Playing, Due
<1>6. CASE FailureStops
  BY <1>6 DEF FailureStops, StopPlayback, UpdateFollows, Playing, Due
<1>7. CASE UserRefreshes
  BY <1>7 DEF UserRefreshes, UpdateFollows, Playing, Due
<1>8. CASE HostOpen
  BY <1>8 DEF HostOpen, UpdateFollows, Playing, Due
<1>9. CASE HostStops
  BY <1>9 DEF HostStops, StopPlayback, UpdateFollows, Playing, Due
<1>10. CASE SetupScan
  BY <1>10 DEF SetupScan, SetupGoto, UpdateFollows, Playing, Due
<1>11. CASE SetupCaches
  BY <1>11 DEF SetupCaches, SetupGoto, UpdateFollows, Playing, Due
<1>12. CASE SetupNeedsNoScan
  BY <1>12 DEF SetupNeedsNoScan, SetupGoto, UpdateFollows, Playing, Due
<1>13. CASE SetupScanFails
  BY <1>13 DEF SetupScanFails, SetupGoto, UpdateFollows, Playing, Due
<1>14. CASE SetupChecks
  BY <1>14 DEF SetupChecks, UpdateFollows, Playing, Due
<1>15. CASE SetupSnapshot
  BY <1>15 DEF SetupSnapshot, UpdateFollows, Playing, Due
<1>16. CASE SetupConnects
  BY <1>16 DEF SetupConnects, SetupGoto, UpdateFollows, Playing, Due
<1>17. CASE SetupRefused
  BY <1>17 DEF SetupRefused, SetupGoto, UpdateFollows, Playing, Due
<1>18. CASE SetupConnected
  BY <1>18 DEF SetupConnected, SetupGoto, UpdateFollows, Playing, Due
<1>19. CASE SetupConnectFails
  BY <1>19 DEF SetupConnectFails, SetupGoto, UpdateFollows, Playing, Due
<1>20. CASE SetupPublishes
  BY <1>20 DEF SetupPublishes, SetupGoto, UpdateFollows, Playing, Due
<1>21. CASE SetupReconciles
  BY <1>21 DEF SetupReconciles, SetupGoto, Schedule, UpdateFollows, Playing, Due
<1>22. CASE SetupUnwinds
  BY <1>22 DEF SetupUnwinds, SetupGoto, UpdateFollows, Playing, Due
<1>23. CASE SetupFailed
  BY <1>23 DEF SetupFailed, SetupGoto, UpdateFollows, Playing, Due
<1>24. CASE RenderEnds
  BY <1>24 DEF RenderEnds, SetupGoto, UpdateFollows, Playing, Due
<1>25. CASE RefreshPublishes
  <2>1. UNCHANGED <<setup, user, requests, control, controlLocals, enabled>>
    BY <1>25 DEF RefreshPublishes
  <2>2. known' => discovered
    BY <1>25, Zenon DEF RefreshPublishes, FoundFirst
  <2>3. lost' = {} /\ known' => lost = {} /\ cached' = Wish
    BY <1>25, NotLost DEF RefreshPublishes
  <2>4. Playing /\ lost' = {} /\ known' => known /\ cached' = cached
    BY <2>2, <2>3 DEF DiscoverySettled, CacheFollows
  <2>. QED BY <2>1, <2>3, <2>4 DEF UpdateFollows, Playing, Due
<1>26. CASE ControlSnapshot
  BY <1>26 DEF ControlSnapshot, UpdateFollows, Playing, Due
<1>27. CASE ControlBegins
  BY <1>27 DEF ControlBegins, ControlGoto, UpdateFollows, Playing, Due
<1>28. CASE ControlRefused
  BY <1>28 DEF ControlRefused, ControlGoto, UpdateFollows, Playing, Due
<1>29. CASE ControlApplies
  BY <1>29 DEF ControlApplies, UpdateFollows, Playing, Due
<1>30. CASE ControlFails
  BY <1>30 DEF ControlFails, ControlGoto, UpdateFollows, Playing, Due
<1>31. CASE ControlNames
  BY <1>31 DEF ControlNames, ControlGoto, UpdateFollows, Playing, Due
<1>32. CASE ControlPublishes
  <2>1. UNCHANGED <<setup, user, requests, enabled>> /\ control = "publish" /\ control' = "again"
    BY <1>32 DEF ControlPublishes, ControlGoto
  <2>2. known' => discovered
    BY <1>32, Zenon DEF ControlPublishes, FoundFirst
  <2>3. known /\ known' => cached' = cached
    BY <1>32, Zenon DEF ControlPublishes
  <2>4. lost' = {} => lost = {}
    BY <1>32 DEF ControlPublishes
  <2>. QED BY <2>1, <2>2, <2>3, <2>4 DEF DiscoverySettled, UpdateFollows, Playing, Due
<1>33. CASE ControlReports
  BY <1>33 DEF ControlReports, ControlGoto, UpdateFollows, Playing, Due
<1>34. CASE ControlRepeats
  BY <1>34 DEF ControlRepeats, UpdateFollows, Playing, Due
<1>35. CASE RequestRefresh \/ FailureStopsHost \/ HostCancels \/ HostRefreshes
          \/ RefreshBegins \/ RefreshScans \/ RefreshFails \/ RefreshRepeats
  <2>1. UNCHANGED <<setup, lost, known, user, requests, control, controlLocals, cached,
                   enabled>>
    BY <1>35, Zenon DEF RequestRefresh, FailureStopsHost, HostCancels, HostRefreshes,
      RefreshBegins, RefreshScans, RefreshFails, RefreshRepeats
  <2>. QED BY <2>1 DEF UpdateFollows, Playing, Due
<1>36. CASE HostSpawns \/ HostSpawnFails
  BY <1>36 DEF HostSpawns, HostSpawnFails, UpdateFollows, Playing, Due
<1>. QED BY StepsOfNext, <1>1, <1>2, <1>3, <1>4, <1>5, <1>6, <1>7, <1>8, <1>9, <1>10, <1>11,
     <1>12, <1>13, <1>14, <1>15, <1>16, <1>17, <1>18, <1>19, <1>20, <1>21, <1>22, <1>23, <1>24,
     <1>25, <1>26, <1>27, <1>28, <1>29, <1>30, <1>31, <1>32, <1>33, <1>34, <1>35, <1>36
  DEF Steps

\* An update that began before the stream is followed by the one of the setup.
LEMMA LabelStep ==
    LabelFollows /\ Phases /\ RequestsTaken /\ Typed /\ Next => LabelFollows'
<1> SUFFICES ASSUME LabelFollows, Phases, RequestsTaken, Typed, Next PROVE LabelFollows'
  OBVIOUS
<1>1. CASE SelectSchedules
  BY <1>1 DEF SelectSchedules, Schedule, LabelFollows, Steady
<1>2. CASE ChangePartial
  BY <1>2 DEF ChangePartial, Schedule, LabelFollows, Steady
<1>3. CASE FailureStops
  BY <1>3 DEF FailureStops, StopPlayback, LabelFollows, Steady, Phases
<1>4. CASE HostOpen
  BY <1>4 DEF HostOpen, LabelFollows, Steady
<1>5. CASE HostCancels
  BY <1>5 DEF HostCancels, LabelFollows, Steady
<1>6. CASE HostStops
  BY <1>6 DEF HostStops, StopPlayback, LabelFollows, Steady
<1>7. CASE HostRefreshes
  BY <1>7 DEF HostRefreshes, LabelFollows, Steady
<1>8. CASE SetupScan
  BY <1>8 DEF SetupScan, SetupGoto, LabelFollows, Steady
<1>9. CASE SetupCaches
  BY <1>9 DEF SetupCaches, SetupGoto, LabelFollows, Steady
<1>10. CASE SetupNeedsNoScan
  BY <1>10 DEF SetupNeedsNoScan, SetupGoto, LabelFollows, Steady
<1>11. CASE SetupScanFails
  BY <1>11 DEF SetupScanFails, SetupGoto, LabelFollows, Steady
<1>12. CASE SetupChecks
  BY <1>12 DEF SetupChecks, LabelFollows, Steady
<1>13. CASE SetupSnapshot
  BY <1>13 DEF SetupSnapshot, LabelFollows, Steady
<1>14. CASE SetupConnects
  BY <1>14 DEF SetupConnects, SetupGoto, LabelFollows, Steady
<1>15. CASE SetupRefused
  BY <1>15 DEF SetupRefused, SetupGoto, LabelFollows, Steady
<1>16. CASE SetupConnected
  BY <1>16 DEF SetupConnected, SetupGoto, LabelFollows, Steady
<1>17. CASE SetupConnectFails
  BY <1>17 DEF SetupConnectFails, SetupGoto, LabelFollows, Steady
<1>18. CASE SetupPublishes
  BY <1>18 DEF SetupPublishes, SetupGoto, LabelFollows, Steady
<1>19. CASE SetupReconciles
  BY <1>19 DEF SetupReconciles, SetupGoto, Schedule, LabelFollows, Steady
<1>20. CASE SetupUnwinds
  BY <1>20 DEF SetupUnwinds, SetupGoto, LabelFollows, Steady
<1>21. CASE SetupFailed
  BY <1>21 DEF SetupFailed, SetupGoto, LabelFollows, Steady
<1>22. CASE RenderEnds
  BY <1>22 DEF RenderEnds, SetupGoto, LabelFollows, Steady
<1>23. CASE ControlSnapshot
  <2>1. CASE "full" \in requests
    <3>1. control' = "apply" /\ controlLocals'.connect = playback_open
      BY <1>23, <2>1 DEF ControlSnapshot
    <3>2. setup = "playing" => playback_open
      BY Zenon DEF Phases
    <3>3. setup' = setup
      BY <1>23 DEF ControlSnapshot
    <3>. QED BY <3>1, <3>2, <3>3 DEF LabelFollows, Steady
  <2>2. CASE "full" \notin requests
    <3>1. control = "snapshot" /\ control' = "again"
          /\ UNCHANGED <<host, setup, names, sessions, control_failed>>
      BY <1>23, <2>2 DEF ControlSnapshot
    <3>. QED BY <2>2, <3>1 DEF LabelFollows, Steady
  <2>. QED BY <2>1, <2>2
<1>24. CASE ControlBegins
  <2>1. control = "apply" /\ UNCHANGED <<host, setup, requests>>
    BY <1>24 DEF ControlBegins, ControlGoto
  <2>2. setup = "playing" => playback_open
    BY Zenon DEF Phases
  <2>3. controlLocals.connect /\ playback_open => controlLocals'.connect
    BY <1>24 DEF ControlBegins, Typed, LocalsTyped
  <2>4. control' = "applying"
    BY <1>24 DEF ControlBegins, ControlGoto
  <2>. QED BY <2>1, <2>2, <2>3, <2>4 DEF LabelFollows, Steady
<1>25. CASE ControlRefused
  <2>1. control = "apply" /\ UNCHANGED <<host, setup, requests>>
    BY <1>25 DEF ControlRefused, ControlGoto
  <2>2. setup = "playing" => playback_open
    BY Zenon DEF Phases
  <2>3. controlLocals.connect /\ playback_open => controlLocals'.connect
    BY <1>25 DEF ControlRefused, Typed, LocalsTyped
  <2>4. control' = "failed"
    BY <1>25 DEF ControlRefused, ControlGoto
  <2>. QED BY <2>1, <2>2, <2>3, <2>4 DEF LabelFollows, Steady
<1>26. CASE ControlApplies
  BY <1>26 DEF ControlApplies, LabelFollows, Steady
<1>27. CASE ControlFails
  BY <1>27 DEF ControlFails, ControlGoto, LabelFollows, Steady
<1>28. CASE ControlNames
  BY <1>28 DEF ControlNames, ControlGoto, LabelFollows, Steady
<1>29. CASE ControlPublishes
  BY <1>29 DEF ControlPublishes, ControlGoto, LabelFollows, Steady
<1>30. CASE ControlReports
  BY <1>30 DEF ControlReports, ControlGoto, LabelFollows, Steady
<1>31. CASE ControlRepeats
  BY <1>31 DEF ControlRepeats, LabelFollows, Steady
<1>32. ASSUME NEW on \in Selection, NEW off \in Selection, NEW search \in BOOLEAN,
              Select(on, off, search)
      PROVE  LabelFollows'
  BY <1>32 DEF Select, LabelFollows, Steady
<1>33. CASE SelectStores \/ SearchMembers \/ RequestRefresh \/ FailureStopsHost
          \/ UserRefreshes \/ RefreshBegins \/ RefreshScans \/ RefreshFails
          \/ RefreshPublishes \/ RefreshRepeats
  <2>1. UNCHANGED <<host, setup, requests, control, controlLocals, names, sessions,
                   control_failed>>
    BY <1>33, Zenon DEF SelectStores, SearchMembers, RequestRefresh, FailureStopsHost,
      UserRefreshes, RefreshBegins, RefreshScans, RefreshFails, RefreshPublishes,
      RefreshRepeats
  <2>. QED BY <2>1 DEF LabelFollows, Steady
<1>34. CASE HostSpawns \/ HostSpawnFails
  BY <1>34 DEF HostSpawns, HostSpawnFails, LabelFollows, Steady
<1>. QED BY StepsOfNext, <1>1, <1>2, <1>3, <1>4, <1>5, <1>6, <1>7, <1>8, <1>9, <1>10, <1>11,
     <1>12, <1>13, <1>14, <1>15, <1>16, <1>17, <1>18, <1>19, <1>20, <1>21, <1>22, <1>23, <1>24,
     <1>25, <1>26, <1>27, <1>28, <1>29, <1>30, <1>31, <1>32, <1>33, <1>34
  DEF Steps

-----------------------------------------------------------------------------
(* That invariant, and what it is for.                                     *)

\* Nothing is under way at the start.
LEMMA InitSelection == Init => SelectionInv
BY DEF Init, SelectionInv, PendingApart, RequestsTaken, CancelOwned, DiscoverySettled, Playing,
       CacheFollows, SelectionHeld, SessionsEnabled, UpdateFollows, LabelFollows, Steady,
       NonePending

\* Given the phases of playback, the selection gets to the receivers.
LEMMA SelectionStep == Inv /\ SelectionInv /\ [Next]_vars => SelectionInv'
<1>1. Inv => Typed /\ Exclusive /\ Phases /\ FoundFirst /\ SessionsHavePlayback
  BY Zenon DEF Inv
<1>2. SelectionInv /\ UNCHANGED vars => SelectionInv'
  BY DEF SelectionInv, PendingApart, RequestsTaken, CancelOwned, DiscoverySettled, Playing,
         CacheFollows, SelectionHeld, SessionsEnabled, UpdateFollows, LabelFollows, Steady,
         Due, Wish, StoredSelection, vars
<1>3. Inv /\ SelectionInv /\ Next => SelectionInv'
  BY <1>1, PendingStep, RequestsStep, CancelStep, DiscoveryStep, CacheStep, HeldStep,
     EnabledStep, UpdateStep, LabelStep, Zenon DEF SelectionInv
<1>. QED BY <1>2, <1>3

\* It holds in every reachable state.
LEMMA SelectionInvariance == Spec => []SelectionInv
<1>. QED BY Invariance, InitSelection, SelectionStep, PTL DEF Spec

\* When all is quiet, and nobody has published an older selection, the cache, the
\* registry and the open receivers are those the user has selected, whatever was
\* toggled while an update was under way (control_update_worker()).
THEOREM SelectionCorrect == Spec => []SelectionApplied
<1>1. SelectionInv => SelectionApplied
  <2> SUFFICES ASSUME SelectionInv, Quiet, lost = {}, known
               PROVE  /\ cached = StoredSelection /\ enabled = StoredSelection
                      /\ sessions \subseteq StoredSelection
    BY DEF SelectionApplied
  <2>1. host = "streaming" /\ setup = "playing" /\ user = "idle" /\ control = "none"
    BY Zenon DEF Quiet
  <2>2. requests = {}
    BY <2>1 DEF SelectionInv, RequestsTaken
  <2>3. cached = Wish /\ enabled = cached
    BY <2>1, <2>2 DEF SelectionInv, CacheFollows, UpdateFollows, Playing, Due
  <2>4. Wish = StoredSelection
    BY <2>1 DEF SelectionInv, PendingApart, Wish
  <2>5. sessions \subseteq enabled
    BY <2>1 DEF SelectionInv, SessionsEnabled
  <2>. QED BY <2>3, <2>4, <2>5
<1>. QED BY <1>1, SelectionInvariance, PTL

\* When all is quiet the label names the receivers that are open, also those that an
\* update closed while the stream was set up; after a failed update it names none
\* that is not.
THEOREM LabelCorrect == Spec => []LabelNamesSessions
<1>1. SelectionInv => LabelNamesSessions
  <2> SUFFICES ASSUME SelectionInv, host = "streaming", setup = "playing", control = "none"
               PROVE  names \subseteq sessions /\ (~control_failed => names = sessions)
    BY Zenon DEF LabelNamesSessions, Quiet
  <2>1. requests = {}
    BY DEF SelectionInv, RequestsTaken
  <2>. QED BY <2>1 DEF SelectionInv, LabelFollows, Steady
<1>. QED BY <1>1, SelectionInvariance, PTL
=============================================================================
