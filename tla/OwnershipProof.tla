--------------------------- MODULE OwnershipProof ---------------------------
(***************************************************************************)
(* The flags and the places of the three tasks, for any profiles and any   *)
(* number of commands and requests: a task that runs a shared procedure    *)
(* always knows its way back into its own code, and a refused pause sends  *)
(* each task to a place of its own.  Then what the tasks owe one another:  *)
(* a raised flag is lowered by somebody, and TX settles with its owner.    *)
(***************************************************************************)
EXTENDS Ownership, TLAPS

Pausing == {"pause", "pauseSet", "pauseGap"}
Pausers == [main |-> {}, calibration |-> {"sweep", "slip"}, control |-> {"scan"}]

\* Where a task may be, and where it may return to.
PlaceOK(t) ==
  /\ at[t] \in Places[t] \cup InCall
  /\ back[t] \in Places[t] \cup {"none"}
  /\ at[t] \in InCall => back[t] \in Places[t]
  /\ at[t] \in Pausing => back[t] \in Pausers[t]
  /\ outlast[t] \subseteq Tasks \ {t}

CtlOK ==
  /\ DOMAIN at = Tasks /\ DOMAIN back = Tasks /\ DOMAIN outlast = Tasks
  /\ \A t \in Tasks : PlaceOK(t)

FlagOK ==
  /\ splash \in BOOLEAN /\ status \in BOOLEAN /\ menu \in BOOLEAN /\ started \in BOOLEAN
  /\ paused \in BOOLEAN /\ scan \in BOOLEAN /\ startup \in BOOLEAN /\ requested \in BOOLEAN
  /\ phase \in BOOLEAN

DataOK ==
  /\ tx \in {"live", "raster", "off"} /\ profile \in Profiles
  /\ commands \in 0 .. MaxCommands /\ requests \in 0 .. MaxRequests

IInv == CtlOK /\ FlagOK /\ DataOK

\* Every way in which a task moves: to its own code, into a shared procedure
\* with a way back, on within it, out of it, or not at all.
Steps(t) ==
  \/ \E p \in Places[t] : Goto(t, p)
  \/ \E p \in InCall \ Pausing, b \in Places[t] : Call(t, p, b)
  \/ \E b \in Pausers[t] : Call(t, "pause", b)
  \/ at[t] \in InCall /\ Return(t)
  \/ /\ at[t] \in InCall
     /\ \E p \in InCall : (p \in Pausing => at[t] \in Pausing) /\ Goto(t, p)
  \/ UNCHANGED <<at, back, outlast>>

LEMMA PlacesOf ==
  /\ Tasks = {"main", "calibration", "control"}
  /\ \A t \in Tasks : Places[t] \cap InCall = {} /\ Pausers[t] \subseteq Places[t] /\ "none" \notin InCall
  /\ Pausing \subseteq InCall
  /\ Places["main"] = {"splash", "tasks", "logo", "done"}
  /\ Places["calibration"] =
       {"boot", "idle", "slip", "slipped", "phaseOver", "owner", "leaveProfile", "writeProfile",
        "measure", "sweep", "swept", "measured", "result", "shown", "over"}
  /\ Places["control"] =
       {"absent", "ready", "request", "switched", "scan", "scanning", "channel", "setProfile"}
  BY DEF Tasks, Places, InCall, Pausing, Pausers

\* The delays that outlast others concern other tasks only.
LEMMA OutlastOK ==
  ASSUME CtlOK, Outlast
  PROVE  DOMAIN outlast' = Tasks /\ \A t \in Tasks : outlast'[t] \subseteq Tasks \ {t}
  BY DEF CtlOK, PlaceOK, Outlast

LEMMA StepsOK ==
  ASSUME CtlOK, NEW t \in Tasks, Steps(t)
  PROVE  CtlOK'
<1> DEFINE Elsewhere == \A u \in Tasks \ {t} : at'[u] = at[u] /\ back'[u] = back[u]
           Framed == /\ DOMAIN at' = Tasks /\ DOMAIN back' = Tasks /\ DOMAIN outlast' = Tasks
                     /\ Elsewhere /\ \A u \in Tasks : outlast'[u] \subseteq Tasks \ {u}
           Here == /\ at'[t] \in Places[t] \cup InCall
                   /\ back'[t] \in Places[t] \cup {"none"}
                   /\ at'[t] \in InCall => back'[t] \in Places[t]
                   /\ at'[t] \in Pausing => back'[t] \in Pausers[t]
<1>1. Framed /\ Here => CtlOK'
  BY DEF CtlOK, PlaceOK
<1>2. ASSUME NEW p, Goto(t, p)
      PROVE  Framed /\ at'[t] = p /\ back'[t] = back[t]
  BY <1>2, OutlastOK DEF Goto, Move, CtlOK
<1>3. ASSUME NEW p, NEW b, Call(t, p, b)
      PROVE  Framed /\ at'[t] = p /\ back'[t] = b
  BY <1>3, OutlastOK DEF Call, Move, CtlOK
<1>4. PlaceOK(t)
  BY DEF CtlOK
<1> HIDE DEF Framed
<1>5. ASSUME NEW p \in Places[t], Goto(t, p) PROVE CtlOK'
  <2>1. p \notin InCall /\ p \notin Pausing
    BY PlacesOf
  <2>2. QED
    BY <1>1, <1>2, <1>4, <1>5, <2>1 DEF PlaceOK
<1>6. ASSUME NEW p \in InCall \ Pausing, NEW b \in Places[t], Call(t, p, b) PROVE CtlOK'
  BY <1>1, <1>3, <1>6
<1>7. ASSUME NEW b \in Pausers[t], Call(t, "pause", b) PROVE CtlOK'
  BY <1>1, <1>3, <1>7, PlacesOf DEF Pausing
<1>8. ASSUME at[t] \in InCall, Return(t) PROVE CtlOK'
  BY <1>4, <1>5, <1>8 DEF Return, PlaceOK
<1>9. ASSUME at[t] \in InCall, NEW p \in InCall, p \in Pausing => at[t] \in Pausing, Goto(t, p) PROVE CtlOK'
  BY <1>1, <1>2, <1>4, <1>9 DEF PlaceOK
<1>10. CASE UNCHANGED <<at, back, outlast>>
  BY <1>10 DEF CtlOK, PlaceOK
<1>11. QED
  BY <1>5, <1>6, <1>7, <1>8, <1>9, <1>10 DEF Steps

\* The shared procedures stay within themselves until they return.
LEMMA SharedSteps ==
  ASSUME CtlOK, NEW t \in Tasks, Shared(t)
  PROVE  Steps(t)
<1>1. CASE OpenFails(t)
  BY <1>1, PlacesOf DEF OpenFails, Steps, At, Places, InCall, Pausing, Pausers
<1>2. CASE Open(t)
  BY <1>2, PlacesOf DEF Open, Steps, At, Places, InCall, Pausing, Pausers
<1>3. CASE OpenFlag(t)
  BY <1>3, PlacesOf DEF OpenFlag, Steps, At, Places, InCall, Pausing, Pausers
<1>4. CASE OpenStop(t)
  BY <1>4, PlacesOf DEF OpenStop, Steps, At, Places, InCall, Pausing, Pausers
<1>5. CASE OpenChain(t)
  BY <1>5, PlacesOf DEF OpenChain, Steps, At, Places, InCall, Pausing, Pausers
<1>6. CASE OpenEnd(t)
  BY <1>6, PlacesOf DEF OpenEnd, Steps, At, Places, InCall, Pausing, Pausers
<1>7. CASE Close(t)
  BY <1>7, PlacesOf DEF Close, Steps, At, Places, InCall, Pausing, Pausers
<1>8. CASE CloseGap(t)
  BY <1>8, PlacesOf DEF CloseGap, Steps, At, Places, InCall, Pausing, Pausers
<1>9. CASE Resume(t)
  BY <1>9, PlacesOf DEF Resume, Steps, At, Places, InCall, Pausing, Pausers
<1>10. CASE TxEnable(t)
  BY <1>10, PlacesOf DEF TxEnable, Steps, At, Places, InCall, Pausing, Pausers
<1>11. CASE TxWait(t)
  <2>1. at[t] \in InCall /\ back[t] \in Places[t]
    BY <1>11 DEF TxWait, At, CtlOK, PlaceOK, InCall
  <2>2. (back[t] = "switched" /\ Goto(t, "switched")) \/ Goto(t, "closeFlag") \/ Goto(t, "resume")
    BY <1>11 DEF TxWait
  <2>3. {"closeFlag", "resume"} \subseteq InCall \ Pausing
    BY DEF InCall, Pausing
  <2>4. QED
    BY <2>1, <2>2, <2>3 DEF Steps
<1>12. CASE CloseEnd(t)
  BY <1>12, PlacesOf DEF CloseEnd, Steps, At, Places, InCall, Pausing, Pausers
<1>13. CASE Screen(t)
  BY <1>13, PlacesOf DEF Screen, Steps, At, Places, InCall, Pausing, Pausers
<1>14. CASE ScreenMenu(t)
  BY <1>14, PlacesOf DEF ScreenMenu, Steps, At, Places, InCall, Pausing, Pausers
<1>15. CASE ScreenEnd(t)
  BY <1>15, PlacesOf DEF ScreenEnd, Steps, At, Places, InCall, Pausing, Pausers
<1>16. CASE Pause(t)
  <2> DEFINE q == IF paused THEN Refused[back[t]] ELSE "pauseSet"
  <2>1. Goto(t, q) /\ at[t] = "pause"
    BY <1>16 DEF Pause, At
  <2>2. at[t] \in InCall /\ at[t] \in Pausing /\ back[t] \in Pausers[t]
    BY <2>1 DEF CtlOK, PlaceOK, InCall, Pausing
  <2>3. Refused[back[t]] \in Places[t]
    <3>1. t = "calibration" \/ t = "control"
      BY <2>2, PlacesOf DEF Pausers
    <3>2. CASE t = "calibration"
      <4>1. back[t] = "sweep" \/ back[t] = "slip"
        BY <2>2, <3>2 DEF Pausers
      <4>2. QED
        BY <3>2, <4>1 DEF Refused, Places
    <3>3. CASE t = "control"
      <4>1. back[t] = "scan"
        BY <2>2, <3>3 DEF Pausers
      <4>2. QED
        BY <3>3, <4>1 DEF Refused, Places
    <3>4. QED
      BY <3>1, <3>2, <3>3
  <2>4. CASE paused
    BY <2>1, <2>3, <2>4 DEF Steps
  <2>5. CASE ~paused
    BY <2>1, <2>2, <2>5 DEF Steps, InCall, Pausing
  <2>6. QED
    BY <2>4, <2>5
<1>17. CASE PauseSet(t)
  BY <1>17, PlacesOf DEF PauseSet, Steps, At, Places, InCall, Pausing, Pausers
<1>18. CASE PauseEnd(t)
  BY <1>18, PlacesOf DEF PauseEnd, Steps, At, Places, InCall, Pausing, Pausers
<1> QED
  BY <1>1, <1>2, <1>3, <1>4, <1>5, <1>6, <1>7, <1>8, <1>9, <1>10, <1>11, <1>12, <1>13, <1>14, <1>15, <1>16, <1>17, <1>18 DEF Shared

\* app_main starts control itself (ControlStart, below).
LEMMA MainSteps ==
  ASSUME CtlOK, SplashBegin \/ SplashSkip \/ SplashEnd
  PROVE  Steps("main")
<1>1. CASE SplashBegin
  BY <1>1, PlacesOf DEF SplashBegin, Steps, At, Places, InCall, Pausing, Pausers
<1>2. CASE SplashSkip
  BY <1>2, PlacesOf DEF SplashSkip, Steps, At, Places, InCall, Pausing, Pausers
<1>3. CASE SplashEnd
  BY <1>3, PlacesOf DEF SplashEnd, Steps, At, Places, InCall, Pausing, Pausers
<1> QED
  BY <1>1, <1>2, <1>3

\* The calibration task.
LEMMA CalibrationSteps ==
  ASSUME CtlOK, Calibration, ~Shared("calibration")
  PROVE  Steps("calibration")
<1>1. CASE CalibrationBoot
  BY <1>1, PlacesOf DEF CalibrationBoot, Steps, At, Places, InCall, Pausing, Pausers
<1>2. CASE PhaseExpires
  BY <1>2, PlacesOf DEF PhaseExpires, Steps, At, Places, InCall, Pausing, Pausers
<1>3. CASE PhaseCheck
  BY <1>3, PlacesOf DEF PhaseCheck, Steps, At, Places, InCall, Pausing, Pausers
<1>4. CASE PhaseSlip
  BY <1>4, PlacesOf DEF PhaseSlip, Steps, At, Places, InCall, Pausing, Pausers
<1>5. CASE PhaseDone
  BY <1>5, PlacesOf DEF PhaseDone, Steps, At, Places, InCall, Pausing, Pausers
<1>6. CASE PhaseOver
  BY <1>6, PlacesOf DEF PhaseOver, Steps, At, Places, InCall, Pausing, Pausers
<1>7. CASE StartupBegin
  BY <1>7, PlacesOf DEF StartupBegin, Steps, At, Places, InCall, Pausing, Pausers
<1>8. CASE OwnerFree
  BY <1>8, PlacesOf DEF OwnerFree, Steps, At, Places, InCall, Pausing, Pausers
<1>9. CASE OwnerBusy
  BY <1>9, PlacesOf DEF OwnerBusy, Steps, At, Places, InCall, Pausing, Pausers
<1>10. CASE LeaveProfile
  BY <1>10, PlacesOf DEF LeaveProfile, Steps, At, Places, InCall, Pausing, Pausers
<1>11. CASE WriteProfile
  BY <1>11, PlacesOf DEF WriteProfile, Steps, At, Places, InCall, Pausing, Pausers
<1>12. CASE Measure
  BY <1>12, PlacesOf DEF Measure, Steps, At, Places, InCall, Pausing, Pausers
<1>13. CASE Sweep
  BY <1>13, PlacesOf DEF Sweep, Steps, At, Places, InCall, Pausing, Pausers
<1>14. CASE Swept
  BY <1>14, PlacesOf DEF Swept, Steps, At, Places, InCall, Pausing, Pausers
<1>15. CASE Measured
  BY <1>15, PlacesOf DEF Measured, Steps, At, Places, InCall, Pausing, Pausers
<1>16. CASE Result
  BY <1>16, PlacesOf DEF Result, Steps, At, Places, InCall, Pausing, Pausers
<1>17. CASE Shown
  BY <1>17, PlacesOf DEF Shown, Steps, At, Places, InCall, Pausing, Pausers
<1>18. CASE StartupEnd
  BY <1>18, PlacesOf DEF StartupEnd, Steps, At, Places, InCall, Pausing, Pausers
<1> QED
  BY <1>1, <1>2, <1>3, <1>4, <1>5, <1>6, <1>7, <1>8, <1>9, <1>10, <1>11, <1>12, <1>13, <1>14, <1>15, <1>16, <1>17, <1>18 DEF Calibration

\* The control task and the commands it takes.
LEMMA ControlSteps ==
  ASSUME CtlOK, ControlStep \/ Commands, ~Shared("control")
  PROVE  Steps("control")
<1>1. CASE IdleExit
  BY <1>1, PlacesOf DEF IdleExit, Steps, At, Places, InCall, Pausing, Pausers
<1>2. CASE MenuRequest
  BY <1>2, PlacesOf DEF MenuRequest, Steps, At, Places, InCall, Pausing, Pausers
<1>3. CASE Switched
  BY <1>3, PlacesOf DEF Switched, Steps, At, Places, InCall, Pausing, Pausers
<1>4. CASE ScanBegin
  BY <1>4, PlacesOf DEF ScanBegin, Steps, At, Places, InCall, Pausing, Pausers
<1>5. CASE ScanOver
  BY <1>5, PlacesOf DEF ScanOver, Steps, At, Places, InCall, Pausing, Pausers
<1>6. CASE ProfileStays
  BY <1>6, PlacesOf DEF ProfileStays, Steps, At, Places, InCall, Pausing, Pausers
<1>7. CASE ProfileDefault
  BY <1>7, PlacesOf DEF ProfileDefault, Steps, At, Places, InCall, Pausing, Pausers
<1>8. CASE SetProfile
  BY <1>8, PlacesOf DEF SetProfile, Steps, At, Places, InCall, Pausing, Pausers
<1>9. CASE MenuKey
  BY <1>9, PlacesOf DEF MenuKey, Command, Steps, At, Places, InCall, Pausing, Pausers
<1>10. CASE MenuCalibrate
  BY <1>10, PlacesOf DEF MenuCalibrate, Command, Steps, At, Places, InCall, Pausing, Pausers
<1>11. CASE LiveKey
  BY <1>11, PlacesOf DEF LiveKey, Command, Steps, At, Places, InCall, Pausing, Pausers
<1>12. CASE MenuFilter
  BY <1>12, PlacesOf DEF MenuFilter, Command, Steps, At, Places, InCall, Pausing, Pausers
<1>13. CASE ScanKey
  BY <1>13, PlacesOf DEF ScanKey, Command, Steps, At, Places, InCall, Pausing, Pausers
<1>14. CASE ChannelKey
  BY <1>14, PlacesOf DEF ChannelKey, Command, Steps, At, Places, InCall, Pausing, Pausers
<1> QED
  BY <1>1, <1>2, <1>3, <1>4, <1>5, <1>6, <1>7, <1>8, <1>9, <1>10, <1>11, <1>12, <1>13, <1>14 DEF ControlStep, Commands

-----------------------------------------------------------------------------
LEMMA NextControl ==
  ASSUME CtlOK, [Next]_vars
  PROVE  CtlOK'
<1>1. ASSUME NEW t \in Tasks, Shared(t) PROVE CtlOK'
  BY <1>1, SharedSteps, StepsOK
<1>2. {"main", "calibration", "control"} \subseteq Tasks
  BY PlacesOf
<1>3. CASE SplashBegin \/ SplashSkip \/ SplashEnd
  BY <1>2, <1>3, MainSteps, StepsOK
<1>4. CASE ControlStart
  <2>1. /\ at' = [at EXCEPT !["main"] = "logo", !["control"] = "ready"]
        /\ back' = back /\ Outlast
    BY <1>4 DEF ControlStart
  <2>2. DOMAIN at' = Tasks /\ DOMAIN back' = Tasks
    BY <2>1 DEF CtlOK
  <2>3. at'["main"] = "logo" /\ at'["control"] = "ready" /\ at'["calibration"] = at["calibration"]
    BY <1>2, <2>1 DEF CtlOK
  <2>4. "logo" \in Places["main"] \ InCall /\ "ready" \in Places["control"] \ InCall
    BY DEF Places, InCall
  <2>5. ASSUME NEW t \in Tasks PROVE PlaceOK(t)'
    <3>1. PlaceOK(t) /\ outlast'[t] \subseteq Tasks \ {t}
      BY <2>1, OutlastOK DEF CtlOK
    <3>2. CASE t = "calibration"
      BY <2>1, <2>3, <3>1, <3>2 DEF PlaceOK
    <3>3. CASE t = "main"
      BY <2>1, <2>3, <2>4, <3>1, <3>3, PlacesOf DEF PlaceOK
    <3>4. CASE t = "control"
      BY <2>1, <2>3, <2>4, <3>1, <3>4, PlacesOf DEF PlaceOK
    <3>5. QED
      BY <3>2, <3>3, <3>4, PlacesOf
  <2>6. QED
    BY <2>1, <2>2, <2>5, OutlastOK DEF CtlOK
<1>5. CASE Calibration /\ ~Shared("calibration")
  BY <1>2, <1>5, CalibrationSteps, StepsOK
<1>6. CASE (ControlStep \/ Commands) /\ ~Shared("control")
  BY <1>2, <1>6, ControlSteps, StepsOK
<1>7. CASE UNCHANGED <<at, back, outlast>>
  BY <1>7 DEF CtlOK, PlaceOK
<1>8. QED
  BY <1>1, <1>2, <1>3, <1>4, <1>5, <1>6, <1>7
  DEF Next, Main, Calibration, ControlStep, ConsoleRequest, Rest, vars

\* What each group of steps does to the flags.
LEMMA SharedFlags ==
  ASSUME FlagOK, DataOK, NEW t \in Tasks, Shared(t)
  PROVE  FlagOK' /\ DataOK'
<1> USE BoundsAssumption, ProfilesAssumption DEF picture, receiver, budget
<1>1. CASE OpenFails(t)
  BY <1>1 DEF OpenFails, FlagOK, DataOK
<1>2. CASE Open(t)
  BY <1>2 DEF Open, FlagOK, DataOK
<1>3. CASE OpenFlag(t)
  BY <1>3 DEF OpenFlag, FlagOK, DataOK
<1>4. CASE OpenStop(t)
  BY <1>4 DEF OpenStop, FlagOK, DataOK
<1>5. CASE OpenChain(t)
  BY <1>5 DEF OpenChain, FlagOK, DataOK
<1>6. CASE OpenEnd(t)
  BY <1>6 DEF OpenEnd, FlagOK, DataOK
<1>7. CASE Close(t)
  BY <1>7 DEF Close, FlagOK, DataOK
<1>8. CASE CloseGap(t)
  BY <1>8 DEF CloseGap, FlagOK, DataOK
<1>9. CASE Resume(t)
  BY <1>9 DEF Resume, FlagOK, DataOK
<1>10. CASE TxEnable(t)
  BY <1>10 DEF TxEnable, FlagOK, DataOK
<1>11. CASE TxWait(t)
  BY <1>11 DEF TxWait, FlagOK, DataOK
<1>12. CASE CloseEnd(t)
  BY <1>12 DEF CloseEnd, FlagOK, DataOK
<1>13. CASE Screen(t)
  BY <1>13 DEF Screen, FlagOK, DataOK
<1>14. CASE ScreenMenu(t)
  BY <1>14 DEF ScreenMenu, FlagOK, DataOK
<1>15. CASE ScreenEnd(t)
  BY <1>15 DEF ScreenEnd, FlagOK, DataOK
<1>16. CASE Pause(t)
  BY <1>16 DEF Pause, FlagOK, DataOK
<1>17. CASE PauseSet(t)
  BY <1>17 DEF PauseSet, FlagOK, DataOK
<1>18. CASE PauseEnd(t)
  BY <1>18 DEF PauseEnd, FlagOK, DataOK
<1> QED
  BY <1>1, <1>2, <1>3, <1>4, <1>5, <1>6, <1>7, <1>8, <1>9, <1>10, <1>11, <1>12, <1>13, <1>14, <1>15, <1>16, <1>17, <1>18 DEF Shared

LEMMA MainFlags ==
  ASSUME FlagOK, DataOK, Main, ~Shared("main")
  PROVE  FlagOK' /\ DataOK'
<1> USE BoundsAssumption, ProfilesAssumption DEF picture, receiver, budget
<1>1. CASE SplashBegin
  BY <1>1 DEF SplashBegin, FlagOK, DataOK
<1>2. CASE SplashSkip
  BY <1>2 DEF SplashSkip, FlagOK, DataOK
<1>3. CASE SplashEnd
  BY <1>3 DEF SplashEnd, FlagOK, DataOK
<1>4. CASE ControlStart
  BY <1>4 DEF ControlStart, FlagOK, DataOK
<1> QED
  BY <1>1, <1>2, <1>3, <1>4 DEF Main

LEMMA CalibrationFlags ==
  ASSUME FlagOK, DataOK, Calibration, ~Shared("calibration")
  PROVE  FlagOK' /\ DataOK'
<1> USE BoundsAssumption, ProfilesAssumption DEF picture, receiver, budget
<1>1. CASE CalibrationBoot
  BY <1>1 DEF CalibrationBoot, FlagOK, DataOK
<1>2. CASE PhaseExpires
  BY <1>2 DEF PhaseExpires, FlagOK, DataOK
<1>3. CASE PhaseCheck
  BY <1>3 DEF PhaseCheck, FlagOK, DataOK
<1>4. CASE PhaseSlip
  BY <1>4 DEF PhaseSlip, FlagOK, DataOK
<1>5. CASE PhaseDone
  BY <1>5 DEF PhaseDone, FlagOK, DataOK
<1>6. CASE PhaseOver
  BY <1>6 DEF PhaseOver, FlagOK, DataOK
<1>7. CASE StartupBegin
  BY <1>7 DEF StartupBegin, FlagOK, DataOK
<1>8. CASE OwnerFree
  BY <1>8 DEF OwnerFree, FlagOK, DataOK
<1>9. CASE OwnerBusy
  BY <1>9 DEF OwnerBusy, FlagOK, DataOK
<1>10. CASE LeaveProfile
  BY <1>10 DEF LeaveProfile, FlagOK, DataOK
<1>11. CASE WriteProfile
  BY <1>11 DEF WriteProfile, FlagOK, DataOK
<1>12. CASE Measure
  BY <1>12 DEF Measure, FlagOK, DataOK
<1>13. CASE Sweep
  BY <1>13 DEF Sweep, FlagOK, DataOK
<1>14. CASE Swept
  BY <1>14 DEF Swept, FlagOK, DataOK
<1>15. CASE Measured
  BY <1>15 DEF Measured, FlagOK, DataOK
<1>16. CASE Result
  BY <1>16 DEF Result, FlagOK, DataOK
<1>17. CASE Shown
  BY <1>17 DEF Shown, FlagOK, DataOK
<1>18. CASE StartupEnd
  BY <1>18 DEF StartupEnd, FlagOK, DataOK
<1> QED
  BY <1>1, <1>2, <1>3, <1>4, <1>5, <1>6, <1>7, <1>8, <1>9, <1>10, <1>11, <1>12, <1>13, <1>14, <1>15, <1>16, <1>17, <1>18 DEF Calibration

LEMMA ControlFlags ==
  ASSUME FlagOK, DataOK, ControlStep \/ Commands \/ ConsoleRequest \/ Rest, ~Shared("control")
  PROVE  FlagOK' /\ DataOK'
<1> USE BoundsAssumption, ProfilesAssumption DEF picture, receiver, budget
<1>1. CASE IdleExit
  BY <1>1 DEF IdleExit, FlagOK, DataOK
<1>2. CASE MenuRequest
  <2>1. FlagOK'
    BY <1>2 DEF MenuRequest, FilterRequest, FlagOK
  <2>2. DataOK'
    BY <1>2 DEF MenuRequest, FilterRequest, DataOK
  <2>3. QED
    BY <2>1, <2>2
<1>3. CASE Switched
  BY <1>3 DEF Switched, FlagOK, DataOK
<1>4. CASE ScanBegin
  BY <1>4 DEF ScanBegin, FlagOK, DataOK
<1>5. CASE ScanOver
  BY <1>5 DEF ScanOver, FlagOK, DataOK
<1>6. CASE ProfileStays
  BY <1>6 DEF ProfileStays, FlagOK, DataOK
<1>7. CASE ProfileDefault
  BY <1>7 DEF ProfileDefault, FlagOK, DataOK
<1>8. CASE SetProfile
  BY <1>8 DEF SetProfile, FlagOK, DataOK
<1>9. CASE MenuKey
  BY <1>9 DEF MenuKey, Command, FlagOK, DataOK
<1>10. CASE MenuCalibrate
  BY <1>10 DEF MenuCalibrate, Command, FlagOK, DataOK
<1>11. CASE LiveKey
  BY <1>11 DEF LiveKey, Command, FlagOK, DataOK
<1>12. CASE MenuFilter
  BY <1>12 DEF MenuFilter, Command, FlagOK, DataOK
<1>13. CASE ScanKey
  BY <1>13 DEF ScanKey, Command, FlagOK, DataOK
<1>14. CASE ChannelKey
  BY <1>14 DEF ChannelKey, Command, FlagOK, DataOK
<1>15. CASE ConsoleRequest
  BY <1>15 DEF ConsoleRequest, FilterRequest, FlagOK, DataOK
<1>16. CASE Rest
  BY <1>16 DEF Rest, FlagOK, DataOK
<1> QED
  BY <1>1, <1>2, <1>3, <1>4, <1>5, <1>6, <1>7, <1>8, <1>9, <1>10, <1>11, <1>12, <1>13, <1>14, <1>15, <1>16 DEF ControlStep, Commands

-----------------------------------------------------------------------------
LEMMA InitIInv == Init => IInv
<1> SUFFICES ASSUME Init PROVE IInv
  OBVIOUS
<1>1. CtlOK
  BY PlacesOf DEF Init, CtlOK, PlaceOK
<1>2. FlagOK
  BY DEF Init, FlagOK
<1>3. DataOK
  BY BoundsAssumption DEF Init, DataOK
<1>4. QED
  BY <1>1, <1>2, <1>3 DEF IInv

LEMMA StepIInv == IInv /\ [Next]_vars => IInv'
<1> SUFFICES ASSUME IInv, [Next]_vars PROVE IInv'
  OBVIOUS
<1>1. CtlOK /\ FlagOK /\ DataOK
  BY DEF IInv
<1>2. CtlOK'
  BY <1>1, NextControl
<1>3. ASSUME NEW t \in Tasks, Shared(t) PROVE FlagOK' /\ DataOK'
  BY <1>1, <1>3, SharedFlags
<1>4. ASSUME UNCHANGED vars PROVE FlagOK' /\ DataOK'
  <2>1. FlagOK'
    BY <1>1, <1>4 DEF vars, picture, receiver, FlagOK
  <2>2. DataOK'
    BY <1>1, <1>4 DEF vars, picture, receiver, budget, DataOK
  <2>3. QED
    BY <2>1, <2>2
<1>5. FlagOK' /\ DataOK'
  <2>1. {"main", "calibration", "control"} \subseteq Tasks
    BY PlacesOf
  <2>2. CASE Main
    BY <1>1, <1>3, <2>1, <2>2, MainFlags
  <2>3. CASE Calibration
    BY <1>1, <1>3, <2>1, <2>3, CalibrationFlags
  <2>4. CASE ControlStep \/ Commands \/ ConsoleRequest \/ Rest
    BY <1>1, <1>3, <2>1, <2>4, ControlFlags
  <2>5. QED
    BY <1>4, <2>2, <2>3, <2>4 DEF Next
<1>6. QED
  BY <1>2, <1>5 DEF IInv

\* Every flag and every place keeps its type, whatever profiles there are and
\* however often commands and requests come.
THEOREM TypeCorrect == FairSpec => []TypeOK
<1>1. IInv => TypeOK
  BY DEF IInv, CtlOK, PlaceOK, FlagOK, DataOK, TypeOK
<1>2. QED
  BY <1>1, InitIInv, StepIInv, PTL DEF FairSpec, Spec

-----------------------------------------------------------------------------
(* Flags that one task raises and another may lower.  A raised flag is owed:  *)
(* some task is at a place, or in a call that returns to a place, whose way   *)
(* on lowers it.                                                              *)

LogoAt   == {"tasks", "logo"}
ScreenAt == {"leaveProfile", "writeProfile", "measure", "sweep", "swept", "measured", "shown", "setProfile"}
PauseAt  == {"slip", "slipped", "sweep", "swept", "scan", "scanning"}
ScanAt   == {"swept", "scanning"}

Owed(S, p, w) == p \in S \/ (p \in InCall /\ w \in S)

Logo(p, w)    == Owed(LogoAt, p, w)
Screens(p, w) == Owed(ScreenAt, p, w) \/ p = "screenEnd"
Pauses(p, w)  == Owed(PauseAt, p, w) /\ p \notin {"pause", "pauseSet"}
Scans(p, w)   == Owed(ScanAt, p, w)

\* A calibration never returns straight to its rest, a screen is only put up
\* for a place that takes it down.
Ways(t, p, w) ==
  /\ t = "calibration" => w # "idle"
  /\ p = "screen" => w \in ScreenAt

HeldInv ==
  /\ splash => Logo(at["main"], back["main"])
  /\ status => \E t \in Tasks : Screens(at[t], back[t])
  /\ paused => \E t \in Tasks : Pauses(at[t], back[t])
  /\ scan   => \E t \in Tasks : Scans(at[t], back[t])
  /\ startup => at["calibration"] # "idle"
  /\ \A t \in Tasks : Ways(t, at[t], back[t])

Elsewhere(t) == \A u \in Tasks \ {t} : at'[u] = at[u] /\ back'[u] = back[u]

\* A step of one task that leaves a flag raised leaves it owed.
Keeps(flag, after, owed, owedAfter) == after => owedAfter \/ (flag /\ (owed => owedAfter))

LocalHeld(t) ==
  /\ Elsewhere(t)
  /\ Ways(t, at'[t], back'[t])
  /\ IF t = "main" THEN Keeps(splash, splash', Logo(at[t], back[t]), Logo(at'[t], back'[t]))
                   ELSE splash' => splash
  /\ Keeps(status, status', Screens(at[t], back[t]), Screens(at'[t], back'[t]))
  /\ Keeps(paused, paused', Pauses(at[t], back[t]), Pauses(at'[t], back'[t]))
  /\ Keeps(scan, scan', Scans(at[t], back[t]), Scans(at'[t], back'[t]))
  /\ IF t = "calibration" THEN startup' => at'[t] # "idle" \/ (startup /\ at'[t] = at[t])
                          ELSE startup' => startup

LEMMA Frames ==
  ASSUME CtlOK, NEW t \in Tasks, NEW p, Goto(t, p)
  PROVE  at'[t] = p /\ back'[t] = back[t] /\ Elsewhere(t)
  BY DEF CtlOK, Goto, Move, Elsewhere

LEMMA CallFrames ==
  ASSUME CtlOK, NEW t \in Tasks, NEW p, NEW b, Call(t, p, b)
  PROVE  at'[t] = p /\ back'[t] = b /\ Elsewhere(t)
  BY DEF CtlOK, Call, Move, Elsewhere

LEMMA LocalKeeps ==
  ASSUME CtlOK, HeldInv, NEW t \in Tasks, LocalHeld(t)
  PROVE  HeldInv'
<1>1. \A u \in Tasks \ {t} : at'[u] = at[u] /\ back'[u] = back[u]
  BY DEF LocalHeld, Elsewhere
<1>2. "main" \in Tasks /\ "calibration" \in Tasks
  BY PlacesOf
<1>3. splash' => Logo(at'["main"], back'["main"])
  BY <1>1, <1>2 DEF LocalHeld, Keeps, HeldInv
<1>4. ASSUME status' PROVE \E u \in Tasks : Screens(at'[u], back'[u])
  BY <1>1, <1>4 DEF LocalHeld, Keeps, HeldInv
<1>5. ASSUME paused' PROVE \E u \in Tasks : Pauses(at'[u], back'[u])
  BY <1>1, <1>5 DEF LocalHeld, Keeps, HeldInv
<1>6. ASSUME scan' PROVE \E u \in Tasks : Scans(at'[u], back'[u])
  BY <1>1, <1>6 DEF LocalHeld, Keeps, HeldInv
<1>7. startup' => at'["calibration"] # "idle"
  BY <1>1, <1>2 DEF LocalHeld, HeldInv
<1>8. \A u \in Tasks : Ways(u, at'[u], back'[u])
  BY <1>1 DEF LocalHeld, HeldInv
<1>9. QED
  BY <1>3, <1>4, <1>5, <1>6, <1>7, <1>8 DEF HeldInv

\* A shared procedure stays within itself with the same way back, takes that
\* way, or is a refused pause.
SharedMove(t) ==
  /\ Elsewhere(t) /\ back'[t] = back[t] /\ at[t] \in InCall
  /\ \/ at'[t] \in InCall \ {"pause", "screen", "screenEnd"} /\ (at'[t] = "pauseSet" => at[t] = "pause")
     \/ at'[t] = back[t]
     \/ at[t] = "pause" /\ paused /\ at'[t] = Refused[back[t]]

LEMMA SharedMoves ==
  ASSUME CtlOK, NEW t \in Tasks, Shared(t)
  PROVE  SharedMove(t)
<1>1. CASE OpenFails(t)
  BY <1>1, Frames DEF OpenFails, At, Return, SharedMove, InCall
<1>2. CASE Open(t)
  BY <1>2, Frames DEF Open, At, Return, SharedMove, InCall
<1>3. CASE OpenFlag(t)
  BY <1>3, Frames DEF OpenFlag, At, Return, SharedMove, InCall
<1>4. CASE OpenStop(t)
  BY <1>4, Frames DEF OpenStop, At, Return, SharedMove, InCall
<1>5. CASE OpenChain(t)
  BY <1>5, Frames DEF OpenChain, At, Return, SharedMove, InCall
<1>6. CASE OpenEnd(t)
  BY <1>6, Frames DEF OpenEnd, At, Return, SharedMove, InCall
<1>7. CASE Close(t)
  BY <1>7, Frames DEF Close, At, Return, SharedMove, InCall
<1>8. CASE CloseGap(t)
  BY <1>8, Frames DEF CloseGap, At, Return, SharedMove, InCall
<1>9. CASE Resume(t)
  BY <1>9, Frames DEF Resume, At, Return, SharedMove, InCall
<1>10. CASE TxEnable(t)
  BY <1>10, Frames DEF TxEnable, At, Return, SharedMove, InCall
<1>11. CASE TxWait(t)
  BY <1>11, Frames DEF TxWait, At, Return, SharedMove, InCall
<1>12. CASE CloseEnd(t)
  BY <1>12, Frames DEF CloseEnd, At, Return, SharedMove, InCall
<1>13. CASE Screen(t)
  BY <1>13, Frames DEF Screen, At, Return, SharedMove, InCall
<1>14. CASE ScreenMenu(t)
  BY <1>14, Frames DEF ScreenMenu, At, Return, SharedMove, InCall
<1>15. CASE ScreenEnd(t)
  BY <1>15, Frames DEF ScreenEnd, At, Return, SharedMove, InCall
<1>16. CASE Pause(t)
  BY <1>16, Frames DEF Pause, At, Return, SharedMove, InCall
<1>17. CASE PauseSet(t)
  BY <1>17, Frames DEF PauseSet, At, Return, SharedMove, InCall
<1>18. CASE PauseEnd(t)
  BY <1>18, Frames DEF PauseEnd, At, Return, SharedMove, InCall
<1> QED
  BY <1>1, <1>2, <1>3, <1>4, <1>5, <1>6, <1>7, <1>8, <1>9, <1>10, <1>11, <1>12, <1>13, <1>14, <1>15, <1>16, <1>17, <1>18 DEF Shared

LEMMA SharedHeld ==
  ASSUME CtlOK, FlagOK, HeldInv, NEW t \in Tasks, Shared(t)
  PROVE  LocalHeld(t)
<1>1. SharedMove(t)
  BY SharedMoves
<1>2. /\ back[t] \in Places[t] /\ back[t] \notin InCall /\ at[t] \notin Places[t]
      /\ at[t] \in Pausing => back[t] \in Pausers[t]
      /\ Ways(t, at[t], back[t])
  BY <1>1, PlacesOf DEF SharedMove, CtlOK, PlaceOK, HeldInv
<1>3. /\ splash' => splash
      /\ status' => (status /\ at[t] # "screenEnd") \/ at[t] = "screen"
      /\ paused' => paused \/ at[t] = "pauseSet"
      /\ at[t] = "pauseSet" => at'[t] = "pauseGap"
      /\ scan' = scan /\ startup' = startup
  <2> USE DEF picture, receiver, At, FlagOK
  <2>1. CASE OpenFails(t) \/ Open(t) \/ OpenFlag(t) \/ OpenStop(t) \/ OpenChain(t) \/ OpenEnd(t)
    BY <2>1 DEF OpenFails, Open, OpenFlag, OpenStop, OpenChain, OpenEnd
  <2>2. CASE Close(t) \/ CloseGap(t) \/ Resume(t) \/ TxEnable(t) \/ TxWait(t) \/ CloseEnd(t)
    BY <2>2 DEF Close, CloseGap, Resume, TxEnable, TxWait, CloseEnd
  <2>3. CASE Screen(t) \/ ScreenMenu(t) \/ ScreenEnd(t)
    BY <2>3 DEF Screen, ScreenMenu, ScreenEnd
  <2>4. CASE Pause(t) \/ PauseEnd(t)
    BY <2>4 DEF Pause, PauseEnd
  <2>5. CASE PauseSet(t)
    BY <2>5, Frames DEF PauseSet
  <2> QED
    BY <2>1, <2>2, <2>3, <2>4, <2>5 DEF Shared
<1>4. Ways(t, at'[t], back'[t])
  <2>1. at'[t] = "screen" => FALSE
    <3>1. Refused[back[t]] # "screen" \/ at[t] # "pause"
      <4>1. at[t] = "pause" => back[t] \in {"sweep", "slip", "scan"}
        BY <1>2 DEF Pausing, Pausers, Tasks
      <4>2. QED
        BY <4>1 DEF Refused
    <3>2. QED
      BY <1>1, <1>2, <3>1 DEF SharedMove, InCall
  <2>2. QED
    BY <1>1, <1>2, <2>1 DEF SharedMove, Ways
<1>5. ASSUME NEW S, Owed(S, at[t], back[t]), S \cap InCall = {}, at[t] # "pause"
      PROVE  Owed(S, at'[t], back'[t])
  BY <1>1, <1>2, <1>5 DEF Owed, SharedMove
<1>6. /\ LogoAt \cap InCall = {} /\ ScreenAt \cap InCall = {}
      /\ PauseAt \cap InCall = {} /\ ScanAt \cap InCall = {}
  BY DEF LogoAt, ScreenAt, PauseAt, ScanAt, InCall
<1>7. CASE at[t] = "pause"
  <2>1. back[t] \in {"sweep", "slip", "scan"} /\ (t = "main" => FALSE)
    BY <1>2, <1>7 DEF Pausing, Pausers, Tasks
  <2>2. \/ at'[t] \in InCall \ {"pause", "screen", "screenEnd"} /\ back'[t] = back[t]
        \/ at'[t] = back[t]
        \/ at'[t] = Refused[back[t]]
    BY <1>1 DEF SharedMove
  <2>3. status' => status
    BY <1>3, <1>7
  <2>4. Screens(at[t], back[t]) => Screens(at'[t], back'[t])
    BY <1>7, <2>1, <2>2 DEF Screens, Owed, ScreenAt, InCall, Refused
  <2>5. ~Pauses(at[t], back[t])
    BY <1>7 DEF Pauses
  <2>6. ~Scans(at[t], back[t])
    BY <1>7, <2>1 DEF Scans, Owed, ScanAt
  <2>7. at'[t] # "idle" \/ t # "calibration"
    BY <1>2, <2>1, <2>2 DEF Ways, Refused, InCall
  <2>8. QED
    BY <1>1, <1>3, <1>4, <1>7, <2>1, <2>3, <2>4, <2>5, <2>6, <2>7 DEF LocalHeld, Keeps, SharedMove
<1>8. CASE at[t] # "pause"
  <2>1. Logo(at[t], back[t]) => Logo(at'[t], back'[t])
    BY <1>5, <1>6, <1>8 DEF Logo
  <2>2. Scans(at[t], back[t]) => Scans(at'[t], back'[t])
    BY <1>5, <1>6, <1>8 DEF Scans
  <2>3. Owed(ScreenAt, at[t], back[t]) => Owed(ScreenAt, at'[t], back'[t])
    BY <1>5, <1>6, <1>8
  <2>4. at[t] = "screen" => Owed(ScreenAt, at[t], back[t])
    BY <1>2 DEF Owed, Ways, InCall
  <2>5. Keeps(status, status', Screens(at[t], back[t]), Screens(at'[t], back'[t]))
    BY <1>3, <2>3, <2>4 DEF Keeps, Screens
  <2>6. Owed(PauseAt, at[t], back[t]) => Owed(PauseAt, at'[t], back'[t])
    BY <1>5, <1>6, <1>8
  <2>7. at'[t] \notin {"pause", "pauseSet"}
    BY <1>1, <1>2, <1>8, PlacesOf DEF SharedMove, InCall
  <2>8. at[t] = "pauseSet" => Owed(PauseAt, at[t], back[t])
    <3>1. at[t] = "pauseSet" => back[t] \in {"sweep", "slip", "scan"}
      BY <1>2 DEF Pausing, Pausers, Tasks
    <3>2. QED
      BY <3>1 DEF Owed, PauseAt, InCall
  <2>9. Keeps(paused, paused', Pauses(at[t], back[t]), Pauses(at'[t], back'[t]))
    BY <1>3, <2>6, <2>7, <2>8 DEF Keeps, Pauses
  <2>10. startup' => (at'[t] # "idle" \/ t # "calibration")
    BY <1>1, <1>2, <1>8 DEF SharedMove, Ways, InCall
  <2>11. QED
    BY <1>1, <1>3, <1>4, <2>1, <2>2, <2>5, <2>9, <2>10 DEF LocalHeld, Keeps, SharedMove
<1>9. QED
  BY <1>7, <1>8

LEMMA MainHeld ==
  ASSUME CtlOK, FlagOK, HeldInv, SplashBegin \/ SplashSkip \/ SplashEnd
  PROVE  LocalHeld("main")
<1> USE PlacesOf, Frames, CallFrames DEF At, picture, receiver, LocalHeld, Keeps, Ways, Logo, Screens, Pauses, Scans,
        Owed, LogoAt, ScreenAt, PauseAt, ScanAt, InCall
<1>1. CASE SplashBegin
  BY <1>1 DEF SplashBegin
<1>2. CASE SplashSkip
  BY <1>2 DEF SplashSkip
<1>3. CASE SplashEnd
  BY <1>3 DEF SplashEnd
<1> QED
  BY <1>1, <1>2, <1>3

LEMMA CalibrationHeld ==
  ASSUME CtlOK, FlagOK, HeldInv, Calibration, ~Shared("calibration")
  PROVE  LocalHeld("calibration")
<1> USE PlacesOf, Frames, CallFrames DEF At, picture, receiver, LocalHeld, Keeps, Ways, Logo, Screens, Pauses, Scans,
        Owed, LogoAt, ScreenAt, PauseAt, ScanAt, InCall
<1>0. back["calibration"] # "idle"
  BY DEF HeldInv
<1>1. CASE CalibrationBoot
  BY <1>0, <1>1 DEF CalibrationBoot
<1>2. CASE PhaseExpires
  BY <1>0, <1>2 DEF PhaseExpires, Elsewhere
<1>3. CASE PhaseCheck
  BY <1>0, <1>3 DEF PhaseCheck
<1>4. CASE PhaseSlip
  BY <1>0, <1>4 DEF PhaseSlip
<1>5. CASE PhaseDone
  BY <1>0, <1>5 DEF PhaseDone
<1>6. CASE PhaseOver
  BY <1>0, <1>6 DEF PhaseOver
<1>7. CASE StartupBegin
  BY <1>0, <1>7 DEF StartupBegin
<1>8. CASE OwnerFree
  BY <1>0, <1>8 DEF OwnerFree
<1>9. CASE OwnerBusy
  BY <1>0, <1>9 DEF OwnerBusy
<1>10. CASE LeaveProfile
  BY <1>0, <1>10 DEF LeaveProfile
<1>11. CASE WriteProfile
  BY <1>0, <1>11 DEF WriteProfile
<1>12. CASE Measure
  BY <1>0, <1>12 DEF Measure
<1>13. CASE Sweep
  BY <1>0, <1>13 DEF Sweep
<1>14. CASE Swept
  BY <1>0, <1>14 DEF Swept
<1>15. CASE Measured
  BY <1>0, <1>15 DEF Measured
<1>16. CASE Result
  BY <1>0, <1>16 DEF Result
<1>17. CASE Shown
  BY <1>0, <1>17 DEF Shown
<1>18. CASE StartupEnd
  BY <1>0, <1>18 DEF StartupEnd
<1> QED
  BY <1>1, <1>2, <1>3, <1>4, <1>5, <1>6, <1>7, <1>8, <1>9, <1>10, <1>11, <1>12, <1>13, <1>14, <1>15, <1>16, <1>17, <1>18 DEF Calibration

LEMMA ControlHeld ==
  ASSUME CtlOK, FlagOK, HeldInv, ControlStep \/ Commands, ~Shared("control")
  PROVE  LocalHeld("control")
<1> USE PlacesOf, Frames, CallFrames DEF At, picture, receiver, LocalHeld, Keeps, Ways, Logo, Screens, Pauses, Scans,
        Owed, LogoAt, ScreenAt, PauseAt, ScanAt, InCall
<1>1. CASE IdleExit
  BY <1>1 DEF IdleExit
<1>2. CASE MenuRequest
  BY <1>2 DEF MenuRequest, FilterRequest
<1>3. CASE Switched
  BY <1>3 DEF Switched
<1>4. CASE ScanBegin
  BY <1>4 DEF ScanBegin
<1>5. CASE ScanOver
  BY <1>5 DEF ScanOver
<1>6. CASE ProfileStays
  BY <1>6 DEF ProfileStays
<1>7. CASE ProfileDefault
  BY <1>7 DEF ProfileDefault
<1>8. CASE SetProfile
  BY <1>8 DEF SetProfile
<1>9. CASE MenuKey
  BY <1>9 DEF MenuKey, Command
<1>10. CASE MenuCalibrate
  BY <1>10 DEF MenuCalibrate, Command
<1>11. CASE LiveKey
  BY <1>11 DEF LiveKey, Command
<1>12. CASE MenuFilter
  BY <1>12 DEF MenuFilter, Command, Elsewhere
<1>13. CASE ScanKey
  BY <1>13 DEF ScanKey, Command
<1>14. CASE ChannelKey
  BY <1>14 DEF ChannelKey, Command
<1> QED
  BY <1>1, <1>2, <1>3, <1>4, <1>5, <1>6, <1>7, <1>8, <1>9, <1>10, <1>11, <1>12, <1>13, <1>14 DEF ControlStep, Commands

\* Until app_main starts it, control is not there, and it is started once.
EarlyInv ==
  /\ (at["main"] = "splash" \/ Owed({"tasks"}, at["main"], back["main"])) => at["control"] = "absent"
  /\ back["main"] # "splash"

LEMMA ControlPresent ==
  ASSUME CtlOK, ControlStep \/ Commands
  PROVE  at["control"] # "absent"
<1>1. CASE Shared("control")
  <2>1. at["control"] \in InCall
    BY <1>1, SharedMoves, PlacesOf DEF SharedMove
  <2>2. QED
    BY <2>1 DEF InCall
<1>2. CASE ControlStep /\ ~Shared("control")
  BY <1>2 DEF ControlStep, At, IdleExit, MenuRequest, Switched, ScanBegin, ScanOver, ProfileStays,
     ProfileDefault, SetProfile
<1>3. CASE Commands
  BY <1>3 DEF Commands, Command, MenuKey, MenuCalibrate, LiveKey, MenuFilter, ScanKey, ChannelKey
<1>4. QED
  BY <1>1, <1>2, <1>3

\* Which task moves in a step, and what the others see of it.
LEMMA TaskMoves ==
  ASSUME CtlOK, FlagOK, HeldInv, Next
  PROVE  \/ LocalHeld("main") /\ (SplashBegin \/ SplashSkip \/ SplashEnd \/ SharedMove("main"))
         \/ LocalHeld("calibration")
         \/ LocalHeld("control") /\ at["control"] # "absent"
         \/ ControlStart
         \/ UNCHANGED <<at, back, splash, status, paused, scan, startup>>
<1>1. {"main", "calibration", "control"} \subseteq Tasks
  BY PlacesOf
<1>2. CASE Main
  BY <1>1, <1>2, MainHeld, SharedHeld, SharedMoves DEF Main
<1>3. CASE Calibration
  BY <1>1, <1>3, CalibrationHeld, SharedHeld
<1>4. CASE ControlStep \/ Commands
  BY <1>1, <1>4, ControlHeld, SharedHeld, ControlPresent
<1>5. CASE ConsoleRequest \/ Rest
  BY <1>5 DEF ConsoleRequest, FilterRequest, Rest, picture, receiver
<1>6. QED
  BY <1>2, <1>3, <1>4, <1>5 DEF Next

LEMMA Started ==
  ASSUME CtlOK, ControlStart
  PROVE  /\ at["main"] = "tasks" /\ at'["main"] = "logo" /\ at'["control"] = "ready"
         /\ at'["calibration"] = at["calibration"]
         /\ UNCHANGED <<back, splash, status, paused, scan, startup>>
  BY PlacesOf DEF ControlStart, CtlOK, At, picture, receiver

LEMMA EarlyNext ==
  ASSUME CtlOK, FlagOK, HeldInv, EarlyInv, [Next]_vars
  PROVE  EarlyInv'
<1>1. "main" \in Tasks /\ "calibration" \in Tasks /\ "control" \in Tasks
  BY PlacesOf
<1>2. CASE SharedMove("main")
  <2>1. back["main"] \in Places["main"] /\ at["main"] # "pause"
    BY <1>1, <1>2 DEF SharedMove, CtlOK, PlaceOK, Pausing, Pausers
  <2>2. at'["control"] = at["control"] /\ back'["main"] = back["main"]
    BY <1>1, <1>2 DEF SharedMove, Elsewhere
  <2>3. at'["main"] # "splash"
    BY <1>2, <2>1 DEF SharedMove, InCall, EarlyInv
  <2>4. Owed({"tasks"}, at'["main"], back'["main"]) => Owed({"tasks"}, at["main"], back["main"])
    BY <1>2, <2>1 DEF SharedMove, Owed, InCall
  <2>5. QED
    BY <2>2, <2>3, <2>4 DEF EarlyInv
<1>3. CASE SplashBegin \/ SplashSkip
  BY <1>1, <1>3, Frames, CallFrames DEF SplashBegin, SplashSkip, At, EarlyInv, Elsewhere
<1>4. CASE SplashEnd
  BY <1>1, <1>4, Frames, CallFrames DEF SplashEnd, At, EarlyInv, Elsewhere, Owed, InCall
<1>5. CASE LocalHeld("calibration")
  BY <1>1, <1>5 DEF LocalHeld, Elsewhere, EarlyInv
<1>6. CASE LocalHeld("control") /\ at["control"] # "absent"
  BY <1>1, <1>6 DEF LocalHeld, Elsewhere, EarlyInv
<1>7. CASE ControlStart
  BY <1>7, Started DEF EarlyInv, Owed, InCall
<1>8. CASE UNCHANGED <<at, back>>
  BY <1>8 DEF EarlyInv
<1>9. QED
  BY <1>2, <1>3, <1>4, <1>5, <1>6, <1>7, <1>8, TaskMoves DEF vars

LEMMA HeldNext ==
  ASSUME CtlOK, FlagOK, HeldInv, EarlyInv, [Next]_vars
  PROVE  HeldInv'
<1>1. "main" \in Tasks /\ "calibration" \in Tasks /\ "control" \in Tasks
  BY PlacesOf
<1>2. ASSUME NEW t \in Tasks, LocalHeld(t) PROVE HeldInv'
  BY <1>2, LocalKeeps
<1>3. CASE ControlStart
  <2>1. at["control"] = "absent" /\ at["main"] = "tasks"
    BY <1>3, Started DEF EarlyInv, Owed
  <2>2. /\ ~Screens(at["control"], back["control"]) /\ ~Screens(at["main"], back["main"])
        /\ ~Pauses(at["control"], back["control"]) /\ ~Pauses(at["main"], back["main"])
        /\ ~Scans(at["control"], back["control"]) /\ ~Scans(at["main"], back["main"])
    BY <2>1 DEF Screens, Pauses, Scans, Owed, ScreenAt, PauseAt, ScanAt, InCall
  <2>3. at'["calibration"] = at["calibration"] /\ back'["calibration"] = back["calibration"]
    BY <1>3, Started
  <2>4. status' => Screens(at'["calibration"], back'["calibration"])
    BY <1>3, <2>2, <2>3, Started, PlacesOf DEF HeldInv
  <2>5. paused' => Pauses(at'["calibration"], back'["calibration"])
    BY <1>3, <2>2, <2>3, Started, PlacesOf DEF HeldInv
  <2>6. scan' => Scans(at'["calibration"], back'["calibration"])
    BY <1>3, <2>2, <2>3, Started, PlacesOf DEF HeldInv
  <2>7. Logo(at'["main"], back'["main"])
    BY <1>3, Started DEF Logo, Owed, LogoAt
  <2>8. startup' => at'["calibration"] # "idle"
    BY <1>3, Started DEF HeldInv
  <2>9. \A t \in Tasks : Ways(t, at'[t], back'[t])
    <3>1. Ways("main", at'["main"], back'["main"]) /\ Ways("control", at'["control"], back'["control"])
      BY <1>3, Started DEF Ways
    <3>2. Ways("calibration", at'["calibration"], back'["calibration"])
      BY <1>1, <2>3 DEF HeldInv
    <3>3. QED
      BY <3>1, <3>2, PlacesOf
  <2>10. QED
    BY <1>1, <2>4, <2>5, <2>6, <2>7, <2>8, <2>9 DEF HeldInv
<1>4. CASE UNCHANGED <<at, back, splash, status, paused, scan, startup>>
  BY <1>4 DEF HeldInv
<1>5. QED
  BY <1>1, <1>2, <1>3, <1>4, TaskMoves DEF vars, picture, receiver

LEMMA HeldStart ==
  ASSUME Init
  PROVE  HeldInv /\ EarlyInv
  BY PlacesOf DEF Init, HeldInv, EarlyInv, Ways, Owed, InCall, ScreenAt

\* A flag that one task raises and another lowers is never left behind,
\* however their calls overlap and whether commands come in time or not: every
\* raised flag is owed by a task on its way to lower it.
THEOREM HeldByNobody == FairSpec => []NothingHeld
<1>1. IInv /\ HeldInv => NothingHeld
  BY PlacesOf DEF IInv, FlagOK, HeldInv, NothingHeld, Logo, Screens, Pauses, Scans, Owed,
     LogoAt, ScreenAt, PauseAt, ScanAt, InCall
<1>2. Init => HeldInv /\ EarlyInv
  BY HeldStart
<1>3. IInv /\ HeldInv /\ EarlyInv /\ [Next]_vars => HeldInv' /\ EarlyInv'
  BY HeldNext, EarlyNext DEF IInv
<1>4. QED
  BY <1>1, <1>2, <1>3, InitIInv, StepIInv, PTL DEF FairSpec, Spec

-----------------------------------------------------------------------------
(* The picture, settled.  Of the three tasks the logo has the picture for     *)
(* itself; what calibration and control do to it may overlap, and the         *)
(* invariant says how far.  Live video is owed by a task that restores it, a  *)
(* raster by one that builds it, and no two of them undo each other's work:   *)
(* whoever starts sees the flags of the other, or waits for its end.          *)

Restoring == {"closeGap", "resume", "txEnable", "txWait"}
Building  == {"openStop", "openGap"}
Raising   == {"screenMenu", "open", "openFlag"} \cup Building
Ending    == {"close", "closeFlag"} \cup Restoring

mainAt  == at["main"]
calAt   == at["calibration"]
ctlAt   == at["control"]
calBack == back["calibration"]
ctlBack == back["control"]

\* A long delay or gap of one outlasts the call the other is in.
CalWaits == "control" \in outlast["calibration"]
CtlWaits == "calibration" \in outlast["control"]

\* Calibration is in its boot phase, or will not touch the picture before the
\* call of control has ended.
CalPhase ==
  \/ calAt \in {"boot", "idle", "slip", "slipped", "phaseOver"}
  \/ calAt \in Pausing /\ calBack = "slip"
CalAway ==
  \/ CalPhase \/ calAt = "over"
  \/ calAt \in {"owner", "result"} /\ CalWaits

\* What each shared procedure is called for.
CallsOK ==
  /\ ctlAt \in {"screen", "screenMenu"} => ctlBack = "setProfile"
  /\ ctlAt \in {"open", "openFlag", "chainWait"} \cup Building => ctlBack \in {"ready", "setProfile"}
  /\ ctlAt = "screenEnd" => ctlBack = "ready"
  /\ ctlAt \in {"close", "closeGap", "closeFlag"} => ctlBack \in {"ready", "request"}
  /\ ctlAt \in Restoring => ctlBack \in {"ready", "request", "switched"}
  /\ calAt \in {"screenEnd"} \cup Ending => calBack \in {"result", "over"}

\* The logo is alone, a calibration refuses the keys that restart live video.
BootAlone ==
  /\ mainAt # "done" => ctlAt \in {"absent", "ready"} /\ ~requested /\ CalPhase
  /\ mainAt \in Building => menu
StartupMarked == ~startup => calAt = "idle"
SwitchLive == ctlAt \in Restoring /\ ctlBack = "switched" => ~menu

\* A screen of calibration blocks the commands; when control lowers it, its
\* next command waits for the call.
CalScreens ==
  calAt \in Raising =>
    \/ status
    \/ ctlAt = "close" /\ ctlBack = "ready"
    \/ ctlAt = "ready" /\ CtlWaits
CalBuilds ==
  /\ calAt = "openFlag" =>
       ~menu /\ ctlAt \in {"absent", "ready", "pauseGap", "scan", "scanning", "channel",
                           "screen", "setProfile", "screenEnd", "close"}
  /\ calAt \in Building => menu /\ ctlAt \in {"absent", "ready", "pauseGap", "scan", "scanning", "channel"}

\* Control finds the menu closed when it puts up a screen, and takes none down
\* that calibration is putting up.
CtlPasses ==
  /\ ctlAt = "screen" => ~menu
  /\ ctlAt \in {"setProfile", "screenEnd", "close"} /\ calAt \in Raising => ~menu
  /\ ctlAt = "close" /\ calAt \in Raising => ctlBack = "ready"
CtlBuilds ==
  /\ ctlAt \in {"screenMenu", "open", "openFlag", "openStop"} => calAt \notin Raising \cup Restoring \cup {"closeFlag"}
  /\ ctlAt \in Building => menu
  /\ ctlAt = "openGap" =>
       /\ calAt \notin (Raising \ {"screenMenu"}) \cup (Restoring \ {"closeGap"}) \cup {"closeFlag"}
       /\ calAt = "closeGap" => CalWaits
CtlScreens ==
  /\ ctlAt \in {"screenMenu", "open", "openFlag", "openStop"} /\ ctlBack = "setProfile" => status
  /\ ctlAt \in {"openGap", "chainWait"} /\ ctlBack = "setProfile" =>
       calAt \notin Raising /\ (status \/ CalAway \/ calAt \in Ending)

\* Who closes after the other has: the menu flag is down, and nobody opens.
LateCtl == ctlAt \in Restoring \cup {"closeFlag", "chainWait"} /\ ~menu => CalAway
LateCal ==
  calAt \in Restoring \cup {"closeFlag"} /\ ~menu =>
    ctlAt = "request" \/ (ctlAt = "ready" /\ CtlWaits)

Overlaps ==
  /\ CallsOK /\ BootAlone /\ StartupMarked /\ SwitchLive
  /\ CalScreens /\ CalBuilds /\ CtlPasses /\ CtlBuilds /\ CtlScreens /\ LateCtl /\ LateCal

PictureInv ==
  \/ \E t \in Tasks : at[t] \in Restoring \cup Building
  \/ IF menu /\ \A t \in Tasks : at[t] # "closeFlag" THEN tx = "raster" ELSE tx = "live" /\ started

\* What the tasks see of a move of calibration, and of control.
LEMMA CalMoves ==
  ASSUME CtlOK, NEW p, Move("calibration", p)
  PROVE  /\ calAt' = p /\ ctlAt' = ctlAt /\ mainAt' = mainAt
         /\ CtlWaits /\ p \in InCall /\ ctlAt = "ready" => CtlWaits'
         /\ calAt # p /\ p \in {"closeGap", "owner", "result"} /\ ctlAt \in InCall => CalWaits'
<1>1. {"main", "calibration", "control"} = Tasks /\ DOMAIN at = Tasks
  BY DEF Tasks, CtlOK
<1>2. calAt' = p /\ ctlAt' = ctlAt /\ mainAt' = mainAt
  BY <1>1 DEF Move, calAt, ctlAt, mainAt
<1>3. ASSUME CtlWaits, p \in InCall, ctlAt = "ready" PROVE CtlWaits'
  <2>1. outlast'["control"] = {u \in outlast["control"] : ~Passes(u) /\ (at["control"] \in Gaps => ~Turns(u))}
    BY <1>1, <1>2 DEF Move, Outlast, ctlAt
  <2>2. at["control"] \notin Gaps /\ ~Passes("calibration")
    BY <1>2, <1>3 DEF ctlAt, calAt, Gaps, Passes
  <2>3. QED
    BY <1>3, <2>1, <2>2 DEF CtlWaits
<1>4. ASSUME calAt # p, p \in {"closeGap", "owner", "result"}, ctlAt \in InCall PROVE CalWaits'
  <2>1. outlast'["calibration"] = {u \in Tasks \ {"calibration"} : at'[u] \in InCall}
    BY <1>1, <1>2, <1>4 DEF Move, Outlast, calAt, Gaps, LongDelays
  <2>2. QED
    BY <1>1, <1>2, <1>4, <2>1 DEF CalWaits, ctlAt
<1>5. QED
  BY <1>2, <1>3, <1>4

LEMMA CtlMoves ==
  ASSUME CtlOK, NEW p, Move("control", p)
  PROVE  /\ ctlAt' = p /\ calAt' = calAt /\ mainAt' = mainAt
         /\ CalWaits /\ p \in InCall /\ calAt \in {"owner", "result"} => CalWaits'
         /\ ctlAt # "ready" /\ p = "ready" /\ calAt \in InCall => CtlWaits'
<1>1. {"main", "calibration", "control"} = Tasks /\ DOMAIN at = Tasks
  BY DEF Tasks, CtlOK
<1>2. ctlAt' = p /\ calAt' = calAt /\ mainAt' = mainAt
  BY <1>1 DEF Move, calAt, ctlAt, mainAt
<1>3. ASSUME CalWaits, p \in InCall, calAt \in {"owner", "result"} PROVE CalWaits'
  <2>1. outlast'["calibration"] = {u \in outlast["calibration"] : ~Passes(u) /\ (at["calibration"] \in Gaps => ~Turns(u))}
    BY <1>1, <1>2 DEF Move, Outlast, calAt
  <2>2. at["calibration"] \notin Gaps /\ ~Passes("control")
    BY <1>2, <1>3 DEF ctlAt, calAt, Gaps, Passes
  <2>3. QED
    BY <1>3, <2>1, <2>2 DEF CalWaits
<1>4. ASSUME ctlAt # "ready", p = "ready", calAt \in InCall PROVE CtlWaits'
  <2>1. outlast'["control"] = {u \in Tasks \ {"control"} : at'[u] \in InCall}
    BY <1>1, <1>2, <1>4 DEF Move, Outlast, ctlAt, Gaps, LongDelays
  <2>2. QED
    BY <1>1, <1>2, <1>4, <2>1 DEF CtlWaits, calAt
<1>5. QED
  BY <1>2, <1>3, <1>4

\* A step of calibration, and of control, in those terms.
CalStep(p, b) ==
  /\ calAt' = p /\ calBack' = b
  /\ ctlAt' = ctlAt /\ ctlBack' = ctlBack /\ mainAt' = mainAt
  /\ CtlWaits /\ p \in InCall /\ ctlAt = "ready" => CtlWaits'
  /\ calAt # p /\ p \in {"closeGap", "owner", "result"} /\ ctlAt \in InCall => CalWaits'

CtlStep(p, b) ==
  /\ ctlAt' = p /\ ctlBack' = b
  /\ calAt' = calAt /\ calBack' = calBack /\ mainAt' = mainAt
  /\ CalWaits /\ p \in InCall /\ calAt \in {"owner", "result"} => CalWaits'
  /\ ctlAt # "ready" /\ p = "ready" /\ calAt \in InCall => CtlWaits'

\* Every step within, into and out of a procedure is of this form.
LEMMA CalSteps ==
  ASSUME CtlOK
  PROVE  /\ \A p : Goto("calibration", p) => CalStep(p, calBack)
         /\ \A p, b : Call("calibration", p, b) => CalStep(p, b)
<1>1. {"main", "calibration", "control"} = Tasks /\ DOMAIN back = Tasks
  BY DEF Tasks, CtlOK
<1>2. ASSUME NEW p, Goto("calibration", p) PROVE CalStep(p, calBack)
  BY <1>2, CalMoves DEF Goto, CalStep, calBack, ctlBack
<1>3. ASSUME NEW p, NEW b, Call("calibration", p, b) PROVE CalStep(p, b)
  <2>1. calBack' = b /\ ctlBack' = ctlBack
    BY <1>1, <1>3 DEF Call, calBack, ctlBack
  <2>2. QED
    BY <1>3, <2>1, CalMoves DEF Call, CalStep
<1>4. QED
  BY <1>2, <1>3

\* The same for control.
LEMMA CtlSteps ==
  ASSUME CtlOK
  PROVE  /\ \A p : Goto("control", p) => CtlStep(p, ctlBack)
         /\ \A p, b : Call("control", p, b) => CtlStep(p, b)
<1>1. {"main", "calibration", "control"} = Tasks /\ DOMAIN back = Tasks
  BY DEF Tasks, CtlOK
<1>2. ASSUME NEW p, Goto("control", p) PROVE CtlStep(p, ctlBack)
  BY <1>2, CtlMoves DEF Goto, CtlStep, calBack, ctlBack
<1>3. ASSUME NEW p, NEW b, Call("control", p, b) PROVE CtlStep(p, b)
  <2>1. ctlBack' = b /\ calBack' = calBack
    BY <1>1, <1>3 DEF Call, calBack, ctlBack
  <2>2. QED
    BY <1>3, <2>1, CtlMoves DEF Call, CtlStep
<1>4. QED
  BY <1>2, <1>3

\* The steps of calibration between its calls keep the tasks apart: it opens no
\* screen before it has marked itself, and waits a second where it must.
LEMMA CalOwn ==
  ASSUME IInv, Overlaps, Calibration, ~Shared("calibration")
  PROVE  Overlaps'
<1> USE CalSteps DEF Overlaps, CallsOK, BootAlone, StartupMarked, SwitchLive, CalScreens, CalBuilds, CtlPasses, CtlBuilds, CtlScreens,
     LateCtl, LateCal, CalPhase, CalAway, Restoring, Building, Raising, Ending, Pausing, InCall, Sleeping
<1> USE DEF At, Runs, DelayOver, picture, receiver, IInv, FlagOK
<1>0. /\ \A p : At("calibration", p) <=> calAt = p /\ ctlAt \in Sleeping /\ outlast["calibration"] = {}
      /\ outlast["calibration"] = {} => ~CalWaits
  BY DEF At, Runs, DelayOver, calAt, ctlAt, CalWaits
<1>1. CASE CalibrationBoot
  BY <1>0, <1>1 DEF CalibrationBoot, CalStep
<1>2. CASE PhaseExpires
  BY <1>2 DEF PhaseExpires, calAt, ctlAt, mainAt, calBack, ctlBack, CalWaits, CtlWaits
<1>3. CASE PhaseCheck
  BY <1>0, <1>3 DEF PhaseCheck, CalStep
<1>4. CASE PhaseSlip
  BY <1>0, <1>4 DEF PhaseSlip, CalStep
<1>5. CASE PhaseDone
  BY <1>0, <1>5 DEF PhaseDone, CalStep
<1>6. CASE PhaseOver
  BY <1>0, <1>6 DEF PhaseOver, CalStep
<1>7. CASE StartupBegin
  BY <1>0, <1>7 DEF StartupBegin, CalStep
<1>8. CASE OwnerFree
  BY <1>0, <1>8 DEF OwnerFree, CalStep
<1>9. CASE OwnerBusy
  BY <1>0, <1>9 DEF OwnerBusy, CalStep
<1>10. CASE LeaveProfile
  BY <1>0, <1>10 DEF LeaveProfile, CalStep
<1>11. CASE WriteProfile
  BY <1>0, <1>11 DEF WriteProfile, CalStep
<1>12. CASE Measure
  BY <1>0, <1>12 DEF Measure, CalStep
<1>13. CASE Sweep
  BY <1>0, <1>13 DEF Sweep, CalStep
<1>14. CASE Swept
  BY <1>0, <1>14 DEF Swept, CalStep
<1>15. CASE Measured
  BY <1>0, <1>15 DEF Measured, CalStep
<1>16. CASE Result
  BY <1>0, <1>16 DEF Result, CalStep
<1>17. CASE Shown
  BY <1>0, <1>17 DEF Shown, CalStep
<1>18. CASE StartupEnd
  BY <1>0, <1>18 DEF StartupEnd, CalStep
<1> QED
  BY <1>1, <1>2, <1>3, <1>4, <1>5, <1>6, <1>7, <1>8, <1>9, <1>10, <1>11, <1>12, <1>13, <1>14, <1>15, <1>16, <1>17, <1>18 DEF Calibration

\* Its steps within the shared procedures: control sleeps while it is at one.
LEMMA CalShared ==
  ASSUME IInv, Overlaps, Shared("calibration")
  PROVE  Overlaps'
<1> USE CalSteps DEF Overlaps, CallsOK, BootAlone, StartupMarked, SwitchLive, CalScreens, CalBuilds, CtlPasses, CtlBuilds, CtlScreens,
     LateCtl, LateCal, CalPhase, CalAway, Restoring, Building, Raising, Ending, Pausing, InCall, Sleeping
<1> USE DEF At, Runs, DelayOver, picture, receiver, IInv, FlagOK, Return
<1>0. /\ \A p : At("calibration", p) <=> calAt = p /\ ctlAt \in Sleeping /\ outlast["calibration"] = {}
      /\ outlast["calibration"] = {} => ~CalWaits
      /\ calBack = back["calibration"]
  BY DEF At, Runs, DelayOver, calAt, ctlAt, calBack, CalWaits
<1>a. /\ calAt \in InCall => calBack \in Places["calibration"]
      /\ calAt \in Pausing => calBack \in {"sweep", "slip"}
  BY PlacesOf DEF CtlOK, PlaceOK, calAt, calBack, Pausers
<1>b. Places["calibration"] \cap InCall = {} /\ "idle" \in Places["calibration"]
  BY PlacesOf
<1>1. CASE OpenFails("calibration")
  BY <1>0, <1>a, <1>b, <1>1 DEF OpenFails, CalStep
<1>2. CASE Open("calibration")
  BY <1>0, <1>a, <1>b, <1>2 DEF Open, CalStep
<1>3. CASE OpenFlag("calibration")
  BY <1>0, <1>a, <1>b, <1>3 DEF OpenFlag, CalStep
<1>4. CASE OpenStop("calibration")
  BY <1>0, <1>a, <1>b, <1>4 DEF OpenStop, CalStep
<1>5. CASE OpenChain("calibration")
  BY <1>0, <1>a, <1>b, <1>5 DEF OpenChain, CalStep
<1>6. CASE OpenEnd("calibration")
  BY <1>0, <1>a, <1>b, <1>6 DEF OpenEnd, CalStep
<1>7. CASE Close("calibration")
  BY <1>0, <1>a, <1>b, <1>7 DEF Close, CalStep
<1>8. CASE CloseGap("calibration")
  BY <1>0, <1>a, <1>b, <1>8 DEF CloseGap, CalStep
<1>9. CASE Resume("calibration")
  BY <1>0, <1>a, <1>b, <1>9 DEF Resume, CalStep
<1>10. CASE TxEnable("calibration")
  BY <1>0, <1>a, <1>b, <1>10 DEF TxEnable, CalStep
<1>11. CASE TxWait("calibration")
  BY <1>0, <1>a, <1>b, <1>11 DEF TxWait, CalStep
<1>12. CASE CloseEnd("calibration")
  BY <1>0, <1>a, <1>b, <1>12 DEF CloseEnd, CalStep
<1>13. CASE Screen("calibration")
  BY <1>0, <1>a, <1>b, <1>13 DEF Screen, CalStep
<1>14. CASE ScreenMenu("calibration")
  BY <1>0, <1>a, <1>b, <1>14 DEF ScreenMenu, CalStep
<1>15. CASE ScreenEnd("calibration")
  BY <1>0, <1>a, <1>b, <1>15 DEF ScreenEnd, CalStep
<1>16. CASE Pause("calibration")
  BY <1>0, <1>a, <1>b, <1>16 DEF Pause, CalStep, Refused
<1>17. CASE PauseSet("calibration")
  BY <1>0, <1>a, <1>b, <1>17 DEF PauseSet, CalStep
<1>18. CASE PauseEnd("calibration")
  BY <1>0, <1>a, <1>b, <1>18 DEF PauseEnd, CalStep
<1> QED
  BY <1>1, <1>2, <1>3, <1>4, <1>5, <1>6, <1>7, <1>8, <1>9, <1>10, <1>11, <1>12, <1>13, <1>14, <1>15, <1>16, <1>17, <1>18 DEF Shared

\* Control between its calls.  Its commands find the logo gone and every call
\* that outlasted its delay ended.
LEMMA CtlOwn ==
  ASSUME IInv, Overlaps, HastyCommands = FALSE, ControlStep \/ Commands, ~Shared("control")
  PROVE  Overlaps'
<1> USE CtlSteps DEF Overlaps, CallsOK, BootAlone, StartupMarked, SwitchLive, CalScreens, CalBuilds, CtlPasses, CtlBuilds, CtlScreens,
     LateCtl, LateCal, CalPhase, CalAway, Restoring, Building, Raising, Ending, Pausing, InCall, Sleeping
<1> USE DEF At, Runs, DelayOver, picture, receiver, IInv, FlagOK, Return, Command, InTime
<1>0. /\ \A p : At("control", p) <=> ctlAt = p /\ outlast["control"] = {}
      /\ outlast["control"] = {} => ~CtlWaits
      /\ ctlBack = back["control"] /\ ctlAt = at["control"] /\ mainAt = at["main"]
  BY DEF At, Runs, DelayOver, ctlAt, mainAt, ctlBack, CtlWaits
<1>1. CASE IdleExit
  BY <1>0, <1>1 DEF IdleExit, CtlStep
<1>2. CASE MenuRequest
  BY <1>0, <1>2 DEF MenuRequest, CtlStep, FilterRequest
<1>3. CASE Switched
  BY <1>0, <1>3 DEF Switched, CtlStep
<1>4. CASE ScanBegin
  BY <1>0, <1>4 DEF ScanBegin, CtlStep
<1>5. CASE ScanOver
  BY <1>0, <1>5 DEF ScanOver, CtlStep
<1>6. CASE ProfileStays
  BY <1>0, <1>6 DEF ProfileStays, CtlStep
<1>7. CASE ProfileDefault
  BY <1>0, <1>7 DEF ProfileDefault, CtlStep
<1>8. CASE SetProfile
  BY <1>0, <1>8 DEF SetProfile, CtlStep
<1>9. CASE MenuKey
  BY <1>0, <1>9 DEF MenuKey, CtlStep
<1>10. CASE MenuCalibrate
  BY <1>0, <1>10 DEF MenuCalibrate, CtlStep
<1>11. CASE LiveKey
  BY <1>0, <1>11 DEF LiveKey, CtlStep
<1>12. CASE MenuFilter
  BY <1>0, <1>12 DEF MenuFilter, CtlStep, calAt, ctlAt, mainAt, calBack, ctlBack, CalWaits, CtlWaits
<1>13. CASE ScanKey
  BY <1>0, <1>13 DEF ScanKey, CtlStep
<1>14. CASE ChannelKey
  BY <1>0, <1>14 DEF ChannelKey, CtlStep
<1> QED
  BY <1>1, <1>2, <1>3, <1>4, <1>5, <1>6, <1>7, <1>8, <1>9, <1>10, <1>11, <1>12, <1>13, <1>14 DEF ControlStep, Commands

\* Control within the shared procedures.
LEMMA CtlShared ==
  ASSUME IInv, Overlaps, Shared("control")
  PROVE  Overlaps'
<1> USE CtlSteps DEF Overlaps, CallsOK, BootAlone, StartupMarked, SwitchLive, CalScreens, CalBuilds, CtlPasses, CtlBuilds, CtlScreens,
     LateCtl, LateCal, CalPhase, CalAway, Restoring, Building, Raising, Ending, Pausing, InCall, Sleeping
<1> USE DEF At, Runs, DelayOver, picture, receiver, IInv, FlagOK, Return, Command, InTime
<1>0. /\ \A p : At("control", p) <=> ctlAt = p /\ outlast["control"] = {}
      /\ outlast["control"] = {} => ~CtlWaits
      /\ ctlBack = back["control"] /\ ctlAt = at["control"] /\ mainAt = at["main"]
  BY DEF At, Runs, DelayOver, ctlAt, mainAt, ctlBack, CtlWaits
<1>a. /\ ctlAt \in InCall => ctlBack \in Places["control"]
      /\ ctlAt \in Pausing => ctlBack = "scan"
  BY PlacesOf DEF CtlOK, PlaceOK, ctlAt, ctlBack, Pausers
<1>b. Places["control"] \cap InCall = {}
  BY PlacesOf
<1>1. CASE OpenFails("control")
  BY <1>0, <1>a, <1>b, <1>1 DEF OpenFails, CtlStep
<1>2. CASE Open("control")
  BY <1>0, <1>a, <1>b, <1>2 DEF Open, CtlStep
<1>3. CASE OpenFlag("control")
  BY <1>0, <1>a, <1>b, <1>3 DEF OpenFlag, CtlStep
<1>4. CASE OpenStop("control")
  BY <1>0, <1>a, <1>b, <1>4 DEF OpenStop, CtlStep
<1>5. CASE OpenChain("control")
  BY <1>0, <1>a, <1>b, <1>5 DEF OpenChain, CtlStep
<1>6. CASE OpenEnd("control")
  BY <1>0, <1>a, <1>b, <1>6 DEF OpenEnd, CtlStep
<1>7. CASE Close("control")
  BY <1>0, <1>a, <1>b, <1>7 DEF Close, CtlStep
<1>8. CASE CloseGap("control")
  BY <1>0, <1>a, <1>b, <1>8 DEF CloseGap, CtlStep
<1>9. CASE Resume("control")
  BY <1>0, <1>a, <1>b, <1>9 DEF Resume, CtlStep
<1>10. CASE TxEnable("control")
  BY <1>0, <1>a, <1>b, <1>10 DEF TxEnable, CtlStep
<1>11. CASE TxWait("control")
  BY <1>0, <1>a, <1>b, <1>11 DEF TxWait, CtlStep
<1>12. CASE CloseEnd("control")
  BY <1>0, <1>a, <1>b, <1>12 DEF CloseEnd, CtlStep
<1>13. CASE Screen("control")
  BY <1>0, <1>a, <1>b, <1>13 DEF Screen, CtlStep
<1>14. CASE ScreenMenu("control")
  BY <1>0, <1>a, <1>b, <1>14 DEF ScreenMenu, CtlStep
<1>15. CASE ScreenEnd("control")
  BY <1>0, <1>a, <1>b, <1>15 DEF ScreenEnd, CtlStep
<1>16. CASE Pause("control")
  BY <1>0, <1>a, <1>b, <1>16 DEF Pause, CtlStep, Refused
<1>17. CASE PauseSet("control")
  BY <1>0, <1>a, <1>b, <1>17 DEF PauseSet, CtlStep
<1>18. CASE PauseEnd("control")
  BY <1>0, <1>a, <1>b, <1>18 DEF PauseEnd, CtlStep
<1> QED
  BY <1>1, <1>2, <1>3, <1>4, <1>5, <1>6, <1>7, <1>8, <1>9, <1>10, <1>11, <1>12, <1>13, <1>14, <1>15, <1>16, <1>17, <1>18 DEF Shared

\* The logo: what the others see of app_main.
LEMMA MainAlone ==
  ASSUME IInv, Main
  PROVE  /\ mainAt # "done"
         /\ calAt' = calAt /\ calBack' = calBack /\ ctlBack' = ctlBack
         /\ ctlAt' = ctlAt \/ ctlAt' = "ready"
         /\ requested' = requested /\ startup' = startup
         /\ mainAt' \in Building => (mainAt \in Building /\ menu' = menu) \/ menu'
<1> USE PlacesOf DEF IInv, mainAt, calAt, ctlAt, calBack, ctlBack
<1>1. CASE Shared("main")
  <2>1. SharedMove("main") /\ back["main"] \in Places["main"] /\ at["main"] # "pause"
    BY <1>1, SharedMoves DEF SharedMove, CtlOK, PlaceOK, Pausing, Pausers
  <2>2. requested' = requested /\ startup' = startup
    <3> USE DEF receiver
    <3>1. CASE OpenFails("main") \/ Open("main") \/ OpenFlag("main") \/ OpenStop("main") \/ OpenChain("main") \/ OpenEnd("main")
      BY <3>1 DEF OpenFails, Open, OpenFlag, OpenStop, OpenChain, OpenEnd
    <3>2. CASE Close("main") \/ CloseGap("main") \/ Resume("main") \/ TxEnable("main") \/ TxWait("main") \/ CloseEnd("main")
      BY <3>2 DEF Close, CloseGap, Resume, TxEnable, TxWait, CloseEnd
    <3>3. CASE Screen("main") \/ ScreenMenu("main") \/ ScreenEnd("main") \/ Pause("main") \/ PauseSet("main") \/ PauseEnd("main")
      BY <3>3 DEF Screen, ScreenMenu, ScreenEnd, Pause, PauseSet, PauseEnd
    <3> QED
      BY <1>1, <3>1, <3>2, <3>3 DEF Shared
  <2>3. at'["main"] \in Building => (at["main"] \in Building /\ menu' = menu) \/ menu'
    <3> USE Frames DEF picture, At, Return, Building, InCall
    <3>1. CASE OpenFails("main") \/ Open("main") \/ OpenEnd("main")
      BY <2>1, <3>1 DEF OpenFails, Open, OpenEnd
    <3>2. CASE OpenFlag("main") \/ OpenStop("main") \/ OpenChain("main")
      BY <3>2 DEF OpenFlag, OpenStop, OpenChain
    <3>3. CASE Close("main") \/ CloseGap("main") \/ Resume("main") \/ TxEnable("main") \/ TxWait("main") \/ CloseEnd("main")
      BY <2>1, <3>3 DEF Close, CloseGap, Resume, TxEnable, TxWait, CloseEnd
    <3>4. CASE Screen("main") \/ ScreenMenu("main") \/ ScreenEnd("main")
      BY <2>1, <3>4 DEF Screen, ScreenMenu, ScreenEnd
    <3>5. CASE Pause("main") \/ PauseSet("main") \/ PauseEnd("main")
      BY <2>1, <3>5 DEF Pause, PauseSet, PauseEnd
    <3> QED
      BY <1>1, <3>1, <3>2, <3>3, <3>4, <3>5 DEF Shared
  <2>4. QED
    BY <2>1, <2>2, <2>3 DEF SharedMove, Elsewhere, InCall
<1>2. CASE SplashBegin \/ SplashSkip \/ SplashEnd
  <2> USE Frames, CallFrames DEF At, picture, receiver, Elsewhere, Building
  <2>1. CASE SplashBegin
    BY <1>2, <2>1 DEF SplashBegin
  <2>2. CASE SplashSkip
    BY <1>2, <2>2 DEF SplashSkip
  <2>3. CASE SplashEnd
    BY <1>2, <2>3 DEF SplashEnd
  <2> QED
    BY <1>2, <2>1, <2>2, <2>3
<1>3. CASE ControlStart
  BY <1>3, Started DEF ControlStart, receiver, Building
<1> QED
  BY <1>1, <1>2, <1>3 DEF Main

\* No step of any task lets the calls overlap further.
LEMMA OverlapsNext ==
  ASSUME IInv, Overlaps, HastyCommands = FALSE, [Next]_vars
  PROVE  Overlaps'
<1>1. CASE Main
  BY <1>1, MainAlone DEF Overlaps, CallsOK, BootAlone, StartupMarked, SwitchLive, CalScreens, CalBuilds, CtlPasses, CtlBuilds, CtlScreens,
     LateCtl, LateCal, CalPhase, CalAway, Restoring, Building, Raising, Ending, Pausing, InCall, Sleeping
<1>2. CASE Calibration
  BY <1>2, CalOwn, CalShared
<1>3. CASE ControlStep \/ Commands
  BY <1>3, CtlOwn, CtlShared DEF ControlStep
<1>4. CASE ConsoleRequest
  <2>1. /\ UNCHANGED <<mainAt, calAt, ctlAt, calBack, ctlBack, CalWaits, CtlWaits, menu, status, startup>>
        /\ mainAt = "done"
    BY <1>4 DEF ConsoleRequest, FilterRequest, InTime, picture, mainAt, calAt, ctlAt, calBack, ctlBack, CalWaits, CtlWaits
  <2>2. QED
    BY <2>1 DEF Overlaps, CallsOK, BootAlone, StartupMarked, SwitchLive, CalScreens, CalBuilds, CtlPasses, CtlBuilds, CtlScreens,
     LateCtl, LateCal, CalPhase, CalAway, Restoring, Building, Raising, Ending, Pausing, InCall, Sleeping
<1>5. CASE UNCHANGED <<picture, receiver, at, back, outlast>>
  BY <1>5 DEF Overlaps, CallsOK, BootAlone, StartupMarked, SwitchLive, CalScreens, CalBuilds, CtlPasses, CtlBuilds, CtlScreens,
     LateCtl, LateCal, CalPhase, CalAway, Restoring, Building, Raising, Ending, Pausing, InCall, Sleeping,
     picture, receiver, mainAt, calAt, ctlAt, calBack, ctlBack, CalWaits, CtlWaits
<1>6. QED
  BY <1>1, <1>2, <1>3, <1>4, <1>5 DEF Next, Rest, vars

\* Nothing overlaps before the tasks start.
LEMMA OverlapsStart ==
  ASSUME Init
  PROVE  Overlaps
  BY PlacesOf DEF Init, Overlaps, CallsOK, BootAlone, StartupMarked, SwitchLive, CalScreens, CalBuilds, CtlPasses, CtlBuilds, CtlScreens,
     LateCtl, LateCal, CalPhase, CalAway, Restoring, Building, Raising, Ending, Pausing, InCall, Sleeping, mainAt, calAt, ctlAt, calBack, ctlBack, CalWaits, CtlWaits

-----------------------------------------------------------------------------
(* What drives TX follows. *)

Moving == Restoring \cup Building

\* Whoever points TX at the raster has the menu and nobody letting go of it;
\* whoever restarts live video for a key has no menu.
LEMMA NoClash ==
  ASSUME CtlOK, Overlaps, NEW t \in Tasks
  PROVE  /\ at[t] = "openGap" => menu /\ \A u \in Tasks : at[u] # "closeFlag"
         /\ at[t] = "txWait" /\ back[t] = "switched" => ~menu
<1>1. at[t] = "openGap" => menu /\ \A u \in Tasks : at[u] # "closeFlag"
  BY PlacesOf DEF Overlaps, BootAlone, CalBuilds, CtlBuilds, CalPhase, Pausing, Restoring, Building, mainAt, calAt, ctlAt
<1>2. back["main"] # "switched" /\ back["calibration"] # "switched"
  BY PlacesOf DEF CtlOK, PlaceOK
<1>3. at[t] = "txWait" /\ back[t] = "switched" => ~menu
  BY <1>2, PlacesOf DEF Overlaps, SwitchLive, Restoring, ctlAt, ctlBack
<1>4. QED
  BY <1>1, <1>3

\* A step that leaves TX and the menu flag alone, of a task that neither works
\* on TX nor begins to let go of the menu.
LEMMA QuietStep ==
  ASSUME PictureInv, NEW t \in Tasks, Elsewhere(t),
         UNCHANGED <<menu, tx, started>>,
         at[t] \notin Moving \cup {"closeFlag"}, at'[t] # "closeFlag"
  PROVE  PictureInv'
  BY DEF PictureInv, Elsewhere, Moving

\* A step within a shared procedure hands TX over, or leaves it with the owner.
LEMMA SharedPicture ==
  ASSUME IInv, Overlaps, PictureInv, NEW t \in Tasks, Shared(t)
  PROVE  PictureInv'
<1>0. CtlOK /\ FlagOK
  BY DEF IInv
<1>1. SharedMove(t) /\ back[t] \in Places[t]
  BY <1>0, SharedMoves, PlacesOf DEF SharedMove, CtlOK, PlaceOK
<1>2. Elsewhere(t)
  BY <1>1 DEF SharedMove
<1>3. Places[t] \cap (Moving \cup {"closeFlag"}) = {}
  BY PlacesOf DEF Moving, Restoring, Building, InCall
<1>4. ASSUME at'[t] \in Moving PROVE PictureInv'
  BY <1>4 DEF PictureInv, Moving
<1> USE Frames, <1>0 DEF At, Return, picture
<1>5. CASE OpenFails(t) \/ Open(t) \/ OpenEnd(t)
  <2>1. UNCHANGED <<menu, tx, started>> /\ at[t] \in {"open", "chainWait"} /\ at'[t] \in {"openFlag", back[t]}
    BY <1>5 DEF OpenFails, Open, OpenEnd
  <2>2. QED
    BY <1>1, <1>2, <1>3, <2>1, QuietStep DEF Moving, Restoring, Building
<1>6. CASE OpenFlag(t) \/ OpenStop(t) \/ CloseGap(t) \/ Resume(t) \/ TxEnable(t)
  <2>1. at'[t] \in Moving
    BY <1>6 DEF OpenFlag, OpenStop, CloseGap, Resume, TxEnable, Moving, Restoring, Building
  <2>2. QED
    BY <1>4, <2>1
<1>7. CASE OpenChain(t)
  <2>1. /\ at[t] = "openGap" /\ at'[t] = "chainWait" /\ menu' = menu /\ tx' = "raster"
    BY <1>7 DEF OpenChain
  <2>2. menu' /\ \A u \in Tasks : at'[u] # "closeFlag"
    BY <1>2, <2>1, NoClash DEF Elsewhere
  <2>3. QED
    BY <2>1, <2>2 DEF PictureInv
<1>8. CASE Close(t)
  <2>1. CASE menu
    <3>1. at'[t] = "closeGap"
      BY <1>8, <2>1 DEF Close
    <3>2. QED
      BY <1>4, <3>1 DEF Moving, Restoring
  <2>2. CASE ~menu
    <3>1. UNCHANGED <<menu, tx, started>> /\ at[t] = "close" /\ at'[t] = back[t]
      BY <1>8, <2>2 DEF Close
    <3>2. QED
      BY <1>1, <1>2, <1>3, <3>1, QuietStep DEF Moving, Restoring, Building
  <2>3. QED
    BY <2>1, <2>2
<1>9. CASE TxWait(t)
  <2>1. CASE tx # "live"
    <3>1. at'[t] = "resume"
      BY <1>9, <2>1 DEF TxWait
    <3>2. QED
      BY <1>4, <3>1 DEF Moving, Restoring
  <2>2. CASE tx = "live" /\ back[t] # "switched"
    <3>1. at'[t] = "closeFlag" /\ tx' = "live" /\ started'
      BY <1>9, <2>2 DEF TxWait
    <3>2. QED
      BY <3>1 DEF PictureInv
  <2>3. CASE tx = "live" /\ back[t] = "switched"
    <3>1. at[t] = "txWait" /\ tx' = "live" /\ started' /\ menu' = menu
      BY <1>9, <2>3 DEF TxWait
    <3>2. ~menu'
      BY <2>3, <3>1, NoClash
    <3>3. QED
      BY <3>1, <3>2 DEF PictureInv
  <2>4. QED
    BY <2>1, <2>2, <2>3
<1>10. CASE CloseEnd(t)
  <2>1. at[t] = "closeFlag" /\ menu' = FALSE /\ UNCHANGED <<tx, started>>
    BY <1>10 DEF CloseEnd
  <2>2. CASE \E u \in Tasks : at[u] \in Moving
    <3>1. PICK u \in Tasks : at[u] \in Moving
      BY <2>2
    <3>2. u # t
      BY <2>1, <3>1 DEF Moving, Restoring, Building
    <3>3. at'[u] \in Moving
      BY <1>2, <3>1, <3>2 DEF Elsewhere
    <3>4. QED
      BY <3>3 DEF PictureInv, Moving
  <2>3. CASE \A u \in Tasks : at[u] \notin Moving
    <3>1. tx = "live" /\ started
      BY <2>1, <2>3 DEF PictureInv, Moving
    <3>2. QED
      BY <2>1, <3>1 DEF PictureInv
  <2>4. QED
    BY <2>2, <2>3
<1>11. CASE Screen(t) \/ ScreenMenu(t) \/ ScreenEnd(t)
  <2>1. /\ UNCHANGED <<menu, tx, started>>
        /\ at[t] \in {"screen", "screenMenu", "screenEnd"}
        /\ at'[t] \in {"screenMenu", "open", "close", back[t]}
    BY <1>11 DEF Screen, ScreenMenu, ScreenEnd
  <2>2. QED
    BY <1>1, <1>2, <1>3, <2>1, QuietStep DEF Moving, Restoring, Building
<1>12. CASE Pause(t) \/ PauseSet(t) \/ PauseEnd(t)
  <2>1. /\ UNCHANGED <<menu, tx, started>> /\ at[t] \in Pausing
    BY <1>12 DEF Pause, PauseSet, PauseEnd, Pausing
  <2>2. at'[t] # "closeFlag"
    <3>1. back[t] \in Pausers[t]
      BY <2>1 DEF CtlOK, PlaceOK
    <3>2. back[t] \in {"sweep", "slip", "scan"}
      BY <3>1 DEF Pausers, Tasks
    <3>3. at'[t] \in {"pauseSet", "pauseGap", back[t], Refused[back[t]]}
      BY <1>12 DEF Pause, PauseSet, PauseEnd
    <3>4. QED
      BY <3>2, <3>3 DEF Refused
  <2>3. QED
    BY <1>2, <2>1, <2>2, QuietStep DEF Moving, Restoring, Building, Pausing
<1> QED
  BY <1>5, <1>6, <1>7, <1>8, <1>9, <1>10, <1>11, <1>12 DEF Shared

\* The steps between the calls leave the picture alone, or begin to restore it.
LEMMA MainPicture ==
  ASSUME CtlOK, SplashBegin \/ SplashSkip \/ SplashEnd, PictureInv
  PROVE  PictureInv'
<1> DEFINE Quiet == /\ Elsewhere("main") /\ UNCHANGED <<menu, tx, started>>
                    /\ at["main"] \notin Moving \cup {"closeFlag"} /\ at'["main"] # "closeFlag"
<1>0. Quiet => PictureInv'
  BY QuietStep, PlacesOf
<1> USE PlacesOf, Frames, CallFrames DEF At, picture, Moving, Restoring, Building, Elsewhere
<1>1. CASE SplashBegin
  BY <1>0, <1>1 DEF SplashBegin
<1>2. CASE SplashSkip
  BY <1>0, <1>2 DEF SplashSkip
<1>3. CASE SplashEnd
  BY <1>0, <1>3 DEF SplashEnd
<1> QED
  BY <1>1, <1>2, <1>3

\* The same for the calibration task.
LEMMA CalPicture ==
  ASSUME CtlOK, Calibration, ~Shared("calibration"), PictureInv
  PROVE  PictureInv'
<1> DEFINE Quiet == /\ Elsewhere("calibration") /\ UNCHANGED <<menu, tx, started>>
                    /\ at["calibration"] \notin Moving \cup {"closeFlag"} /\ at'["calibration"] # "closeFlag"
<1>0. Quiet => PictureInv'
  BY QuietStep, PlacesOf
<1> USE PlacesOf, Frames, CallFrames DEF At, picture, Moving, Restoring, Building, Elsewhere
<1>1. CASE CalibrationBoot
  BY <1>0, <1>1 DEF CalibrationBoot
<1>2. CASE PhaseExpires
  BY <1>0, <1>2 DEF PhaseExpires
<1>3. CASE PhaseCheck
  BY <1>0, <1>3 DEF PhaseCheck
<1>4. CASE PhaseSlip
  BY <1>0, <1>4 DEF PhaseSlip
<1>5. CASE PhaseDone
  BY <1>0, <1>5 DEF PhaseDone
<1>6. CASE PhaseOver
  BY <1>0, <1>6 DEF PhaseOver
<1>7. CASE StartupBegin
  BY <1>0, <1>7 DEF StartupBegin
<1>8. CASE OwnerFree
  BY <1>0, <1>8 DEF OwnerFree
<1>9. CASE OwnerBusy
  BY <1>0, <1>9 DEF OwnerBusy
<1>10. CASE LeaveProfile
  BY <1>0, <1>10 DEF LeaveProfile
<1>11. CASE WriteProfile
  BY <1>0, <1>11 DEF WriteProfile
<1>12. CASE Measure
  BY <1>0, <1>12 DEF Measure
<1>13. CASE Sweep
  BY <1>0, <1>13 DEF Sweep
<1>14. CASE Swept
  BY <1>0, <1>14 DEF Swept
<1>15. CASE Measured
  BY <1>0, <1>15 DEF Measured
<1>16. CASE Result
  BY <1>0, <1>16 DEF Result
<1>17. CASE Shown
  BY <1>0, <1>17 DEF Shown
<1>18. CASE StartupEnd
  BY <1>0, <1>18 DEF StartupEnd
<1> QED
  BY <1>1, <1>2, <1>3, <1>4, <1>5, <1>6, <1>7, <1>8, <1>9, <1>10, <1>11, <1>12, <1>13, <1>14, <1>15, <1>16, <1>17, <1>18 DEF Calibration

\* The same for control.
LEMMA CtlPicture ==
  ASSUME CtlOK, ControlStep \/ Commands, ~Shared("control"), PictureInv
  PROVE  PictureInv'
<1> DEFINE Quiet == /\ Elsewhere("control") /\ UNCHANGED <<menu, tx, started>>
                    /\ at["control"] \notin Moving \cup {"closeFlag"} /\ at'["control"] # "closeFlag"
<1>0. Quiet => PictureInv'
  BY QuietStep, PlacesOf
<1> USE PlacesOf, Frames, CallFrames DEF At, picture, Moving, Restoring, Building, Elsewhere
<1>1. CASE IdleExit
  BY <1>0, <1>1 DEF IdleExit
<1>2. CASE MenuRequest
  BY <1>0, <1>2 DEF MenuRequest, FilterRequest
<1>3. CASE Switched
  BY <1>0, <1>3 DEF Switched
<1>4. CASE ScanBegin
  BY <1>0, <1>4 DEF ScanBegin
<1>5. CASE ScanOver
  BY <1>0, <1>5 DEF ScanOver
<1>6. CASE ProfileStays
  BY <1>0, <1>6 DEF ProfileStays
<1>7. CASE ProfileDefault
  BY <1>0, <1>7 DEF ProfileDefault
<1>8. CASE SetProfile
  BY <1>0, <1>8 DEF SetProfile
<1>9. CASE MenuKey
  BY <1>0, <1>9 DEF MenuKey, Command
<1>10. CASE MenuCalibrate
  BY <1>0, <1>10 DEF MenuCalibrate, Command
<1>11. CASE LiveKey
  BY <1>0, <1>11 DEF LiveKey, Command
<1>12. CASE MenuFilter
  BY <1>0, <1>12 DEF MenuFilter, Command
<1>13. CASE ScanKey
  BY <1>0, <1>13 DEF ScanKey, Command
<1>14. CASE ChannelKey
  BY <1>0, <1>14 DEF ChannelKey, Command
<1> QED
  BY <1>1, <1>2, <1>3, <1>4, <1>5, <1>6, <1>7, <1>8, <1>9, <1>10, <1>11, <1>12, <1>13, <1>14 DEF ControlStep, Commands

\* Every step keeps the picture owned, or owed.
LEMMA PictureNext ==
  ASSUME IInv, HeldInv, EarlyInv, Overlaps, PictureInv, [Next]_vars
  PROVE  PictureInv'
<1>0. CtlOK /\ {"main", "calibration", "control"} \subseteq Tasks
  BY PlacesOf DEF IInv
<1>1. ASSUME NEW t \in Tasks, Shared(t) PROVE PictureInv'
  BY <1>1, SharedPicture
<1>2. CASE ControlStart
  <2>1. /\ \A u \in Tasks : at'[u] \in Moving <=> at[u] \in Moving
        /\ \A u \in Tasks : at'[u] # "closeFlag" <=> at[u] # "closeFlag"
        /\ UNCHANGED <<menu, tx, started>>
    <3>1. at["control"] = "absent" /\ at["main"] = "tasks"
      BY <1>0, <1>2, Started DEF EarlyInv, Owed
    <3>2. QED
      BY <1>0, <1>2, <3>1, Started, PlacesOf DEF ControlStart, picture, Moving, Restoring, Building
  <2>2. QED
    BY <2>1 DEF PictureInv, Moving
<1>3. CASE Main /\ ~Shared("main") /\ ~ControlStart
  BY <1>0, <1>3, MainPicture DEF Main
<1>4. CASE Calibration /\ ~Shared("calibration")
  BY <1>0, <1>4, CalPicture
<1>5. CASE (ControlStep \/ Commands) /\ ~Shared("control")
  BY <1>0, <1>5, CtlPicture
<1>6. CASE UNCHANGED <<picture, at>>
  BY <1>6 DEF PictureInv, picture
<1>7. CASE ConsoleRequest \/ Rest \/ UNCHANGED vars
  BY <1>6, <1>7 DEF ConsoleRequest, FilterRequest, Rest, picture, vars
<1>8. QED
  BY <1>0, <1>1, <1>2, <1>3, <1>4, <1>5, <1>7 DEF Next, Main, Calibration, ControlStep

\* Whichever tasks opened and closed the raster and however their calls
\* overlapped, once they have returned TX carries what the menu flag says.  As
\* in the run: commands come when the logo is gone and the call of the other
\* task that was under way at the last one has ended.
THEOREM PictureSettled ==
  ASSUME HastyCommands = FALSE
  PROVE  FairSpec => []PictureSettles
<1> DEFINE Inv == IInv /\ HeldInv /\ EarlyInv /\ Overlaps /\ PictureInv
<1>1. Init => Inv
  BY InitIInv, HeldStart, OverlapsStart DEF PictureInv, Init
<1>2. Inv /\ [Next]_vars => Inv'
  BY StepIInv, HeldNext, EarlyNext, OverlapsNext, PictureNext DEF IInv
<1>3. Inv => PictureSettles
  BY PlacesOf DEF PictureInv, PictureSettles, Settled, Restoring, Building, InCall
<1>4. QED
  BY <1>1, <1>2, <1>3, PTL DEF FairSpec, Spec
=============================================================================
