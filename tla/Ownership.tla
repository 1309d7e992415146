----------------------------- MODULE Ownership -----------------------------
(***************************************************************************)
(* Who owns the picture and who owns the receiver.  Three tasks share the  *)
(* flags of menu.c, receiver.c and calibration.c without a lock: app_main  *)
(* (boot logo), the calibration task (status screens, sweeps) and the      *)
(* control task (commands, menu, scan, channel change).  Control has the   *)
(* higher priority on the only core: the others run while it sleeps.       *)
(*                                                                         *)
(* The TX path is abstract here: restarts succeed (Transport.tla has their *)
(* failures), and the chain of the raster is not modelled.                 *)
(***************************************************************************)
EXTENDS Naturals

CONSTANTS
  Profiles,        \* receive profiles
  DefaultProfile,  \* PROFILE_DEFAULT
  HastyCommands,   \* whether commands may come under the logo or right after one another
  MaxCommands, MaxRequests  \* bounds of the model: commands and calibrations

ASSUME ProfilesAssumption == DefaultProfile \in Profiles
ASSUME HastyAssumption == HastyCommands \in BOOLEAN
ASSUME BoundsAssumption == {MaxCommands, MaxRequests} \subseteq Nat

Tasks == {"main", "calibration", "control"}

VARIABLES
  splash,     \* s_splash >= 0
  status,     \* s_status
  menu,       \* s_menu_active
  tx,         \* what drives the DAC: "live", "raster" or nothing, "off"
  started,    \* s_started of transport.c
  paused,     \* s_paused
  scan,       \* s_scan_active
  startup,    \* s_startup
  requested,  \* s_manual_requested
  phase,      \* s_boot_phase_pending
  profile,    \* s_profile
  at,         \* where each task is
  back,       \* where each task returns to from a shared procedure
  outlast,    \* clock: calls in progress that end before a task's long delay does
  commands, requests  \* history: commands and calibration requests so far

picture  == <<splash, status, menu, tx, started>>
receiver == <<paused, scan, startup, requested, phase, profile>>
budget   == <<commands, requests>>
vars     == <<picture, receiver, at, back, outlast, budget>>

Init ==
  /\ splash = FALSE /\ status = FALSE /\ menu = FALSE
  /\ tx = "live" /\ started = TRUE
  /\ paused = FALSE /\ scan = FALSE
  /\ startup = TRUE /\ requested = FALSE /\ phase = FALSE
  /\ profile \in Profiles
  /\ at = [main |-> "splash", calibration |-> "boot", control |-> "absent"]
  /\ back = [t \in Tasks |-> "none"]
  /\ outlast = [t \in Tasks |-> {}]
  /\ commands = 0 /\ requests = 0

-----------------------------------------------------------------------------
(* Scheduling: where control waits, the other tasks run.  Clock: a gap of  *)
(* 150 ms outlasts what another task does without a gap and a gap that it  *)
(* is already in; a delay of a second outlasts any call in progress.       *)

Sleeping == {"absent", "ready", "openGap", "chainWait", "closeGap", "txWait", "pauseGap", "scanning"}
Runs(t) == t # "control" => at["control"] \in Sleeping

InCall == {"open", "openFlag", "openStop", "openGap", "chainWait",
           "close", "closeGap", "resume", "txEnable", "txWait", "closeFlag",
           "screen", "screenMenu", "screenEnd", "pause", "pauseSet", "pauseGap"}
Gaps == {"openGap", "closeGap"}
LongDelays == {"ready", "logo", "owner", "swept", "result", "shown"}
Passes(u) == at'[u] \notin InCall
Turns(u)  == at[u] # at'[u] /\ {at[u], at'[u]} \cap Gaps # {}
Outlast ==
  outlast' = [t \in Tasks |->
    IF at[t] # at'[t]
    THEN IF at'[t] \in Gaps \cup LongDelays THEN {u \in Tasks \ {t} : at'[u] \in InCall} ELSE {}
    ELSE {u \in outlast[t] : ~Passes(u) /\ (at[t] \in Gaps => ~Turns(u))}]
DelayOver(t) == outlast[t] = {}

At(t, place) == at[t] = place /\ Runs(t) /\ DelayOver(t)
Move(t, place) == at' = [at EXCEPT ![t] = place] /\ Outlast
Goto(t, place) == Move(t, place) /\ UNCHANGED back
Call(t, place, return) == Move(t, place) /\ back' = [back EXCEPT ![t] = return]
Return(t) == Goto(t, back[t])

-----------------------------------------------------------------------------
(* menu_open: build the chain, then take TX from live video.  Only a build *)
(* that does not fit leaves live video alone.                              *)

OpenFails(t) ==
  /\ At(t, "open") /\ ~menu
  /\ splash' = (splash /\ t # "main")
  /\ status' = (status /\ (t = "main" \/ back[t] = "ready"))
  /\ Return(t)
  /\ UNCHANGED <<menu, tx, started, receiver, budget>>

Open(t) ==
  /\ At(t, "open")
  /\ IF menu THEN Return(t) ELSE Goto(t, "openFlag")
  /\ UNCHANGED <<picture, receiver, budget>>

OpenFlag(t) ==
  /\ At(t, "openFlag")
  /\ menu' = TRUE
  /\ Goto(t, "openStop")
  /\ UNCHANGED <<splash, status, tx, started, receiver, budget>>

OpenStop(t) ==
  /\ At(t, "openStop")
  /\ tx' = "off" /\ started' = FALSE
  /\ Goto(t, "openGap")
  /\ UNCHANGED <<splash, status, menu, receiver, budget>>

\* transport_start_chain points the DMA at the chain and waits for TX.
OpenChain(t) ==
  /\ At(t, "openGap")
  /\ tx' = "raster"
  /\ Goto(t, "chainWait")
  /\ UNCHANGED <<splash, status, menu, started, receiver, budget>>

OpenEnd(t) ==
  /\ At(t, "chainWait")
  /\ Return(t)
  /\ UNCHANGED <<picture, receiver, budget>>

\* Mutant of Close: the menu flag is let go at once.
CloseLetsGo(t) ==
  /\ At(t, "close")
  /\ menu' = FALSE
  /\ IF menu THEN tx' = "off" /\ Goto(t, "closeGap") ELSE Return(t) /\ UNCHANGED tx
  /\ UNCHANGED <<splash, status, started, receiver, budget>>

\* menu_close: stop the raster, wait, restart live video, and only then let
\* go of the menu flag.
Close(t) ==
  /\ At(t, "close")
  /\ IF menu THEN tx' = "off" /\ Goto(t, "closeGap") ELSE Return(t) /\ UNCHANGED tx
  /\ UNCHANGED <<splash, status, menu, started, receiver, budget>>

CloseGap(t) ==
  /\ At(t, "closeGap")
  /\ Goto(t, "resume")
  /\ UNCHANGED <<picture, receiver, budget>>

\* transport_resume_live: tear down, enable TX, wait for it.
Resume(t) ==
  /\ At(t, "resume")
  /\ tx' = "off" /\ started' = FALSE
  /\ Goto(t, "txEnable")
  /\ UNCHANGED <<splash, status, menu, receiver, budget>>

TxEnable(t) ==
  /\ At(t, "txEnable")
  /\ tx' = "live"
  /\ Goto(t, "txWait")
  /\ UNCHANGED <<splash, status, menu, started, receiver, budget>>

\* A TX that another task took meanwhile never gets ready; the rollback
\* restarts it.
TxWait(t) ==
  /\ At(t, "txWait")
  /\ IF tx = "live"
     THEN started' = TRUE /\ Goto(t, IF back[t] = "switched" THEN "switched" ELSE "closeFlag")
     ELSE UNCHANGED started /\ Goto(t, "resume")
  /\ UNCHANGED <<splash, status, menu, tx, receiver, budget>>

CloseEnd(t) ==
  /\ At(t, "closeFlag")
  /\ menu' = FALSE
  /\ Return(t)
  /\ UNCHANGED <<splash, status, tx, started, receiver, budget>>

-----------------------------------------------------------------------------
(* status_screen and status_screen_end. *)

Screen(t) ==
  /\ At(t, "screen")
  /\ status' = TRUE
  /\ IF status THEN Return(t) ELSE Goto(t, "screenMenu")
  /\ UNCHANGED <<splash, menu, tx, started, receiver, budget>>

ScreenMenu(t) ==
  /\ At(t, "screenMenu")
  /\ IF menu THEN Return(t) ELSE Goto(t, "open")
  /\ UNCHANGED <<picture, receiver, budget>>

\* Mutant of ScreenEnd: a screen whose menu is gone is not ended.
ScreenEndWithMenu(t) ==
  /\ At(t, "screenEnd")
  /\ status' = (status /\ ~menu)
  /\ IF status /\ menu THEN Goto(t, "close") ELSE Return(t)
  /\ UNCHANGED <<splash, menu, tx, started, receiver, budget>>

ScreenEnd(t) ==
  /\ At(t, "screenEnd")
  /\ status' = FALSE
  /\ IF status THEN Goto(t, "close") ELSE Return(t)
  /\ UNCHANGED <<splash, menu, tx, started, receiver, budget>>

-----------------------------------------------------------------------------
(* receiver_pause: test, set, and time for a window in flight to finish.   *)
(* A refused pause returns past the paused section.                        *)

Refused == [scan |-> "ready", sweep |-> "measured", slip |-> "phaseOver"]

Pause(t) ==
  /\ At(t, "pause")
  /\ Goto(t, IF paused THEN Refused[back[t]] ELSE "pauseSet")
  /\ UNCHANGED <<picture, receiver, budget>>

PauseSet(t) ==
  /\ At(t, "pauseSet")
  /\ paused' = TRUE
  /\ Goto(t, "pauseGap")
  /\ UNCHANGED <<picture, scan, startup, requested, phase, profile, budget>>

PauseEnd(t) ==
  /\ At(t, "pauseGap")
  /\ Return(t)
  /\ UNCHANGED <<picture, receiver, budget>>

Shared(t) ==
  \/ OpenFails(t) \/ Open(t) \/ OpenFlag(t) \/ OpenStop(t) \/ OpenChain(t) \/ OpenEnd(t)
  \/ Close(t) \/ CloseGap(t) \/ Resume(t) \/ TxEnable(t) \/ TxWait(t) \/ CloseEnd(t)
  \/ Screen(t) \/ ScreenMenu(t) \/ ScreenEnd(t)
  \/ Pause(t) \/ PauseSet(t) \/ PauseEnd(t)

-----------------------------------------------------------------------------
(* app_main: the boot logo over the start of the tasks. *)

SplashBegin ==
  /\ At("main", "splash")
  /\ splash' = TRUE
  /\ Call("main", "open", "tasks")
  /\ UNCHANGED <<status, menu, tx, started, receiver, budget>>

\* Boot took too long already: no logo.
SplashSkip ==
  /\ At("main", "splash")
  /\ Goto("main", "tasks")
  /\ UNCHANGED <<picture, receiver, budget>>

ControlStart ==
  /\ At("main", "tasks")
  /\ at' = [at EXCEPT !["main"] = "logo", !["control"] = "ready"] /\ Outlast
  /\ UNCHANGED <<picture, receiver, back, budget>>

SplashEnd ==
  /\ At("main", "logo")
  /\ splash' = FALSE
  /\ IF splash THEN Call("main", "close", "done") ELSE Goto("main", "done")
  /\ UNCHANGED <<status, menu, tx, started, receiver, budget>>

Main == SplashBegin \/ SplashSkip \/ ControlStart \/ SplashEnd \/ Shared("main")

-----------------------------------------------------------------------------
(* Calibration task: boot phase check and manual calibration. *)

CalibrationBoot ==
  /\ At("calibration", "boot")
  /\ startup' = FALSE /\ phase' = TRUE
  /\ Goto("calibration", "idle")
  /\ UNCHANGED <<picture, paused, scan, requested, profile, budget>>

PhaseExpires ==
  /\ At("calibration", "idle")
  /\ phase /\ phase' = FALSE
  /\ UNCHANGED <<picture, paused, scan, startup, requested, profile, at, back, outlast, budget>>

\* boot_phase_check: two readings decide whether to slip at all.
PhaseCheck ==
  /\ At("calibration", "idle")
  /\ phase /\ splash
  /\ phase' = FALSE /\ startup' = TRUE
  /\ \/ Call("calibration", "pause", "slip")
     \/ Goto("calibration", "phaseOver")
  /\ UNCHANGED <<picture, paused, scan, requested, profile, budget>>

\* phase_slip looks at the logo and slips in one piece; without the logo the
\* search ends.
PhaseSlip ==
  /\ At("calibration", "slip")
  /\ splash
  /\ Goto("calibration", "slipped")
  /\ UNCHANGED <<picture, receiver, budget>>

PhaseDone ==
  /\ At("calibration", "slip") \/ At("calibration", "slipped")
  /\ paused' = FALSE
  /\ Goto("calibration", "phaseOver")
  /\ UNCHANGED <<picture, scan, startup, requested, phase, profile, budget>>

PhaseOver ==
  /\ At("calibration", "phaseOver")
  /\ startup' = FALSE
  /\ Goto("calibration", "idle")
  /\ UNCHANGED <<picture, paused, scan, requested, phase, profile, budget>>

\* startup_phase, started by a request once the menu is closed.
StartupBegin ==
  /\ At("calibration", "idle")
  /\ requested /\ ~menu
  /\ requested' = FALSE /\ startup' = TRUE
  /\ Goto("calibration", "owner")
  /\ UNCHANGED <<picture, paused, scan, phase, profile, budget>>

\* startup_owner: a raster under a status screen does not count as a menu.
StartupOwner == (~menu \/ status) /\ ~scan /\ ~paused

OwnerFree ==
  /\ At("calibration", "owner")
  /\ StartupOwner
  /\ IF profile = DefaultProfile THEN Goto("calibration", "measure")
                                 ELSE Call("calibration", "screen", "leaveProfile")
  /\ UNCHANGED <<picture, receiver, budget>>

\* Mutant of OwnerBusy: give up without ending the startup phase.
OwnerBusyReturns ==
  /\ At("calibration", "owner")
  /\ ~StartupOwner
  /\ Goto("calibration", "idle")
  /\ UNCHANGED <<picture, receiver, budget>>

\* Ten seconds of waiting are over.
OwnerBusy ==
  /\ At("calibration", "owner")
  /\ ~StartupOwner
  /\ Goto("calibration", "result")
  /\ UNCHANGED <<picture, receiver, budget>>

\* profile_set refuses under live video; between its check and the filter
\* write control may run.
ProfileRefused == started /\ ~menu

LeaveProfile ==
  /\ At("calibration", "leaveProfile")
  /\ Goto("calibration", IF ProfileRefused THEN "measure" ELSE "writeProfile")
  /\ UNCHANGED <<picture, receiver, budget>>

WriteProfile ==
  /\ At("calibration", "writeProfile")
  /\ profile' = DefaultProfile
  /\ Goto("calibration", "measure")
  /\ UNCHANGED <<picture, paused, scan, startup, requested, phase, budget>>

\* One sweep of filter, DC or sampling phase: pause, some behind a status
\* screen, and only the filter sweep marked as a scan.
Measure ==
  /\ At("calibration", "measure")
  /\ Call("calibration", "pause", "sweep")
  /\ UNCHANGED <<picture, receiver, budget>>

Sweep ==
  /\ At("calibration", "sweep")
  /\ \/ scan' = TRUE /\ Call("calibration", "screen", "swept")
     \/ UNCHANGED scan /\ Call("calibration", "screen", "swept")
     \/ UNCHANGED scan /\ Goto("calibration", "swept")
  /\ UNCHANGED <<picture, paused, startup, requested, phase, profile, budget>>

\* Mutant of Swept: the pause is not ended.
SweptStillPaused ==
  /\ At("calibration", "swept")
  /\ scan' = FALSE
  /\ Goto("calibration", "measured")
  /\ UNCHANGED <<picture, paused, startup, requested, phase, profile, budget>>

Swept ==
  /\ At("calibration", "swept")
  /\ scan' = FALSE /\ paused' = FALSE
  /\ Goto("calibration", "measured")
  /\ UNCHANGED <<picture, startup, requested, phase, profile, budget>>

\* The picture back for the last measurements.
Measured ==
  /\ At("calibration", "measured")
  /\ Call("calibration", "screenEnd", "result")
  /\ UNCHANGED <<picture, receiver, budget>>

Result ==
  /\ At("calibration", "result")
  /\ Call("calibration", "screen", "shown")
  /\ UNCHANGED <<picture, receiver, budget>>

Shown ==
  /\ At("calibration", "shown")
  /\ Call("calibration", "screenEnd", "over")
  /\ UNCHANGED <<picture, receiver, budget>>

StartupEnd ==
  /\ At("calibration", "over")
  /\ startup' = FALSE
  /\ Goto("calibration", "idle")
  /\ UNCHANGED <<picture, paused, scan, requested, phase, profile, budget>>

Calibration ==
  \/ CalibrationBoot \/ PhaseExpires \/ PhaseCheck \/ PhaseSlip \/ PhaseDone \/ PhaseOver
  \/ StartupBegin \/ OwnerFree \/ OwnerBusy \/ LeaveProfile \/ WriteProfile
  \/ Measure \/ Sweep \/ Swept \/ Measured \/ Result \/ Shown \/ StartupEnd
  \/ Shared("calibration")

-----------------------------------------------------------------------------
(* Control task.  A command is refused only under a status screen; the     *)
(* button also respects the logo and can do nothing that a command cannot. *)

InTime == HastyCommands \/ (at["main"] = "done" /\ DelayOver("control"))

Command ==
  /\ at["control"] = "ready" /\ ~status
  /\ InTime
  /\ commands < MaxCommands /\ commands' = commands + 1
  /\ UNCHANGED requests

\* Keys o and e, menu EXIT, the long press.
MenuKey ==
  /\ Command
  /\ Call("control", IF menu THEN "close" ELSE "open", "ready")
  /\ UNCHANGED <<picture, receiver>>

\* Nobody touched the menu for 30 s, longer than the logo is up; no screen is
\* closed this way.
IdleExit ==
  /\ At("control", "ready") /\ at["main"] = "done"
  /\ menu /\ ~status /\ ~splash
  /\ Call("control", "close", "ready")
  /\ UNCHANGED <<picture, receiver, budget>>

\* Menu CALIBRATE leaves the menu first.
MenuCalibrate ==
  /\ Command
  /\ menu
  /\ Call("control", "close", "request")
  /\ UNCHANGED <<picture, receiver>>

FilterRequest ==
  /\ requests < MaxRequests /\ requests' = requests + 1
  /\ requested' = (requested \/ ~startup)
  /\ UNCHANGED <<picture, paused, scan, startup, phase, profile, commands>>

MenuRequest ==
  /\ At("control", "request")
  /\ Goto("control", "ready")
  /\ \/ FilterRequest
     \/ requests = MaxRequests /\ UNCHANGED <<picture, receiver, budget>>

\* A key that restarts live video (decoder, level, filter): not from a menu.
LiveKey ==
  /\ Command
  /\ ~menu /\ ~startup /\ started
  /\ Call("control", "resume", "switched")
  /\ UNCHANGED <<picture, receiver>>

\* live_apply keeps the profile it restarted with; other keys change none.
Switched ==
  /\ At("control", "switched")
  /\ profile' \in Profiles
  /\ Goto("control", "ready")
  /\ UNCHANGED <<picture, paused, scan, startup, requested, phase, budget>>

\* FILTER in the menu: the menu owns TX.
MenuFilter ==
  /\ Command
  /\ menu
  /\ profile' \in Profiles
  /\ UNCHANGED <<picture, paused, scan, startup, requested, phase, at, back, outlast>>

ScanKey ==
  /\ Command
  /\ Call("control", "pause", "scan")
  /\ UNCHANGED <<picture, receiver>>

ScanBegin ==
  /\ At("control", "scan")
  /\ scan' = TRUE
  /\ Goto("control", "scanning")
  /\ UNCHANGED <<picture, paused, startup, requested, phase, profile, budget>>

ScanOver ==
  /\ At("control", "scanning")
  /\ scan' = FALSE /\ paused' = FALSE
  /\ Goto("control", "channel")
  /\ UNCHANGED <<picture, startup, requested, phase, profile, budget>>

ChannelKey ==
  /\ Command
  /\ Goto("control", "channel")
  /\ UNCHANGED <<picture, receiver>>

\* profile_channel_changed: a chosen FILTER stays, else back to DEFAULT.
ProfileStays ==
  /\ At("control", "channel")
  /\ Goto("control", "ready")
  /\ UNCHANGED <<picture, receiver, budget>>

ProfileDefault ==
  /\ At("control", "channel")
  /\ profile # DefaultProfile
  /\ IF menu THEN profile' = DefaultProfile /\ Goto("control", "ready")
             ELSE UNCHANGED profile /\ Call("control", "screen", "setProfile")
  /\ UNCHANGED <<picture, paused, scan, startup, requested, phase, budget>>

SetProfile ==
  /\ At("control", "setProfile")
  /\ profile' = IF ProfileRefused THEN profile ELSE DefaultProfile
  /\ Call("control", "screenEnd", "ready")
  /\ UNCHANGED <<picture, paused, scan, startup, requested, phase, budget>>

ControlStep ==
  \/ IdleExit \/ MenuRequest \/ Switched \/ ScanBegin \/ ScanOver
  \/ ProfileStays \/ ProfileDefault \/ SetProfile \/ Shared("control")

Commands ==
  \/ MenuKey \/ MenuCalibrate \/ LiveKey \/ MenuFilter \/ ScanKey \/ ChannelKey

\* Console keys F and B, in the console task.
ConsoleRequest == Runs("console") /\ InTime /\ FilterRequest /\ UNCHANGED <<at, back, outlast>>

\* Everybody waits for the next command.
Rest ==
  /\ at = [main |-> "done", calibration |-> "idle", control |-> "ready"]
  /\ ~phase /\ ~requested
  /\ UNCHANGED <<picture, receiver, at, back, outlast, budget>>

Next == Main \/ Calibration \/ ControlStep \/ Commands \/ ConsoleRequest \/ Rest

Spec == Init /\ [][Next]_vars

\* No task waits without bound once it has something to do: delays and
\* deadlines end, and control leaves the core to the others when it sleeps.
FairSpec == Spec /\ WF_vars(Main) /\ WF_vars(Calibration) /\ WF_vars(ControlStep)

-----------------------------------------------------------------------------
(* Properties. *)

Places ==
  [main |-> {"splash", "tasks", "logo", "done"},
   calibration |-> {"boot", "idle", "slip", "slipped", "phaseOver", "owner", "leaveProfile",
                    "writeProfile", "measure", "sweep", "swept", "measured", "result", "shown", "over"},
   control |-> {"absent", "ready", "request", "switched", "scan", "scanning", "channel", "setProfile"}]

\* Every flag has its type and every task is in its own code or in a shared
\* procedure it returns from.
TypeOK ==
  /\ {splash, status, menu, started, paused, scan, startup, requested, phase} \subseteq BOOLEAN
  /\ tx \in {"live", "raster", "off"}
  /\ profile \in Profiles
  /\ DOMAIN at = Tasks /\ DOMAIN back = Tasks
  /\ \A t \in Tasks : at[t] \in Places[t] \cup InCall
  /\ \A t \in Tasks : back[t] \in Places[t] \cup {"none"}
  /\ \A t \in Tasks : outlast[t] \subseteq Tasks \ {t}
  /\ commands \in 0 .. MaxCommands /\ requests \in 0 .. MaxRequests

\* Nobody is handing TX from one owner to another.
Settled == \A t \in Tasks : at[t] \notin InCall \ {"pause", "pauseSet", "pauseGap"}

\* menu.c: whichever tasks opened and closed the raster, and however their
\* calls overlapped, once they have returned the raster is on TX when the menu
\* flag says so and live video otherwise.
PictureSettles ==
  Settled => IF menu THEN tx = "raster" ELSE tx = "live" /\ started

\* A flag raised by one task and lowered by another is never left behind: when
\* nobody works, no screen blocks the commands and no pause holds the receiver.
NothingHeld ==
  (at["main"] = "done" /\ at["calibration"] = "idle" /\ at["control"] = "ready") =>
    ~splash /\ ~status /\ ~paused /\ ~scan /\ ~startup

\* A status screen refuses every command, so it must end whatever happened
\* meanwhile (menu.c, status_screen_end).
StatusEnds == status ~> ~status

\* calibration.c, startup_phase: a calibration gives the receiver back.
CalibrationEnds == startup ~> ~startup /\ ~paused

\* calibration.c: the boot phase check slips the sampling clock "under the
\* existing splash, never later on live video".
BootSlipBehindLogo ==
  [][ at["calibration"] = "slip" /\ at'["calibration"] = "slipped" /\ Settled => tx # "live" ]_vars
=============================================================================
