------------------------------- MODULE Profile -------------------------------
(***************************************************************************)
(* The receive profile: which analog filter a VTX gets.  The control task  *)
(* measures the deviation of the VTX on live video and decides; the        *)
(* calibration task leaves the profile, sweeps the filters, lets control   *)
(* measure once more and commits the result; the operator retunes, chooses *)
(* a FILTER or leaves it to AUTO.  Nothing is locked: control may run      *)
(* between any two steps of the calibration, and the calibration while     *)
(* control sleeps in the restart that ends a switch.                       *)
(*                                                                         *)
(* A batch of 32 windows is one step, its median the deviation of the VTX. *)
(* Time is left out but for the guard between restarts: a cycle starts and *)
(* a store is due at any moment.  Every class but those of Calibrated has  *)
(* no filter; NORMAL always has one.  Status screens get TX (Ownership.tla *)
(* has their refusal), and a restart brings a picture (Transport.tla).     *)
(***************************************************************************)
EXTENDS Integers, Sequences, FiniteSetsExt

CONSTANTS
  Channels,
  Carried,      \* external: the deviations (x100) of the VTXs that may be on a channel
  Calibrated,   \* the profiles besides DEFAULT whose filter class is calibrated
  Batches,      \* DEV_BATCHES
  NarrowAgree,  \* DEV_NARROW_AGREE
  Mishaps,      \* what may go wrong besides the order of steps
  MaxOps, MaxChanges, MaxFaults  \* bounds: operator's commands, other VTXs and lost locks, faults

Rank == [xnarrow |-> 0, narrow |-> 1, default |-> 2, wide |-> 3]  \* profile_width_rank
Profiles == DOMAIN Rank

ASSUME ChannelAssumption == "none" \notin Channels
\* profile_commit takes no other deviation.
ASSUME CarriedAssumption == Carried \in [Channels -> SUBSET (1 .. 400)]
ASSUME CalibratedAssumption == Calibrated \subseteq Profiles \ {"default"}
ASSUME EstimatorAssumption == {Batches, NarrowAgree} \subseteq Nat \ {0}
\* "gap": a command while the calibration is between a test and what rests on
\* it; "filter": a filter that does not read back; "restart": a restart that is
\* rolled back; "timeout": a cycle without enough good windows.
ASSUME MishapAssumption == Mishaps \subseteq {"gap", "filter", "restart", "timeout"}
ASSUME BoundAssumption == {MaxOps, MaxChanges, MaxFaults} \subseteq Nat

None == "none"
SelectAuto == "auto"

VARIABLES
  ch,         \* rf_channel_index
  vtx,        \* external: the deviation of the VTX on each channel
  locked,     \* s_afc_locked
  ready,      \* the channels whose DC tables are there (calibration_dc_ready)
  active,     \* s_profile
  filter,     \* rf_filter, by the profile whose class it is
  sel,        \* s_select
  pending,    \* s_switch_pending
  liveMode,   \* s_live_switch
  measuring,  \* s_measuring
  liveCh,     \* s_live_channel
  est,        \* s_dev
  mon,        \* s_mon
  table,      \* s_dev_table, 0 before the first store
  menu,       \* s_menu_active, the operator's menu
  cool,       \* the restart guard is not ready
  switch,     \* control in the restart of a switch: the profile it ends in and the filter before
  startup,    \* s_startup
  status,     \* s_status: a screen of the calibration, no command and no window
  cal,        \* the calibration task
  ops, changes, faults  \* history: what is left of the bounds

radio   == <<ch, vtx, locked, ready>>
choice  == <<sel, liveMode, menu>>
applied == <<active, filter>>
measure == <<measuring, liveCh, est, mon, table>>
task    == <<startup, status, cal>>
bounds  == <<ops, changes, faults>>
vars    == <<radio, choice, applied, measure, task, bounds, pending, cool, switch>>

NoSwitch == [to |-> None, before |-> None]
FreshEst == [medians |-> <<>>, result |-> 0]               \* dev_reset
FreshMon == [collecting |-> TRUE, agree |-> 0, want |-> None]  \* dev_monitor_reset
CalIdle  == [pc |-> "idle", full |-> FALSE, ch |-> None, dev |-> 0]

Selectable(p) == p = "default" \/ (p \in Calibrated /\ ch \in ready)

\* After profile_boot, the saved FILTER and calibration_boot.
Init ==
  /\ ch \in Channels /\ locked = FALSE /\ ready \in SUBSET Channels
  /\ vtx \in {v \in [Channels -> UNION {Carried[c] : c \in Channels}] : \A c \in Channels : v[c] \in Carried[c]}
  /\ sel \in {SelectAuto} \cup Profiles /\ liveMode \in BOOLEAN /\ menu = FALSE
  /\ active = IF sel # SelectAuto /\ Selectable(sel) THEN sel ELSE "default"
  /\ filter = active
  /\ pending = None /\ cool = FALSE /\ switch = NoSwitch
  /\ measuring = "live" /\ liveCh = ch /\ est = FreshEst /\ mon = FreshMon
  /\ table = [c \in Channels |-> 0]
  /\ startup = FALSE /\ status = FALSE /\ cal = CalIdle
  /\ ops = MaxOps /\ changes = MaxChanges /\ faults = MaxFaults

Fault(kind) == kind \in Mishaps /\ faults > 0 /\ faults' = faults - 1

-----------------------------------------------------------------------------
(* profile_logic.h                                                         *)

Class(dev) ==
  CASE dev >= 160 -> IF "wide" \in Calibrated THEN "wide" ELSE "default"
    [] dev <= 105 -> IF "narrow" \in Calibrated THEN "narrow" ELSE "default"
    [] OTHER -> "default"

Narrowing(want, from) == Rank[want] < Rank[from]
NarrowReady(p) == locked /\ p \in Calibrated \cup {"default"} /\ ch \in ready

Order == <<SelectAuto, "xnarrow", "narrow", "default", "wide">>
NextSelect ==
  LET at == CHOOSE i \in 1 .. 5 : Order[i] = sel
      Step(k) == Order[((at + k - 1) % 5) + 1]
      allowed == {k \in 1 .. 5 : Step(k) = SelectAuto \/ Selectable(Step(k))}
  IN Step(Min(allowed))

\* Batches that differ by more than 5 % are dropped; the highest counts.
Result(medians) ==
  LET all == {medians[i] : i \in DOMAIN medians} IN
  IF (Max(all) - Min(all)) * 100 > Min(all) * 5 THEN 0 ELSE Max(all)

\* Mutant of Wanted: every switch waits for what a narrower filter needs.
WantedReady(want, agree) ==
  liveMode /\ want # active /\ NarrowReady(want) /\ agree >= NarrowAgree

\* profile_live_switch_wanted: widening at once, narrowing with agreement.
Wanted(want, agree) ==
  /\ liveMode /\ want # active
  /\ Narrowing(want, active) => NarrowReady(want) /\ agree >= NarrowAgree

\* A change of class is stored at once, a change of 3 only if the last store
\* is long ago.
Stores(dev) ==
  LET was == table[ch] IN
  IF dev = was THEN {FALSE}
  ELSE IF was = 0 \/ Class(was) # Class(dev) THEN {TRUE}
  ELSE IF dev - was \in -2 .. 2 THEN {FALSE} ELSE BOOLEAN

-----------------------------------------------------------------------------
(* Changing the filter                                                     *)

\* profile_set with TX off: the filter that does not read back leaves DEFAULT.
SetProfile(p) ==
  \/ active' = p /\ filter' = p /\ UNCHANGED faults
  \/ p # "default" /\ Fault("filter") /\ active' = "default" /\ filter' = "default"

Waits(p, choose) ==
  \/ menu \/ status \/ startup \/ cool
  \/ choose = SelectAuto /\ Narrowing(p, active) /\ ~NarrowReady(p)

\* The end of live_apply: the filter, and the restart that control sleeps in.
Begins(p) ==
  /\ pending' = None
  /\ \/ Fault("filter") /\ UNCHANGED <<filter, switch>>
     \/ filter' = p /\ switch' = [to |-> p, before |-> filter] /\ UNCHANGED faults

Keeps(p) == pending' = p /\ UNCHANGED <<filter, switch, faults>>

\* live_apply, with the pending profile p under the selection choose.
LiveApply(p, choose) ==
  \/ p \in {None, active} /\ Keeps(None)
  \/ p \notin {None, active} /\ Waits(p, choose) /\ Keeps(p)
  \/ p \notin {None, active} /\ ~Waits(p, choose) /\ Begins(p)

\* Mutant of Restarted: the filter stays when the restart fails.
RestartedKeepsFilter ==
  /\ switch # NoSwitch
  /\ \/ active' = switch.to /\ UNCHANGED <<filter, faults>>
     \/ Fault("restart") /\ UNCHANGED <<active, filter>>
  /\ switch' = NoSwitch /\ cool' = TRUE
  /\ UNCHANGED <<radio, choice, measure, task, pending, ops, changes>>

\* The verified restart after the filter changed, and what live_apply does then.
Restarted ==
  /\ switch # NoSwitch
  /\ \/ active' = switch.to /\ UNCHANGED <<filter, faults>>
     \/ Fault("restart") /\ filter' = switch.before /\ UNCHANGED active
  /\ switch' = NoSwitch /\ cool' = TRUE
  /\ UNCHANGED <<radio, choice, measure, task, pending, ops, changes>>

Cooled ==
  /\ cool /\ cool' = FALSE
  /\ UNCHANGED <<radio, choice, applied, measure, task, bounds, pending, switch>>

-----------------------------------------------------------------------------
(* profile_observe: one batch of windows on live video, or at startup      *)

Observing == switch = NoSwitch /\ ~status /\ measuring # "off"
LiveHere == measuring = "live" /\ liveCh = ch
Blocked == pending \notin {None, active} /\ Waits(pending, sel)

\* Each window first tries the switch that waits.
Retry ==
  /\ Observing /\ LiveHere /\ pending # None
  /\ \/ pending = active /\ Keeps(None)
     \/ pending # active /\ ~Waits(pending, sel) /\ Begins(pending)
  /\ UNCHANGED <<radio, choice, active, measure, task, ops, changes, cool>>

\* dev_monitor_tick: the next cycle, or one that took too long.
Cycle ==
  /\ Observing /\ LiveHere
  /\ \/ ~mon.collecting /\ UNCHANGED faults
     \/ mon.collecting /\ est.medians # <<>> /\ Fault("timeout")
  /\ mon' = [mon EXCEPT !.collecting = TRUE]
  /\ est' = FreshEst
  /\ UNCHANGED <<radio, choice, applied, measuring, liveCh, table, task, ops, changes, pending, cool, switch>>

Agreement(want) ==
  LET streak == IF want = mon.want THEN mon.agree + 1 ELSE 1
  IN  IF streak < NarrowAgree THEN streak ELSE NarrowAgree

\* live_decided
Decided(dev) ==
  LET want == Class(dev)
      agree == Agreement(want)
  IN /\ mon' = [collecting |-> FALSE, agree |-> agree, want |-> want]
     /\ \E store \in Stores(dev) : table' = IF store THEN [table EXCEPT ![ch] = dev] ELSE table
     /\ LiveApply(IF sel = SelectAuto /\ Wanted(want, agree) THEN want ELSE None, sel)

\* dev_add: a batch that completes a result, is dropped, or is one of several.
Batch ==
  LET medians == Append(est.medians, vtx[ch])
      result  == Result(medians)
  IN
  /\ Observing /\ est.result = 0
  /\ measuring = "live" => liveCh = ch /\ mon.collecting /\ (pending = None \/ Blocked)
  /\ est' = IF Len(medians) < Batches THEN [est EXCEPT !.medians = medians]
            ELSE [medians |-> <<>>, result |-> result]
  /\ IF est'.result # 0 /\ measuring = "live" THEN Decided(result)
     ELSE UNCHANGED <<mon, table, pending, filter, switch, faults>>
  /\ UNCHANGED <<radio, choice, active, measuring, liveCh, task, ops, changes, cool>>

-----------------------------------------------------------------------------
(* The operator, in the control task                                       *)

\* Where the calibration rests on what it has tested before.
Gap == \/ cal.pc \in {"sweep", "commit", "resume"}
       \/ measuring = "startup" /\ est.result # 0

Command ==
  /\ switch = NoSwitch /\ ~status /\ ops > 0 /\ ops' = ops - 1
  /\ Gap => "gap" \in Mishaps

\* Mutant of LiveBegin: the measurement of the startup phase goes on.
LiveBeginRuns(c) ==
  IF startup THEN UNCHANGED <<measuring, liveCh, est, mon>>
  ELSE measuring' = "live" /\ liveCh' = c /\ est' = FreshEst /\ mon' = FreshMon

\* profile_live_begin, called by control: another channel, so it always resets.
LiveBegin(c) ==
  IF startup THEN measuring' = "off" /\ liveCh' = None /\ UNCHANGED <<est, mon>>
  ELSE measuring' = "live" /\ liveCh' = c /\ est' = FreshEst /\ mon' = FreshMon

\* after_retune, profile_channel_changed: behind a status screen if not in the
\* menu, and its end restarts live video.
Retune(c) ==
  LET kept == sel # SelectAuto /\ (sel = "default" \/ (sel \in Calibrated /\ c \in ready))
      p == IF kept THEN sel ELSE "default"
  IN
  /\ Command /\ c # ch
  /\ ch' = c /\ locked' = FALSE /\ pending' = None
  /\ IF active = p THEN UNCHANGED <<applied, faults, cool>>
     ELSE SetProfile(p) /\ cool' = (cool \/ ~menu)
  /\ LiveBegin(c)
  /\ UNCHANGED <<vtx, ready, choice, table, task, changes, switch>>

\* profile_select_cycle: at once in the menu, through the live switch in flight.
Select ==
  LET next == NextSelect
      p == IF next = SelectAuto THEN "default" ELSE next
  IN
  /\ Command
  /\ sel' = next
  /\ IF menu THEN SetProfile(p) /\ UNCHANGED <<pending, switch>>
     ELSE LiveApply(p, next) /\ UNCHANGED active
  /\ UNCHANGED <<radio, liveMode, menu, measure, task, changes, cool>>

SetLiveMode ==
  /\ Command
  /\ liveMode' = ~liveMode
  /\ pending' = IF liveMode THEN None ELSE pending
  /\ UNCHANGED <<radio, sel, menu, applied, measure, task, changes, faults, cool, switch>>

OpenMenu ==
  /\ Command /\ ~menu /\ menu' = TRUE
  /\ UNCHANGED <<radio, sel, liveMode, applied, measure, task, changes, faults, pending, cool, switch>>

\* By the operator or after half a minute; live video restarts.
CloseMenu ==
  /\ menu /\ ~status /\ menu' = FALSE /\ cool' = TRUE
  /\ UNCHANGED <<radio, sel, liveMode, applied, measure, task, bounds, pending, switch>>

Calibrate(full) ==
  /\ Command /\ cal.pc = "idle"
  /\ menu' = FALSE /\ cool' = (cool \/ menu)
  /\ cal' = [cal EXCEPT !.pc = "requested", !.full = full]
  /\ UNCHANGED <<radio, sel, liveMode, applied, measure, startup, status, changes, faults, pending, switch>>

-----------------------------------------------------------------------------
(* The calibration task: startup_phase                                     *)

Goto(pc) == cal' = [cal EXCEPT !.pc = pc]

StartupBegin ==
  /\ cal.pc = "requested" /\ ~menu
  /\ startup' = TRUE /\ Goto("owner")
  /\ UNCHANGED <<radio, choice, applied, measure, status, bounds, pending, cool, switch>>

OwnerBusy ==
  /\ cal.pc = "owner" /\ menu /\ Goto("end")
  /\ UNCHANGED <<radio, choice, applied, measure, startup, status, bounds, pending, cool, switch>>

\* The matched profile is left behind a screen, before anything is measured.
\* The delays before it outlast a restart in progress.
Leave ==
  /\ cal.pc = "owner" /\ ~menu /\ switch = NoSwitch
  /\ status' = (active # "default") /\ active' = "default" /\ filter' = "default"
  /\ Goto("sweep")
  /\ UNCHANGED <<radio, choice, measure, startup, bounds, pending, cool, switch>>

\* The sweeps, behind screens: a full one ends in the NORMAL filter it found,
\* one that fails and a quick one in the filter before.
Sweep ==
  /\ cal.pc = "sweep"
  /\ status' = TRUE
  /\ filter' \in IF cal.full THEN {filter, "default"} ELSE {filter}
  /\ ready' \in {ready, ready \cup {ch}}
  /\ Goto("swept")
  /\ UNCHANGED <<ch, vtx, locked, choice, active, measure, startup, bounds, pending, cool, switch>>

\* The screen ends, and with it a menu it had joined.
Swept ==
  /\ cal.pc = "swept"
  /\ status' = FALSE /\ menu' = FALSE /\ cool' = TRUE
  /\ Goto(IF cal.full THEN "measure" ELSE "end")
  /\ UNCHANGED <<radio, sel, liveMode, applied, measure, startup, bounds, pending, switch>>

\* deviation_startup: without a matched filter or a picture there is nothing to measure.
MeasureSkip ==
  /\ cal.pc = "measure" /\ Goto("end")
  /\ UNCHANGED <<radio, choice, applied, measure, startup, status, bounds, pending, cool, switch>>

Measure ==
  /\ cal.pc = "measure" /\ Calibrated \cap {"narrow", "wide"} # {}
  /\ measuring' = "startup" /\ est' = FreshEst /\ Goto("measuring")
  /\ UNCHANGED <<radio, choice, applied, liveCh, mon, table, startup, status, bounds, pending, cool, switch>>

\* The poll every 100 ms finds a result, or the time is over.
Measured ==
  /\ cal.pc = "measuring"
  /\ measuring' = "off"
  /\ cal' = [cal EXCEPT !.pc = IF est.result # 0 THEN "commit" ELSE "end", !.dev = est.result]
  /\ UNCHANGED <<radio, choice, applied, liveCh, est, mon, table, startup, status, bounds, pending, cool, switch>>

\* profile_commit: in the startup phase live_apply only keeps the switch for later.
Commit ==
  LET p == Class(cal.dev)
      switches == /\ sel = SelectAuto
                  /\ p = "default" => active # "default"
                  /\ Narrowing(p, active) /\ p # "default" => NarrowReady(p)
  IN
  /\ cal.pc = "commit"
  /\ table' = [table EXCEPT ![ch] = cal.dev] /\ liveCh' = ch
  /\ pending' = IF ~switches THEN pending ELSE IF p = active THEN None ELSE p
  /\ cal' = [cal EXCEPT !.pc = "end", !.dev = 0]
  /\ UNCHANGED <<radio, choice, applied, measuring, est, mon, startup, status, bounds, cool, switch>>

\* The result screen, and with its end the end of the startup phase.
StartupEnd ==
  /\ cal.pc = "end"
  /\ startup' = FALSE /\ menu' = FALSE /\ cool' = TRUE
  /\ cal' = [cal EXCEPT !.pc = "begin", !.full = FALSE]
  /\ UNCHANGED <<radio, sel, liveMode, applied, measure, status, bounds, pending, switch>>

\* profile_live_begin in two steps: control may run between them.
Begin ==
  /\ cal.pc = "begin"
  /\ IF measuring = "live" /\ liveCh = ch THEN Goto("idle") /\ UNCHANGED <<measuring, est>>
     ELSE measuring' = "off" /\ est' = FreshEst /\ cal' = [cal EXCEPT !.pc = "resume", !.ch = ch]
  /\ UNCHANGED <<radio, choice, applied, liveCh, mon, table, startup, status, bounds, pending, cool, switch>>

Resume ==
  /\ cal.pc = "resume"
  /\ mon' = FreshMon /\ liveCh' = cal.ch /\ measuring' = "live"
  /\ cal' = CalIdle
  /\ UNCHANGED <<radio, choice, applied, est, table, startup, status, bounds, pending, cool, switch>>

-----------------------------------------------------------------------------
(* Around the receiver                                                     *)

Unchanged == UNCHANGED <<ch, ready, choice, applied, measure, task, pending, cool, switch, ops, faults>>

AnotherVtx ==
  /\ changes > 0 /\ changes' = changes - 1
  /\ \E dev \in Carried[ch] \ {vtx[ch]} : vtx' = [vtx EXCEPT ![ch] = dev]
  /\ UNCHANGED locked /\ Unchanged

Lock == ~locked /\ locked' = TRUE /\ UNCHANGED <<vtx, changes>> /\ Unchanged

LockLost ==
  /\ locked /\ changes > 0 /\ changes' = changes - 1
  /\ locked' = FALSE /\ UNCHANGED vtx /\ Unchanged

Control == Retry \/ Cycle \/ Batch \/ Restarted
Operator ==
  \/ \E c \in Channels : Retune(c)
  \/ Select \/ SetLiveMode \/ OpenMenu \/ \E full \in BOOLEAN : Calibrate(full)
Calibration ==
  \/ StartupBegin \/ OwnerBusy \/ Leave \/ Sweep \/ Swept \/ MeasureSkip \/ Measure
  \/ Measured \/ Commit \/ StartupEnd \/ Begin \/ Resume
Around == AnotherVtx \/ Lock \/ LockLost

Next == Control \/ Operator \/ CloseMenu \/ Cooled \/ Calibration \/ Around

\* Control and calibration always take their next step, the guard runs out, and
\* a menu left alone closes.
Fairness == WF_vars(Control) /\ WF_vars(Calibration) /\ WF_vars(Cooled) /\ WF_vars(CloseMenu)
Spec == Init /\ [][Next]_vars /\ Fairness

-----------------------------------------------------------------------------
(* Properties                                                              *)

Deviations == UNION {Carried[c] : c \in Channels}

TypeOK ==
  /\ ch \in Channels /\ vtx \in [Channels -> Deviations] /\ locked \in BOOLEAN /\ ready \subseteq Channels
  /\ active \in Profiles /\ filter \in Profiles
  /\ sel \in {SelectAuto} \cup Profiles /\ pending \in {None} \cup Profiles
  /\ liveMode \in BOOLEAN /\ menu \in BOOLEAN /\ cool \in BOOLEAN
  /\ startup \in BOOLEAN /\ status \in BOOLEAN
  /\ measuring \in {"off", "startup", "live"} /\ liveCh \in {None} \cup Channels
  /\ est \in [medians : Seq(Deviations), result : {0} \cup Deviations]
  /\ mon \in [collecting : BOOLEAN, agree : 0 .. NarrowAgree, want : {None} \cup Profiles]
  /\ table \in [Channels -> {0} \cup Deviations]
  /\ switch \in [to : {None} \cup Profiles, before : {None} \cup Profiles]
  /\ cal \in [pc : {"idle", "requested", "owner", "sweep", "swept", "measure", "measuring", "commit",
                    "end", "begin", "resume"},
              full : BOOLEAN, ch : {None} \cup Channels, dev : {0} \cup Deviations]
  /\ ops \in Nat /\ changes \in Nat /\ faults \in Nat

\* The profile that is shown and logged is the one whose filter is set, whenever
\* no switch is in its restart: through switches that fail at the filter or at
\* the restart, the operator's choices and the sweeps of a calibration
\* (profile.c:77-79 "never a half-applied profile", calibration.c:181-182).
FilterOfProfile == switch = NoSwitch => filter = active

\* What is measured on a channel comes from that channel: the batches and the
\* streak a running measurement holds, and the stored deviation (profile.c:149-151).
DeviationsAreLocal ==
  /\ measuring = "startup" \/ LiveHere =>
       /\ \A i \in DOMAIN est.medians : est.medians[i] \in Carried[ch]
       /\ est.result \in {0} \cup Carried[ch]
       /\ measuring = "live" => mon.want \in {None} \cup {Class(dev) : dev \in Carried[ch]}
  /\ \A c \in Channels : table[c] \in {0} \cup Carried[c]

\* Left to AUTO with the live switch on, the receiver ends in the profile of the
\* VTX it receives, or waits for the lock or the DC table a narrower filter needs;
\* it never stays narrower than the VTX (profile_logic.h:189-198).
Fits ==
  LET want == Class(vtx[ch])
  IN  active = want \/ (Narrowing(want, active) /\ ~NarrowReady(want))
Matches == <>[](sel = SelectAuto /\ liveMode => Fits)
=============================================================================
