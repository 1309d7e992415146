------------------------------ MODULE Observer ------------------------------
(***************************************************************************)
(* Who writes the receive gain, on what evidence: the gain observer and    *)
(* its sentinel (receiver.c), the control task that retunes, and the       *)
(* calibration task that holds and trims the DC of the gain rows           *)
(* (calibration_dc.c), all serialised by the PHY ownership of phy.c.       *)
(*                                                                         *)
(* The observer and the control task share priority 3 and interleave       *)
(* anywhere; the sentinel preempts both and runs as one step; the          *)
(* calibration task runs only while both are blocked.                      *)
(*                                                                         *)
(* What a window of IQ shows (tuning, gain and DC codes it was received    *)
(* with) is carried along as history and read by no guard.  A window is    *)
(* one instant: the newest complete buffer is younger than the shortest    *)
(* PHY transaction.                                                        *)
(***************************************************************************)
EXTENDS Naturals, Sequences

CONSTANTS
  Gains,       \* rows of the gain table that occur
  Levels,      \* the ones the signal may call for
  Floor,       \* the lowest row a reset starts the core at (20)
  ScanGain,    \* the gain every scanned channel is compared at
  Channels,    \* FPV channels
  BootChannel, \* the one the settings hold
  Ops,         \* names of the control task's operations that may occur
  MaxOps,      \* bound: operations of the control task
  MaxFades,    \* bound: changes of the signal level
  MaxTrims,    \* bound: steps of the DC servo, the failed ones included
  MaxBlasts    \* bound: saturated windows the sentinel forwards

ASSUME GainAssumption ==
  /\ Gains \subseteq Nat \ {0} /\ Levels \subseteq Gains /\ {Floor, ScanGain} \subseteq Gains
  /\ \E g \in Gains : \A h \in Gains : h <= g
ASSUME ChannelAssumption == BootChannel \in Channels
ASSUME OpsAssumption == Ops \subseteq {"retune", "afc", "dfilt", "scan"}
ASSUME BoundAssumption == {MaxOps, MaxFades, MaxTrims, MaxBlasts} \subseteq Nat

MaxGain == CHOOSE g \in Gains : \A h \in Gains : h <= g
None == "none"

VARIABLES
  lock,          \* s_lock: its owner
  depth,         \* s_depth: a PHY transaction is open
  gen,           \* s_generation
  tune,          \* external: what the PHY is set to: channel, offset, filter mode
  hwGain, code,  \* external: the forced gain; the DC codes in force
  level,         \* external: the gain the signal calls for
  curGain,       \* s_current_gain
  control,       \* s_control_epoch
  gainEpoch,     \* s_gain_epoch
  settled,       \* the last gain write is at least 2 ms old
  paused,        \* s_paused
  mail,          \* s_overload_state = 2, and what it holds
  obs,           \* the observer's locals
  core,          \* s_gain: gain, map context, and the tunings learned from
  sums, label,   \* s_dc_rows, and the epochs they belong to
  todo,          \* what the control task's operation has left to do
  cal,           \* the calibration task's locals
  serving, trim, \* s_dco.freq; s_drift_offset, counted in steps
  dcFault,       \* s_dc_fault: DC codes could not be restored
  budget         \* history: what of the bounds is used up

phy   == <<lock, depth, gen>>
hw    == <<tune, hwGain, code>>
epoch == <<control, gainEpoch, settled, paused>>
dc    == <<sums, label, serving, trim, dcFault>>
vars  == <<phy, hw, level, curGain, epoch, mail, obs, core, dc, todo, cal, budget>>

Chip == [row |-> 0, step |-> 0]              \* the chip's own DC, nothing held
Torn == [row |-> 0, step |-> 1]              \* codes nobody knows: a restore failed
HeldCode(g) == [row |-> g, step |-> trim[g]] \* the row's codes and its live trim
Context(t) == <<t.chan, t.offset>>           \* map_context: the digital filter is no part of it
Unseen == [control |-> 0, phy |-> 0]         \* no epoch: they start at 1
NoWindow == [tune |-> [chan |-> None, offset |-> 0, mode |-> 0], gain |-> 0, code |-> Chip,
             level |-> 0, settled |-> FALSE]
Empty == [win |-> NoWindow, gain |-> 0, control |-> 0, phy |-> 0]
Window == [tune |-> tune, gain |-> hwGain, code |-> code, level |-> level, settled |-> settled]

Init ==
  /\ lock = None /\ depth = 0 /\ gen = 1
  /\ tune = [chan |-> BootChannel, offset |-> 0, mode |-> 0]
  /\ serving = tune.chan
  /\ hwGain = MaxGain /\ curGain = MaxGain /\ level = MaxGain
  /\ trim = [g \in Gains |-> 0] /\ code = [row |-> MaxGain, step |-> 0]
  /\ control = 1 /\ gainEpoch = 1 /\ settled = TRUE /\ paused = FALSE
  /\ mail = Empty
  /\ obs = [pc |-> "wait", control |-> 0, phy |-> 0, gain |-> 0, seen |-> Unseen,
            win |-> NoWindow, target |-> MaxGain]
  /\ core = [gain |-> MaxGain, ctx |-> <<None, 0>>, learned |-> {}]
  /\ sums = [g \in Gains |-> {}] /\ label = Unseen /\ dcFault = FALSE
  /\ todo = <<>>
  /\ cal = [pc |-> "idle", row |-> MaxGain, mean |-> {}]
  /\ budget = [op |-> 0, fade |-> 0, trim |-> 0, blast |-> 0]

Active == ~paused /\ depth = 0                     \* receiver_active

\* Mutant: a transaction that came and went is not noticed.
ActuatorNow(expected) == lock = None /\ depth = 0

Actuator(expected) == lock = None /\ depth = 0 /\ gen = expected

(***************************************************************************)
(* The observer (priority 3).                                              *)
(***************************************************************************)
Goto(pc) == obs' = [obs EXCEPT !.pc = pc]
\* The next turn of the loop reads everything anew, but for what it has bound.
Loop(o) == [o EXCEPT !.pc = "wait", !.control = 0, !.phy = 0, !.gain = 0,
                     !.win = NoWindow, !.target = MaxGain]
Again == obs' = Loop(obs)

\* A wake while the receiver is not active frees the mailbox and forgets.
Sleep ==
  /\ obs.pc = "wait" /\ ~Active
  /\ mail' = Empty
  /\ obs' = [obs EXCEPT !.seen = Unseen]
  /\ UNCHANGED <<phy, hw, level, curGain, epoch, core, dc, todo, cal, budget>>

\* The epochs are read before the context they are to describe.
Wake ==
  /\ obs.pc = "wait" /\ Active
  /\ obs' = [obs EXCEPT !.pc = "bind", !.control = control, !.phy = gen]
  /\ UNCHANGED <<phy, hw, level, curGain, epoch, mail, core, dc, todo, cal, budget>>

Seen == [control |-> obs.control, phy |-> obs.phy]

\* The core follows another channel, table, transaction or foreign gain write.
Stale == obs.seen # Seen \/ core.gain # curGain \/ core.ctx # Context(tune)

\* dg_reset_context starts the core no lower than Floor.
Clamped(g) == IF g < Floor THEN Floor ELSE g

\* gain_map_bind: the learned map survives on an unchanged context.
Bound ==
  [gain |-> Clamped(curGain),
   ctx |-> Context(tune),
   learned |-> IF core.ctx = Context(tune) THEN core.learned ELSE {}]

\* An overload is current if nothing moved since the sentinel saw it, and it is
\* at most 1 ms old.
Current(m, young) == m.gain = gainEpoch /\ m.control = obs.control /\ m.phy = obs.phy /\ young

\* Mutant: an overload of an older epoch stays in the mailbox.
FreeMailLate == mail' = IF mail.control = control THEN Empty ELSE mail

FreeMail == mail' = Empty

Bind ==
  /\ obs.pc = "bind"
  /\ IF paused THEN Again /\ UNCHANGED <<core, mail>>
     ELSE /\ core' = IF Stale THEN Bound ELSE core
          /\ FreeMail
          /\ IF mail = Empty
             THEN obs' = [obs EXCEPT !.pc = "copy", !.seen = Seen]
             ELSE \E young \in BOOLEAN :
                    obs' = IF Current(mail, young)
                           THEN [obs EXCEPT !.pc = "attack", !.seen = Seen, !.win = mail.win]
                           ELSE Loop([obs EXCEPT !.seen = Seen])
  /\ UNCHANGED <<phy, hw, level, curGain, epoch, dc, todo, cal, budget>>

Copy ==
  /\ obs.pc = "copy"
  /\ obs' = [obs EXCEPT !.pc = "check", !.gain = gainEpoch, !.win = Window]
  /\ UNCHANGED <<phy, hw, level, curGain, epoch, mail, core, dc, todo, cal, budget>>

\* Mutant: the PHY may have been retuned under the window.
UnmovedGain == obs.gain = gainEpoch /\ obs.control = control

\* The window counts if nothing moved while it was copied and measured.
Unmoved ==
  /\ obs.phy = gen /\ depth = 0
  /\ obs.gain = gainEpoch /\ obs.control = control
  /\ core.ctx = Context(tune)

Check ==
  /\ obs.pc = "check"
  /\ IF ~Unmoved THEN Again
     ELSE Goto(IF obs.win.settled THEN "sum" ELSE "decide")
  /\ UNCHANGED <<phy, hw, level, curGain, epoch, mail, core, dc, todo, cal, budget>>

\* dc_accumulate: the first window of another context restarts every row.
Restarts == label # Seen

Accumulate ==
  /\ obs.pc = "sum"
  /\ LET kept == IF Restarts THEN [g \in Gains |-> {}] ELSE sums
     IN  sums' = [kept EXCEPT ![curGain] = @ \cup {[tune |-> obs.win.tune, code |-> obs.win.code]}]
  /\ label' = Seen
  /\ Goto("decide")
  /\ UNCHANGED <<phy, hw, level, curGain, epoch, mail, core, serving, trim, dcFault, todo, cal, budget>>

\* gain_decision: the core learns from a settled window that is not saturated,
\* and moves itself before the hardware.  One that a reset lifted above the
\* hardware may ask for its own row on any window.
Learns == obs.pc = "decide" /\ obs.win.settled
Targets == IF obs.win.settled THEN {obs.win.level} \cup ({core.gain} \ {curGain}) ELSE {core.gain}

Decide ==
  /\ obs.pc \in {"decide", "attack"}
  /\ \E target \in Targets :
       /\ obs' = [obs EXCEPT !.pc = "apply", !.target = target]
       /\ core' = [core EXCEPT !.gain = target,
                               !.learned = IF Learns THEN @ \cup {obs.win.tune} ELSE @]
  /\ UNCHANGED <<phy, hw, level, curGain, epoch, mail, dc, todo, cal, budget>>

\* Mutant: a refused write leaves the core ahead.
RefusedAhead == UNCHANGED core

\* dg_write_refused: the core goes back to the gain in force.
Refused == core' = [core EXCEPT !.gain = curGain]

\* apply_target up to the lock, and the lock's wait of one tick.
Ready == obs.phy = gen /\ obs.control = control /\ Active

Apply ==
  /\ obs.pc = "apply"
  /\ IF Ready /\ obs.target # curGain THEN Goto("lock") /\ UNCHANGED core
     ELSE Refused /\ Again
  /\ UNCHANGED <<phy, hw, level, curGain, epoch, mail, dc, todo, cal, budget>>

\* Refused: the tick ran out, the generation moved, or the owner did.
Lease == Actuator(obs.phy)

LockRefused ==
  /\ obs.pc = "lock"
  /\ ~(Lease /\ obs.control = control /\ Active)
  /\ Refused /\ Again
  /\ UNCHANGED <<phy, hw, level, curGain, epoch, mail, dc, todo, cal, budget>>

\* rf_set_gain under the lease: release, force, hold the row's codes again.
HoldsCodes == ~paused /\ serving = tune.chan

Write ==
  /\ obs.pc = "lock"
  /\ Lease /\ obs.control = control /\ Active
  /\ hwGain' = obs.target /\ curGain' = obs.target
  /\ code' = IF HoldsCodes THEN HeldCode(obs.target) ELSE Chip
  /\ settled' = FALSE /\ gainEpoch' = gainEpoch + 1
  /\ core' = [core EXCEPT !.gain = obs.target]
  /\ Again
  /\ UNCHANGED <<phy, tune, level, control, paused, mail, dc, todo, cal, budget>>

Observe == Sleep \/ Wake \/ Bind \/ Copy \/ Check \/ Accumulate \/ Decide \/ Apply
           \/ LockRefused \/ Write

(***************************************************************************)
(* The sentinel (priority 4): one step between two of anyone else.         *)
(***************************************************************************)
Sentinel ==
  /\ budget.blast < MaxBlasts
  /\ Active /\ mail = Empty /\ settled
  /\ level < curGain
  /\ mail' = [win |-> Window, gain |-> gainEpoch, control |-> control, phy |-> gen]
  /\ budget' = [budget EXCEPT !.blast = @ + 1]
  /\ UNCHANGED <<phy, hw, level, curGain, epoch, obs, core, dc, todo, cal>>

(***************************************************************************)
(* The control task (priority 3), as the steps its operations consist of.  *)
(***************************************************************************)
\* Of a scan's channels only the last one is seen by anyone: the rest passes
\* while the receiver is paused.
Script(op) ==
  CASE op = "retune" -> <<"begin", "channel", "end", "epoch">>
    [] op = "afc"    -> <<"lease", "nest", "offset", "end", "age", "release">>
    [] op = "dfilt"  -> <<"begin", "mode", "end", "zero">>
    [] op = "scan"   -> <<"pause", "delay", "begin", "forceScan", "end", "adoptScan",
                          "begin", "channel", "end", "delay",
                          "begin", "forceMax", "end", "adoptMax", "epoch", "resume", "epoch">>

\* A new operation begins when the last is over: buttons, AFC and scan are
\* steps of one task.
Start ==
  /\ todo = <<>> /\ budget.op < MaxOps
  /\ \E op \in Ops : todo' = Script(op)
  /\ budget' = [budget EXCEPT !.op = @ + 1]
  /\ UNCHANGED <<phy, hw, level, curGain, epoch, mail, obs, core, dc, cal>>

Doing(step) == todo # <<>> /\ Head(todo) = step /\ todo' = Tail(todo)
Aside == UNCHANGED <<level, mail, obs, core, serving, trim, dcFault, cal, budget>>

Begin ==
  /\ Doing("begin") /\ lock = None
  /\ lock' = "control" /\ depth' = 1
  /\ UNCHANGED <<gen, hw, curGain, epoch, sums, label>> /\ Aside

\* The AFC takes the lease first and never waits for it.
LeaseOrSkip ==
  /\ todo # <<>> /\ Head(todo) = "lease"
  /\ IF lock = None THEN lock' = "control" /\ todo' = Tail(todo)
     ELSE todo' = <<>> /\ UNCHANGED lock
  /\ UNCHANGED <<depth, gen, hw, curGain, epoch, sums, label>> /\ Aside

Nest ==
  /\ Doing("nest") /\ depth' = 1
  /\ UNCHANGED <<lock, gen, hw, curGain, epoch, sums, label>> /\ Aside

\* restore_lock: vendor rows again, then the held codes through the gain hook.
Restored == code' = IF HoldsCodes THEN HeldCode(hwGain) ELSE Chip

Retuned ==
  /\ \/ Doing("channel") /\ \E c \in Channels : tune' = [chan |-> c, offset |-> 0, mode |-> tune.mode]
     \/ Doing("offset") /\ tune' = [tune EXCEPT !.offset = 1 - @]
     \/ Doing("mode") /\ tune' = [tune EXCEPT !.mode = 1 - @]
  /\ Restored
  /\ UNCHANGED <<phy, hwGain, curGain, epoch, sums, label>> /\ Aside

Forced ==
  /\ \/ Doing("forceScan") /\ hwGain' = ScanGain
     \/ Doing("forceMax") /\ hwGain' = MaxGain
  /\ code' = Chip                  \* only a pause owner forces a gain: the hook is silent
  /\ UNCHANGED <<phy, tune, curGain, epoch, sums, label>> /\ Aside

\* phy_end: the AFC keeps its outer lease.
End ==
  /\ Doing("end") /\ depth' = 0 /\ gen' = gen + 1
  /\ lock' = IF "release" \in {todo[i] : i \in DOMAIN todo} THEN lock ELSE None
  /\ UNCHANGED <<hw, curGain, epoch, sums, label>> /\ Aside

\* receiver_set_gain, after the force.
Adopt ==
  /\ \/ Doing("adoptScan") /\ curGain' = ScanGain
     \/ Doing("adoptMax") /\ curGain' = MaxGain
  /\ settled' = FALSE /\ gainEpoch' = gainEpoch + 1
  /\ UNCHANGED <<phy, hw, control, paused, sums, label>> /\ Aside

\* An offset that moved ages the gain evidence.
Age ==
  /\ Doing("age")
  /\ settled' = FALSE /\ gainEpoch' = gainEpoch + 1
  /\ UNCHANGED <<phy, hw, curGain, control, paused, sums, label>> /\ Aside

Release ==
  /\ Doing("release") /\ lock' = None
  /\ UNCHANGED <<depth, gen, hw, curGain, epoch, sums, label>> /\ Aside

\* after_retune, and the first half of receiver_resume.
NewEpoch ==
  /\ Doing("epoch") /\ control' = control + 1
  /\ UNCHANGED <<phy, hw, curGain, gainEpoch, settled, paused, sums, label>> /\ Aside

Zero ==
  /\ Doing("zero") /\ sums' = [g \in Gains |-> {}]
  /\ UNCHANGED <<phy, hw, curGain, epoch, label>> /\ Aside

\* receiver_pause: 20 ms let the window in flight finish.  A receiver that is
\* paused already refuses the scan.
Pause ==
  /\ todo # <<>> /\ Head(todo) = "pause"
  /\ paused' = TRUE /\ todo' = IF paused THEN <<>> ELSE Tail(todo)
  /\ UNCHANGED <<phy, hw, curGain, control, gainEpoch, settled, sums, label>> /\ Aside

Delay ==
  /\ Doing("delay") /\ obs.pc = "wait"
  /\ UNCHANGED <<phy, hw, curGain, epoch, sums, label>> /\ Aside

\* Mutant: the way out of a scan that found nothing forgets to resume.
ResumeForgotten ==
  /\ Doing("resume")
  /\ UNCHANGED <<phy, hw, curGain, epoch, sums, label>> /\ Aside

Resume ==
  /\ Doing("resume") /\ paused' = FALSE
  /\ UNCHANGED <<phy, hw, curGain, control, gainEpoch, settled, sums, label>> /\ Aside

Control == Begin \/ LeaseOrSkip \/ Nest \/ Retuned \/ Forced \/ End \/ Adopt \/ Age
           \/ Release \/ NewEpoch \/ Zero \/ Pause \/ Delay \/ Resume

(***************************************************************************)
(* The calibration task (priority 1): dco_service, then servo_service.     *)
(***************************************************************************)
ObserverBlocked == obs.pc \in {"wait", "lock"}
ControlBlocked == todo # <<>> => Head(todo) \in {"delay"} \cup (IF lock # None THEN {"begin"} ELSE {})
CalRuns == ObserverBlocked /\ ControlBlocked

QuietOwner == ~paused /\ depth = 0
CalIdle == [pc |-> "idle", row |-> MaxGain, mean |-> {}]
CalGoto(pc) == cal' = [cal EXCEPT !.pc = pc]
Elsewhere == UNCHANGED <<level, curGain, mail, obs, core, todo, budget>>

\* dco_select: another channel's table releases the hold and drops every trim
\* and every sum.
Select ==
  /\ CalRuns /\ cal.pc = "idle" /\ QuietOwner /\ lock = None
  /\ IF serving = tune.chan THEN UNCHANGED <<code, dc>>
     ELSE /\ serving' = tune.chan /\ code' = Chip
          /\ trim' = [g \in Gains |-> 0]
          /\ sums' = [g \in Gains |-> {}] /\ UNCHANGED <<label, dcFault>>
  /\ CalGoto("hold")
  /\ UNCHANGED <<phy, tune, hwGain, epoch>> /\ Elsewhere

\* Nothing held, and the core not settling: the codes of the gain in force are
\* held again (dco_service's last branch).
Hold ==
  /\ CalRuns /\ cal.pc = "hold" /\ lock = None
  /\ code' = IF code = Chip /\ settled /\ HoldsCodes THEN HeldCode(curGain) ELSE code
  /\ CalGoto("take")
  /\ UNCHANGED <<phy, tune, hwGain, epoch, dc>> /\ Elsewhere

\* servo_service takes the mean of one row that has one; after a fault it does
\* nothing any more.
Take ==
  /\ CalRuns /\ cal.pc = "take"
  /\ IF QuietOwner /\ serving = tune.chan /\ ~dcFault
     THEN \E g \in Gains :
            /\ sums' = [sums EXCEPT ![g] = {}]
            /\ cal' = IF sums[g] = {} THEN CalIdle
                        ELSE [pc |-> "step", row |-> g, mean |-> sums[g]]
     ELSE cal' = CalIdle /\ UNCHANGED sums
  /\ UNCHANGED <<phy, hw, epoch, label, serving, trim, dcFault>> /\ Elsewhere

\* A row in its deadband needs no step.
NoStep ==
  /\ CalRuns /\ cal.pc = "step"
  /\ cal' = CalIdle
  /\ UNCHANGED <<phy, hw, epoch, dc>> /\ Elsewhere

\* The active, held row is written under a lease of the generation just read,
\* any other at its next gain write.
ActiveRow == cal.row = curGain /\ code # Chip

StepLease ==
  /\ CalRuns /\ cal.pc = "step" /\ budget.trim < MaxTrims
  /\ IF ~ActiveRow THEN CalGoto("book") /\ UNCHANGED lock
     ELSE IF lock # None \/ depth # 0 THEN cal' = CalIdle /\ UNCHANGED lock
     ELSE CalGoto("write") /\ lock' = "calib"
  /\ UNCHANGED <<depth, gen, hw, epoch, dc>> /\ Elsewhere

\* servo_write_active: up to four trials of phy_dco_try_pair.  Each failed one
\* puts the codes it found back, or fails at that too.  With any trial applied
\* the step counts, whatever became of the last (dc_trim_invalidate); with none
\* it is skipped, and a failed restore is a fault.
Stepped == IF code = Torn THEN Torn ELSE [HeldCode(cal.row) EXCEPT !.step = @ + 1]

StepWrite ==
  /\ CalRuns /\ cal.pc = "write"
  /\ lock' = None
  /\ \/ /\ code' \in {Stepped, Torn}
        /\ settled' = FALSE /\ gainEpoch' = gainEpoch + 1
        /\ CalGoto("book") /\ UNCHANGED budget
     \/ /\ \/ UNCHANGED code /\ cal' = CalIdle
           \/ code' = Torn /\ CalGoto("fault")
        /\ budget' = [budget EXCEPT !.trim = @ + 1]
        /\ UNCHANGED <<settled, gainEpoch>>
  /\ UNCHANGED <<depth, gen, tune, hwGain, level, curGain, control, paused, mail, obs, core, dc, todo>>

\* The fault pauses the receiver for good; a scan that holds it paused already
\* is not told, and resumes it.
StepFault ==
  /\ CalRuns /\ cal.pc = "fault"
  /\ dcFault' = TRUE /\ paused' = TRUE
  /\ cal' = CalIdle
  /\ UNCHANGED <<phy, hw, control, gainEpoch, settled, sums, label, serving, trim>> /\ Elsewhere

\* The step is booked, and the sums of the codes it left are dropped.
StepBook ==
  /\ CalRuns /\ cal.pc = "book"
  /\ trim' = [trim EXCEPT ![cal.row] = @ + 1]
  /\ sums' = [sums EXCEPT ![cal.row] = {}]
  /\ cal' = CalIdle
  /\ budget' = [budget EXCEPT !.trim = @ + 1]
  /\ UNCHANGED <<phy, hw, level, curGain, epoch, mail, obs, core, label, serving, dcFault, todo>>

Calibrate == Select \/ Hold \/ Take \/ NoStep \/ StepLease \/ StepWrite \/ StepFault \/ StepBook

(***************************************************************************)
(* The receiver and time.                                                  *)
(***************************************************************************)
Fade ==
  /\ budget.fade < MaxFades
  /\ \E g \in Levels \ {level} : level' = g
  /\ budget' = [budget EXCEPT !.fade = @ + 1]
  /\ UNCHANGED <<phy, hw, curGain, epoch, mail, obs, core, dc, todo, cal>>

Settle ==
  /\ ~settled /\ settled' = TRUE
  /\ UNCHANGED <<phy, hw, level, curGain, control, gainEpoch, paused, mail, obs, core, dc, todo, cal, budget>>

Next == Observe \/ Sentinel \/ Start \/ Control \/ Calibrate \/ Fade \/ Settle

\* A task that can run runs.  The calibration task is preempted again and
\* again, and gets its turn because the observer really blocks every 800 us
\* (receiver.c:828-835).
Fairness == WF_vars(Observe) /\ WF_vars(Control) /\ SF_vars(Calibrate) /\ WF_vars(Settle)
Spec == Init /\ [][Next]_vars /\ Fairness

-----------------------------------------------------------------------------
Tunes == [chan : Channels, offset : 0 .. 1, mode : 0 .. 1]
Codes == {Chip, Torn} \cup [row : Gains, step : 0 .. MaxTrims]

TypeOK ==
  /\ lock \in {None, "control", "calib"} /\ depth \in 0 .. 1
  /\ depth = 1 => lock = "control"
  /\ tune \in Tunes /\ serving \in Channels /\ code \in Codes
  /\ {hwGain, curGain, level, core.gain, obs.target, cal.row} \subseteq Gains
  /\ core.learned \subseteq Tunes /\ dcFault \in BOOLEAN
  /\ trim \in [Gains -> 0 .. MaxTrims]
  /\ sums \in [Gains -> SUBSET [tune : Tunes, code : Codes]]

\* A write of the observer is decided on a window that was received on the
\* present tuning, at the gain it replaces, and never inside a transaction of
\* another owner (receiver.c:337-346).
WritesAreCurrent ==
  [][Write => obs.win.tune = tune /\ obs.win.gain = hwGain /\ depth = 0]_vars

\* Between two operations on the gain the software's idea of it is the gain
\* in force, whichever task wrote last (receiver.c:294-303, 352-363), and at
\* rest the core is at it too, unless a scan has forced another since; left
\* ahead, every wake would reset the whole core (receiver.c:311-313).  Below
\* Floor it is left ahead all the same, by the reset itself (gain.c:468), and
\* never anywhere else than at Floor.
CoreFollows ==
  /\ (\A i \in DOMAIN todo : todo[i] \notin {"adoptScan", "adoptMax"}) => curGain = hwGain
  /\ obs.pc = "wait" /\ ~paused /\ obs.seen.control = control =>
       core.gain = curGain \/ (curGain < Floor /\ core.gain = Floor)

\* What is learned never mixes two contexts: everything in the gain map was
\* received in the context it is labelled with, so that an exported map never
\* carries another's (receiver.c:198-201), and a row's DC mean is of windows of
\* one tuning (receiver.c:697-702).
MapOneContext == \A t \in core.learned : Context(t) = core.ctx
SumsOneContext == \A g \in Gains : \A a, b \in sums[g] : a.tune = b.tune
LearnsOneContext == MapOneContext /\ SumsOneContext

\* An overload that was forwarded is acted on or dropped: the mailbox is never
\* held by a paused receiver (receiver.c:841-846).
MailboxServed == []<>(mail = Empty)

\* Whatever was refused, forced, lifted or stale on the way, the gain in the end
\* is the one the signal calls for, unless the servo could not restore the DC
\* codes: that fault holds the receiver paused and the gain where it is, for
\* good (calibration_dc.c:1205-1212).
GainFollows == <>[](hwGain = level \/ (dcFault /\ paused))

\* A row is stepped on "a fresh mean measured after that row's last step (same
\* codes and context)" (dc_servo.h:109-110).
MeanOfTheseCodes == cal.pc = "write" => \A w \in cal.mean : w.code = code
=============================================================================
