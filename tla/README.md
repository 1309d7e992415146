# Formal models of the C5VRX receiver firmware

C5VRX turns an ESP32-C5 into an analog FPV video receiver. RX DMA fills a 32 KiB
ring of IQ samples for ever, the BitScrambler decodes it with a program and a
lookup table, and TX DMA sends the result to a resistor DAC: once live, video
needs no CPU. The firmware in `main/` is what starts, stops, observes and adjusts
this path, on one core, in a handful of FreeRTOS tasks that share static flags
and almost no lock. The models here are about that firmware. Paths below are
relative to `src/main/` unless they begin with `docs/`, `test/` or `legacy/`.

1. [Inventory](#1-inventory)
2. [Plan](#2-plan)
3. [Modules and the code](#3-modules-and-the-code)
4. [Runs, bounds and fairness](#4-runs-bounds-and-fairness)
5. [Proofs](#5-proofs)
6. [Where the code and its documents disagree](#6-where-the-code-and-its-documents-disagree)
7. [What is not covered](#7-what-is-not-covered)

## 1. Inventory

### Tasks

| task | priority | what it does |
| --- | --- | --- |
| `app_main` | 1 | loads settings, starts the transport, shows the boot logo, starts the others, ends |
| calibration (`calibration.c`) | 1 | boot phase check, manual calibrations with status screens, DC servo, bench tests |
| flight log (`flightlog.c`) | 1 | every 250 ms: one snapshot, one flush |
| console (`console.c`) | 2 | reads USB keys, queues most of them for control, handles F, B, W, X itself |
| control (`control.c`) | 3 | every 50 ms: queued keys, button, menu, AFC, profile switches |
| gain observer (`receiver.c`) | 3 | reads windows of the ring, steps the gain |
| sentinel (`receiver.c`) | 4 | short windows, reacts to overload |

### Components

**Live transport** (`transport.c`, `transport_recovery.h`, `transport_guard.h`,
`transport_lut.h`). *State*: which of TX, BitScrambler and RX is enabled, live or
not, latched fault, the selection (decoder, level), the verified configuration
and its LUT, the node count observers use, the 5 s restart guard.
*Operations*: start, select decoder or level, restart, stop TX, start and stop a
raster chain, resume. *Hard*: every stage of a restart may fail, a load may
report success and drop writes, the rollback may fail too, a teardown may refuse.
*Correct when*: live video always runs a verified image, the selection shown is
what runs, nothing is started on top of a part that would not stop, a latched
fault is final, flash never names a level that was not verified, every restart
ends.

**Menu raster and status screens** (`menu.c`, `menu_raster.c`, `menu_ui.c`).
*State*: one flag for the raster, one for the boot logo, one for a status screen,
the descriptor chain. *Operations*: open, close, logo begin and end, screen begin
and end, change of standard. *Hard*: three tasks call them, nothing is locked,
each call sleeps for 150 ms and more. *Correct when*: the flags settle on what TX
really carries, a screen always ends, a chain is freed only when DMA has left it.

**Receiver pause and calibration requests** (`receiver.c`, `calibration.c`,
`calibration_sphase.c`, `profile.c`). *State*: pause flag, scan flag, startup
flag, requests, active profile. *Operations*: boot phase check, startup phase with
its sweeps, scan, profile change. *Hard*: test-and-set without a lock, a refusal
half way through a calibration, the menu overtaking it. *Correct when*: every
calibration ends and gives back the receiver and the picture.

**Calibration bench** (`calibration_bench.c`). The self-noise test takes TX away
from live video and puts it back, four times, in the calibration task.

**Flight log** (`flightlog.c`, `flightlog_format.h`). *State*: RAM queue, a ring of
255 flash blocks, a ring of 64 snapshot slots, sequence and session numbers that
exist only in flash between boots. *Operations*: record, snapshot request, flush,
snapshot, dump, erase, start. *Hard*: the battery is pulled at any instruction,
flash operations fail, producers run during the flush. *Correct when*: records
come back in order and once, the newest survive, important snapshots outlive
routine ones, numbers are never used twice.

**Observer copies** (`control_window.h`, `snapshot.h`, `copy_*` in `transport.c`).
*State*: none but the ring. *Hard*: RX DMA cannot be stopped, the reader can be
preempted anywhere, only the active descriptor is visible, and a full lap looks
like no move at all. *Correct when*: an accepted copy is whole and a quick copy is
accepted.

**Gain observer and digital gain** (`receiver.c`, `gain.c`, `agc.c`). *State*: the
gain in force and the core's idea of it, epochs of control and of gain writes, the
context everything learned belongs to, the sums of DC per row, a one-place mailbox
for overloads, a pause flag; in the core the peak memory, the row that folded, the
row released into and a learned headroom per row. *Operations*: copy a window,
judge it, write a gain; forward an overload; adopt what another task forced; reset.
*Hard*: the window is old when it is judged, the write waits for the actuator, any
other task may have moved the tuning meanwhile; a write may be refused after the
core has moved. *Correct when*: a gain is written only on evidence of the present
tuning and gain, nothing learned mixes two contexts, core and hardware agree, the
gain follows the signal and neither hunts nor rises into a null.

**PHY ownership** (`phy.c`). *State*: owner, depth, generation, DC codes held.
*Operations*: begin and end a transaction, lease the actuator, hold, trim and
release codes. *Correct when*: nobody writes inside another owner's transaction and
everybody who judged something before can see that it happened.

**AFC** (`afc_ctrl.h`, the loop in `control.c`). *State*: estimates, offset, sign and
whether it was judged, a step whose effect is awaited, budget, lock. *Hard*: the
sign of a correction is unknown, retunes, restores and scans come between a step
and the estimate that judges it. *Correct when*: estimates are of the present
tuning, a lock means centred, steps converge, the carrier ends centred.

**Analog profile selection** (`profile.c`, `profile_logic.h`). *State*: active
profile, the operator's choice, a pending switch, the running measurement, a stored
deviation per channel. *Operations*: measure, decide, switch live, commit, cycle,
channel change; the startup phase of a calibration leaves and re-enters all of it.
*Hard*: a switch changes filter, live video and profile one after the other, each
may fail; control and calibration measure through the same variables. *Correct
when*: the filter is the profile's, what is measured on a channel stays there, AUTO
ends in the profile of the VTX received.

**DC servo and calibration data** (`dc_servo.h`, `dc_live.h`, `dc_trim.h`,
`dco_slots.h`, `dco_preset.h`, `calibration_dc.c`, `calibration_filter.c`). *State*: a
learned slope, per row a bracket, a last step and a run of bad steps; live trims.
*Hard*: the mean of a folded row is small and wrong, noise hides the side.
*Correct when*: nothing is learned from a fold, a held crossing holds the zero, a
row left alone settles.

**RF front end** (`rf.c`, `rx_level.h`, `rx_state.h`, `arc_phy.c`): registers, seen by
the models as what moves tuning, gain and codes. **Settings** (`settings.c`), **boot**
(`main.c`), **control task** (`control.c`), **diagnostics and console**,
**experimental overrides**, **picture and video measures**, and `legacy/`, the
firmware of four earlier products, which `main/` neither builds nor calls.

### Interactions

The control task and the calibration task call the transport, the menu and the
profile directly; the observer, the calibration and the control task meet at the
PHY lease, the pause flag and the epochs; the menu calls the transport to hand TX over; observers read the ring
through the transport's node table; everybody posts records and snapshot
requests to the flight log; the flight log's task reads the transport's verified
identity and copies a snapshot out of the ring. Between boots only NVS
(settings, calibration) and the flight log partition remain.

The behaviours that are hard to test are listed line by line under `hazards` in
`PROJECT.json`, each with the properties below that would catch it.

## 2. Plan

Most important behaviour first; each module says at its head what it leaves out.

| | modules | why in this order |
| --- | --- | --- |
| 1 | `Transport`, `LiveVideo`, `TransportBench`, `TransportProof` | a wrong picture, or none, in a pilot's goggles |
| 2 | `FlightLog`, `FlightLogProof` | what must survive a pulled battery |
| 3 | `Ownership`, `OwnershipProof` | the flags three tasks share around the transport |
| 4 | `RingCopy`, `RingCopyProof` | the validity rule of every observation |
| 5 | `Observer`, `ObserverProof` | receiver, PHY lease and calibration together: evidence and the writes that rest on it |
| 6 | `Keel`, `LoopsProof` | the gain decisions themselves |
| 7 | `Afc`, `LoopsProof` | the frequency loop |
| 8 | `Profile`, `ProfileProof` | the receive profile, by control and calibration |
| 9 | `DcServo`, `DcServoProof` | the live DC search |

`TransportBench` composes the transport with the bench; `Observer` composes the
receiver, the PHY ownership, a control operation and the calibration's servo.
`Ownership` takes from `Transport` that a restart ends, `Profile` takes from
`Transport` that a verified restart either runs or rolls back and from `Ownership`
that screens get TX, `Observer` takes from `RingCopy` that an accepted window is
whole.

Left for later, in this order: `RingCopy`'s rule inside `Observer` instead of whole
windows; the table slots of `dco_slots.h`; the LEVEL and RSSI modes of `agc.c`; gain-map
learning and its blob.

## 3. Modules and the code

### Transport.tla

One transport, driven by one call at a time (`op`, `pc`): the code's calls come
from boot, the control task and the task that closes a screen, and a call runs to
its end before the next begins; `Ownership` is about the flags that are to keep it
so. The call's program counter walks through the code's steps: `StopParts` and
`AfterTeardown` are `tr_stop_parts` and the test after it, `MarkOff` the rest of
`quiesce`, one action for each stage of `restart_stage`, `Fail` the choice of
`tr_restart` between rollback and cleanup, then `GoLive`, `Publish` and
`SaveOutput` as separate steps because a power cut can fall between them. Stages
fail nondeterministically; a load may also succeed and leave the wrong words
behind, which only `InstructionVerify` and `LutVerify` notice. A configuration is
a decoder and a level; an image is the configuration it was built for, or
damaged. Flash may refuse a store. `Tick` is the clock of the restart guard.

`LiveVideo.tla` is the abstract promise: a picture shows a configuration,
switching interrupts it, the new configuration or the previous one comes back,
or the picture is latched off until power off; flash remembers only a level that
was shown. `Transport` maps to it by `LV`, in which the rollback copy, the parts
and the program counter have disappeared.

`TransportBench.tla` adds the self-noise test of `calibration_bench.c`, which calls
`transport_stop_tx` and `transport_resume_live` from another task between the
calls of the menu.

### FlightLog.tla, MCFlightLog.tla

Flash is an array of blocks and of slots; a record is a unit, tagged with its boot
and its number so that order and loss can be told. `pc` is the step of the task
that holds the flash lock: every erase, head write, data write, CRC write is an
action of its own, each may fail (`Fault`), and `PowerCut` may come between any
two, during a head write leaving a partial head if `TornHead`, during a data write
leaving a record that cannot be read. Producers (`Record`, `SnapRequest`) run
between any two steps. `Start` is the boot scan: `Resume` and `NextSnap` read only
what flash holds. `EraseFlash` may fail half way (`stale`). `MCFlightLog` stresses
either records or snapshots in one behaviour; the two share lock, queue, session
and erase, which both kinds of behaviour exercise.

### Ownership.tla

Three tasks with a program counter each (`at`) and a return address for the shared
procedures of `menu.c`, `transport.c` and `receiver.c` (`back`). A step ends
wherever the code may lose the core to a task that touches the same flags: each
flag is written in a step of its own, so a check and the write that follows it can
be separated. Control has the higher priority on the only core: the others run
only when it sleeps (`Sleeping`, `Runs`). Restarts succeed here; `Transport` has
their failures.

*Time.* Some overlaps depend on how long delays are. `outlast[t]` holds the calls
that must end before the delay of `t` does: a delay of a second or more outlasts
any call in progress, and the 150 ms gap of the menu outlasts what another task
does without a gap and a gap that was already running. No other timing is
assumed. `HastyCommands` says whether commands may come during the boot logo and
in immediate succession; without it a command waits until the calls in progress
have ended, as an operator's fingers do.

### RingCopy.tla, MCRingCopy.tla

RX writes one unit of the ring per step and is never held back, so the number of
its steps is the time (`Rate` units per microsecond, truncated as
`esp_timer_get_time` truncates). The reader takes the time, looks at the active
descriptor, chooses a source (`ControlPlan`, `SnapshotPlan`), copies it unit by
unit, looks again and judges (`ControlCurrent`, `SnapshotCurrent`). The order of
the second look and the second time differs between the four copies and is kept
(`StampFirst`). `torn` records whether a unit had been overwritten when it was
copied; the reader cannot see it.

The geometry is free: any descriptors that lie one after another. Two assumptions
tie the numbers of a board to it, and TLC evaluates them for the run's. The tenth
the snapshot keeps in reserve must be worth the microsecond its clock may not have
counted, and a copy of `Prompt` microseconds must end, its last one counted whole,
before RX comes to its source. The board's eight descriptors of 4092 bytes and one
of 32, 40 bytes per microsecond, a snapshot of 8190 bytes and a copy of 234 us
satisfy both.

### Observer.tla

The observer (`obs`, a program counter and its locals), the sentinel, the control
task with one operation at a time (`todo`, the steps it has left) and the
calibration task (`cal`), around `lock`, `depth` and `gen` of `phy.c`. Observer and
control share a priority and interleave anywhere; the sentinel is one step;
calibration moves while the others are blocked. A window carries the tuning, the
gain and the DC codes it was received with, as history that no guard reads; what
the code has instead are the generation and the epochs it noted, and the
properties compare the two. `Observe` is a pass of the observer's loop in its steps
(`Bind`, `Copy`, `Check`, `Accumulate`, `Decide`, `Lease`, `Write`, and `Refused` at each
of them); an operation of control is a `Script` of primitive steps (take the lease,
begin, move, force, end, adopt, new epoch) in the order of `rf.c` and `control.c`.
`Bound` is `dg_reset_context`, which starts the core no lower than row 20 (`Clamped`,
`gain.c:468`): from a lower row the core is then ahead of the hardware, every wake
binds again, and the next window that counts may write row 20 (`Targets`).
`StepWrite` is the live step of the DC servo with its failures: nothing applied, a
step booked although its last trial could not be undone (`Torn`), or a failed restore
with nothing applied, which sets `dcFault` and pauses the receiver (`StepFault`). Left out:
what a table holds, the intermediate channels of a scan, transfers, the gain modes
other than digital.

### Keel.tla, MCKeel.tla

`dg_tick` of `gain.c`: one `Window` is one call with the peak level of a window, in
quarter dB over the target, `Pass` is a unit of time (`DG7_SAT_US`). The peak memory
is a function of age, and the row that folded, the row released into and the
headroom are variables of their own. The table the receiver really has (`real`) may
be steeper than the one the code believes (`Model`): that is what headroom is for.
`Gap`, `Rebind`, `Retune` and a refused write are the upsets of the observer. `row` is the row
in force and `own` the one the core takes itself to be at: they differ after a reset
below `Floor`, which lifts the core (`Restarted`, `gain.c:468`), until the next window
writes. Left out:
clipping of one rail alone, the fields of earlier cores that nothing reads.

### Afc.tla, MCAfc.tla

`afc_ctrl.h` whole, as `control_task` drives it: a step is a tick of 50 ms. A context
(channel, offset, epoch, generations) is in the code a comparison with what was seen
last, so the model keeps whether it moved. The carrier and the effect of an offset
(`OffsetSign`) are external, an estimate is the residual with bounded noise;
frequencies are in units of 25 kHz. The insertion sort of the median is left out:
`Ranked` is the element it puts at a place, the k-th smallest.

### Profile.tla, MCProfile.tla

The decisions of `profile_logic.h`, the live switch of `profile.c` in the two steps
control sleeps between (`Begins`, `Restarted`), the startup phase of `calibration.c`
as the places of `cal`, the operator's commands. A batch of 32 windows is one step;
`filter` is the class that the filter in `rf.c` belongs to. `Mishaps` names what may
go wrong besides the order of steps. "gap" is a command that falls between a test of
the calibration and what rests on the test; with it several properties fail, in the
ways section 6 lists, so the run and the theorems are stated without it.

### DcServo.tla, MCDcServo.tla

`dc_servo.h` for one axis and the loop of `calibration_dc.c` that feeds it; a step is
one decision on one fresh mean, in the order of the code: what the last step taught,
on which side the zero is, the next step. The receiver is external: the DC of a row
is what it is at the stored code (`Stored`, `stored`) plus slope times trim, so that
zero lies on a code or, as a rule, between two; its mean folds, its share of
negative samples saturates. All limits are those of the code. Rows share the
learned slope: `misled` is history and names the rows in whose search another row
turned its polarity.

`PROJECT.json` maps every definition to the lines it stands for.

## 4. Runs, bounds and fairness

| run | states | question |
| --- | --- | --- |
| `transport` | 139,404 | does live video stay verified, complete, alone on TX, remembered correctly; does every restart end; is `LiveVideo` implemented |
| `bench` | 172,700 | does the self-noise test, run between the other calls, leave live video verified and on |
| `flight_log` | 650,233 | do the two flash rings keep order, number and the newest and the most important data through failures, erases and power cuts |
| `ownership` | 104,388 | do the shared flags settle on what TX carries; do screens and calibrations end |
| `ring_copy` | 1,642,522 | is an accepted copy whole and a quick one accepted, for every preemption of the reader |
| `observer` | 1,007,428 | is every gain write and everything learned from the present context; do core, hardware, mailbox and signal come together again |
| `keel` | 153,464 | does the gain settle, without hunting through a steep table, without rising in a null, without retaking a folded row |
| `afc` | 89,635 | are estimates, lock and steps of the present tuning and sign; is the carrier centred in the end |
| `profile` | 741,718 | does the filter match the profile, does a deviation stay with its channel, does AUTO end in the right profile |
| `servo` | 180,815 | is nothing learned from a fold, does a bracket hold the zero, does a row settle |

The runs `flight_log_torn` and `keel_nulls` show one disagreement each (section 6).

**Transport.** Two decoders and two levels: enough for a selection to differ from
the verified configuration in one or in both parts, and for a second selection
while the first has failed. Failures, restarts and power cycles are not bounded:
the state space is finite without. The guard counts the cooldown in `Gap` ticks
(two; one in `bench`, where also flash accepts every store).

**FlightLog.** Three blocks of two records: the smallest ring in which "the block
after the newest" differs from "the block before it" and in which a wrap happens
within the five records made. Two slots and two priorities: a full ring of equal,
of lesser and of mixed snapshots. One fault, one erase and two boots in any order.
`Erased` (the word erased flash reads as, 2^32-1) is 31: counters wrap as words do,
but never in a run without torn heads.

**Ownership.** Three commands and one calibration: two commands are needed for a
close and an open around one gap, the third lets a scan or a channel change
overlap both. Profiles are default and one other.

**RingCopy.** Four descriptors of three units and a tail of one, where the board
has eight of 4092 bytes and a tail of 32: the tail is too short to be a source and
a snapshot is longer than a descriptor, as there. RX may write 30 units during a
copy, more than two laps, so a reader can find the active descriptor where it was
after one lap or two.

**Observer.** Four gains: the top row, the scan's, the one a reset lifts the core to
and one below it, of which the signal calls for the highest or the lowest; two
channels, one operation of control (retune, AFC step, digital filter or scan), one
change of signal, one step of the servo, failed or not, and one overload, in any
order and at any step of the observer: one of each is enough to fall into every gap
between a note of the epochs and the use of it, and to have a write refused while
another context is being set up. The safety properties hold for any number
(section 5).

**Keel.** Four home rows and two below them, the second home row being the one a reset
lifts the core to, so that rows below it, a home row among them, fold and are
reset; the step into the top row 2.5 dB larger
than believed, as much as one learned step of headroom covers (`Believable`); signals that are gone, at the edge of that step, strong, and
saturating. The memories keep the order of the code's times (hold < heat window <
fold memory < decay) at 3, 4, 5 and 8 units; two upsets.

**Afc.** Two channels, off by -300 and +550 kHz: one within a burst of corrections,
one beyond it so that the budget must be rearmed. Three samples where the code takes
16, so that one outlier is outvoted, one miss, two events (retune, scan, screen, restore, toggle) and one window
that shows no video or may not step; the sign is right or wrong from the start.

**Profile.** Three transmitters on one channel, two of them on both sides of the
narrow limit and within the 5 % that counts as agreement, and one on another; two
batches, two results that agree, two commands, one other transmitter or lost lock,
one fault (filter, restart or a cycle without windows).

**DcServo.** One row (rows share only the slope; the theorems are for any number),
both polarities and two sizes of the slope, a DC at the stored code that is from 3
to 150 codes off, on a code and between two, noise that saturates the share of signs
within two codes and noise that does not, two upsets.

**Deadlock** is checked in every run. Where the system may rest (`Ownership`) an
explicit stutter says so.

**Fairness.** `transport`: weak fairness of the step of the call in progress. Every
loop of a restart is bounded by the code (a deadline in each hardware wait), so a
call always takes its next step; nothing is assumed about which stages succeed.
`ownership`: weak fairness of each task. Every delay of these tasks is a
`vTaskDelay` or a bounded wait, and control, the only task with a higher priority,
sleeps 50 ms in every round of its loop. No fairness is assumed of commands.
`observer`: weak fairness of the observer, of control and of the 2 ms after a gain
write; strong fairness of the calibration task, which is preempted again and again
but gets its turn because the observer really blocks every 800 us
(`receiver.c:828-835`). `keel`: windows keep being judged and time passes.
`afc`: the loop ticks every 50 ms, a scan or a screen ends. `servo`: each row is
visited again. `profile`: control and calibration take their next step, the restart
guard runs out, a menu left alone closes after half a minute. No fairness is assumed
of the operator, of transmitters, of fades or of faults.
`bench`, `flight_log` and `ring_copy` check safety only.

## 5. Proofs

Everything in the proof modules is checked by TLAPS for all values of the constants;
the assumptions are the named `ASSUME`s of the module that declares the constants,
evaluated by TLC in its runs. Bounds such as `MaxOps` are constants too: a theorem
holds for any number of commands, fades or faults. A further hypothesis stands in
the statement of its theorem.

| module | proves about | theorems |
| --- | --- | --- |
| `TransportProof` | `Transport`, `MCTransport`, `TransportBench` | `TypeCorrect`, `LiveVerified`, `SelectionLive`, `NeverOnTop`, `LiveComplete`, `FaultFinal`, `OutputSaved`, `Refinement`, `RestartsSpaced`, `SelfNoiseRestores` |
| `FlightLogProof` | `FlightLog` | `TypeCorrect`, `SnapshotNumbers`, `SnapshotsOutlive`, `RecordsInOrder`, `OldestGoesFirst`, `RecordsKept` |
| `ObserverProof` | `Observer` | `TypeCorrect`, `CurrentWrites`, `LearnsPure`, `CoreKeepsUp` |
| `RingCopyProof` | `RingCopy` | `TypeCorrect`, `AcceptedWhole`, `PromptAccepted` |
| `OwnershipProof` | `Ownership` | `TypeCorrect`, `HeldByNobody`, `PictureSettled` |
| `LoopsProof` | `Keel`, `Afc` | `TypeCorrect`, `NoReturn`, `NullsStayDown`, `FoldsRare`; `AfcTypes`, `FreshEvidence`, `LocksCentred`, `StepsCloser` |
| `ProfileProof` | `Profile` | `TypeCorrect`, `FilterMatches`, `LocalDeviations` |
| `DcServoProof` | `DcServo` | `TypeCorrect`, `LearnedTruly`, `BracketsHold` |

None of the invariants is inductive as it stands. What each needs besides:

**Transport**, for any non-empty set of decoders and levels and any cooldown. `IInv`
says what holds at each program counter: which parts are enabled after each stage of
an attempt, what the hardware holds once it has been loaded and once it has been
verified, that the working configuration is the rollback copy during a rollback, and
that a latched call enables nothing. `LiveIsVerified` needs the conjunct about the
loaded image between its load and the publication; `NoProducerOnTop` the one about
parts and stages; `SelectionIsLive` the one that ties the selection to the
configuration under test. The action properties `FaultFinal` and `OutputSaved` follow
from the same invariant. `Refinement` proves `Spec => LV!Spec`: the initial states map
to `LiveVideo`'s, and each action maps to one of its actions or to a stutter.
`RestartsSpaced`: outside a caller's tail, the ticks counted since a restart and those
left of the cooldown make up the gap (`QuietOK`). `SelfNoiseRestores`: video that is
neither live nor latched off is owed, by an open menu, by the test that holds TX, or
by a call that restores it (`LiveOwed`); the menu and the test may owe it at once.

**Flight log**, for any size of rings and queue, through failing operations, erases
and power cuts. The types need that snapshot numbers have a greatest one (`SlotBound`)
and that an open block holds what the code believes it holds (`OpenOK`).
`SnapshotNumbers` and `SnapshotsOutlive` rest on `SlotInv`: the table in RAM agrees with
flash except in the slot that is taken next, which a failed snapshot may have erased;
whatever trigger finds a victim finds that one (`NextVictim`); no number in flash has
yet to be given, but for that slot and those an erase left behind.
`RecordsInOrder`, `OldestGoesFirst` and `RecordsKept` add three things. `OrderInv`:
queue, batch and flash are each rising and each older than the one before. `HeadInv`:
the valid blocks form an arc that ends where the log writes, and sequence and session
numbers rise along it with the records; a boot that finds an arc goes on with one.
`KeepInv`: the numbers of queue and batch are the last ones given, without a gap, and
follow what is in flash. These three assume that no head is torn, as `flight_log` does
(with torn heads they are false: `flight_log_torn`), and that the counters have not
come to the word erased flash reads as (`NoWrap`): 2^32-1 blocks, or as many boots.

**Observer**, for any set of gains and channels. `CurrentWrites` and `LearnsPure` rest on
one idea: the tuning, the forced gain and the DC codes move only inside a transaction of
control or by an owner the observer can see, and the end of each bumps the
generation or an epoch. `IInv` says so at each place: `TransactionOK` that what is
left of a control script still ends in the bump, `GenOK` that nobody holds evidence of
a generation to come, `WinOK` that what the observer and the mailbox hold of the
present generation was received on the present tuning and gain, `LearnOK` and `SumOK`
that what was learned carries the tuning of its label. `CoreKeepsUp` follows a scan
through its sixteen steps: from its pause on the observer waits (`ScanOK`), its forced
gain is adopted before it ends (`GainOK`), and the new control epoch has the core
bound again before it judges anything (`CoreOK`), at the gain in force or where the
reset lifts it to (`AtGain`). A DC fault may pause the receiver at any time and only a
scan that began before it resumes it, so that none of this depends on who paused.

**Ring copies**, for any ring of descriptors in a row, any rate and lengths. Positions
are counted from the unit where the reader found RX; `RunInv` says how far RX has come,
modulo laps. `AcceptedWhole`: the units of a plan begin `safe` units after the active
descriptor, so that a torn unit means RX wrote more than those, however often it came
round (`NotYet`), and the clock, stopped afterwards, has counted them but for its last
microsecond (`WholeInv`). `PromptAccepted`: until then every descriptor the reader can
find lies between the first one and the source (`PromptInv`); it is stated for
geometries that leave a copy of `Prompt` microseconds its time.

**Ownership**, for any profiles and bounds. The types tie return addresses to places
(`CtlOK`). `HeldByNobody`: every raised flag is owed, by a task at a place, or in a call
that returns to a place, whose way on lowers it (`HeldInv`); a flag raised twice by two
tasks is owed by either. It holds with hasty commands too. `PictureSettled` does not (§6)
and assumes `HastyCommands = FALSE`, as the run does. Between two moments of rest TX is
owed by a task that restores live video or builds the raster (`PictureInv`); that no
other task undoes the work needs what each may be doing meanwhile (`Overlaps`, one
conjunct per pair of hazards): while the logo is up the others are away; a command comes
when the call of calibration under way at the last one has ended (`CtlWaits`);
calibration builds only where control has no menu to close, and control takes down no
screen that calibration puts up; who finds the menu flag lowered by the other waits a
second before it opens again (`LateCtl`, `LateCal`).

**Automatic gain**, for any table, signal and times in the order of the code. `NoReturn`:
what the code remembers of the last attack is what the history knows of it (`HistOK`),
through resets and refused writes, and a release never targets the remembered row;
what a write may still raise is a core that a reset lifted (`OwnOK`), and that goes to
`Floor` and no further.
`NullsStayDown`: as long as fewer than `Hold` units were calm, something bars a release:
the settling, a peak memory begun since, the pause after an attack, or the peak itself,
as far back in the memory as the calm is long (`Barred`). `FoldsRare`: the row released
into last folds only if it is the top row and still cold, and the fold then heats it
(`Expected`); a fade, a refused write or a reset can break that once each, and is counted
(`HeadInv`). The theorem assumes `Believable`: with errors beyond one learned step, or in
several rows, the headroom is learned over several folds and the bound is false (an error
of 5.75 dB breaks it in TLC). TLC evaluates `Believable` on the run's tables.

**AFC**, for any carriers, limits and bounded noise. `FreshEvidence` is
inductive with the types: each of a tick's stages either keeps the history, adds an
estimate of the present tuning, or drops it, and whatever moves the tuning sets `moved`.
`LocksCentred` and `StepsCloser` need what the median is worth: its rank lies where more
than half of the elements lie (`MedianWithin`), so that while fewer than half of the
estimates are astray it is within the noise of the true residual. Astray estimates
are hypotheses and not faults of the model: sync separated from noise or from
another station is what the median is there for. `LocksCentred` assumes they are
outvoted in the history (`Outvoted(0)`), `StepsCloser`, which clears the history it judged, that
one more would be (`Outvoted(1)`), and that the noise is at most half the deadband:
with more, a small offset can be overshot. The code's window of 16 outvotes seven. In
the run a window holds three, its noise is half the deadband and one estimate at most is
an outlier: the first hypothesis holds throughout, the second until the outlier.

**Profile**, for any channels, any transmitters whose deviation `profile_commit` takes,
any calibrated filters and numbers of batches. `FilterMatches`: the invariant adds what a
switch in its restart has already set (`SwitchOK`) and that a sweep runs under DEFAULT
(`SweepOK`). `LocalDeviations`: the batches held and the value the calibration carries
belong to the channel they will be stored for (`HeldOK`, `TaskOK`). The last two assume
that no command falls into a gap of the calibration; without that they are false.

**DC servo**, for any rows, slopes, stored codes, and noise whose sign share saturates
before the fold takes much off the mean (`NoiseAssumption`). `TypeCorrect`: each stage of a
decision keeps step, bracket, walk and code in their ranges, and a learned slope is
never zero. `LearnedTruly`: the last step noted was taken from the mean noted with it,
and counts only from within the linear zone (`TaughtInv`). `BracketsHold`: in a search
each step goes against the side of zero its share showed, is no longer than the one
before once it has crossed, and keeps its polarity (`SearchInv`); so a change of side
over one code is a crossing of zero, but for a turn of the polarity by another row,
which is why `BracketHoldsZero` leaves out the rows that were `misled`.

Only model-checked, because out of the prover's reach: the liveness properties
(`RestartSettles`, `StatusEnds`, `CalibrationEnds`, `MailboxServed`, `GainFollows`,
`Matches`, `EventuallyCentred` and the two `Settles`), which need fairness and `ENABLED`,
and any statement about what a fold or a recursion computes for every input (induction
over data).

## 6. Where the code and its documents disagree

Two are shown by a run, whose property quotes the document:

| run | what happens |
| --- | --- |
| `flight_log_torn` | a block head cut in mid-write can be taken for the newest, and every later boot restarts in that block (`flightlog_format.h:150`) |
| `keel_nulls` | after a gap in the windows the peak memory is empty but counts as full: the first window, in a null, raises the gain (`gain.c:845` against `gain.c:723-725`) |

The others were met while modelling. Those with a property in brackets can be shown
by checking it: it is defined in the module and false there.

Transport, menu and flight log:
- a decoder chosen in the menu is stored before it has run; if the restart on exit
  rolls back, flash keeps it (`control.c:150`; `DemodKeptIsLive`);
- `menu_close` frees the raster's descriptors although a failed TX disable leaves DMA
  on them (`menu.c:334`; `FreedChainUnused`);
- the self-noise test resumes live video under a menu opened meanwhile
  (`calibration_bench.c:60`; `RasterOwnsTx`);
- a snapshot of the first seconds of a boot can share its session number with the
  next boot (`flightlog.c:299`; `SnapshotSession`);
- a key during the boot logo closes its raster, and the boot phase check slips the
  clock on live video (`control.c:386`; `BootSlipBehindLogo`);
- two queued menu keys while another task closes the raster leave the raster on TX
  with the menu flag down (`menu.c:335`; `PictureSettles` with `HastyCommands`).

AFC, servo, gain:
- an AFC step of the last tick counts as the context change although a retune came
  between, so the sign check judges it by another channel; a wrong flip is also
  stored (`control.c:517`, `648-650` against `afc_ctrl.h:105-106`;
  `SignCheckOfThisChannel`);
- with little noise the DC search runs 16, 8, 16, 8 codes for ever
  (`dc_servo.h:214-218` against `test/test_dc_servo.c:264-266`; `SettlesAtAnyNoise`);
- a row whose last step was one code takes another row's turn of the shared polarity
  for a crossing of zero and holds it, however far off it is (`dc_servo.h:66-67`;
  `EveryBracketHoldsZero`, with two rows);
- where the slope has been put back to its default and the receiver's is larger, a
  search overshoots a zero between two codes for ever, with steps too small to learn
  from (`dc_servo.h:257-262` against "converges to the true zero", `dc_servo.h:21-22`;
  `ConvergesToZero`);
- sums taken on the chip's own DC codes during a pause are used by the servo after
  the codes are held again (`calibration_dc.c:979`, `363` against
  `dc_servo.h:109-110`; `MeanOfTheseCodes`);
- a reset never starts the core below row 20 although rows down to 2 are written and
  some are home rows (`gain.c:468` against `receiver.c:321`). Below 20, each bind leaves
  the core ahead of the hardware, which `receiver.c:311-313` says must not be: every
  wake binds again while windows are refused, and the next one that counts writes row
  20. A row 20 that folded to 19 is so taken back at once after an AFC step, against
  the attack memory of `gain.c:774-777`. `CoreFollows` and `NoQuickReturn` except this
  one lift and hold for everything else; without the exception TLC shows both false;
- a DC step whose last trial could not be undone counts as applied if an earlier trial
  was: `servo_write_active` then returns true, the fault it noted is dropped, and the
  trim is booked on codes the chip does not have (`calibration_dc.c:1076-1084`, `1205`).
  With nothing applied the receiver is paused for good, and `GainFollows` excepts that
  state; but a scan that holds the pause already resumes it at its end, and the gain
  moves on with the fault set (`calibration_dc.c:1207-1208`, `receiver.c:278`);
- a reset on the same receiver loses the settling state although `gain.c:424` says
  that state survives, and a refused release overwrites the row released into.

Profile:
- a commit stores the deviation for the channel tuned at the commit, not at the
  measurement; `profile_live_begin`, preempted by a retune, leaves no measurement
  running; a menu opened between the test of `calibration.c:183` and the first screen
  can choose a profile the sweep overwrites (the three are what "gap" stands for; a retune that
  changes the profile sleeps in its status screen, `profile.c:165-167`, and is one step
  in the model: a gap of the same kind);
- a FILTER cycled in the menu, and a commit that measured DEFAULT, leave an older
  pending switch behind (`profile.c:388` against `profile_logic.h:194-196`);
- a calibration never restores the operator's FILTER (against `profile.c:332`);
- a refused screen at `calibration.c:185` makes the change to DEFAULT fail, and a full
  sweep then leaves NORMAL under a matched profile (against `calibration.c:181-182`);
- "every boot starts AUTO" (`profile_logic.h:236`), but `main.c` restores the FILTER.

## 7. What is not covered

- The demodulator, its tables, picture and noise measures, the estimators of AFC and
  deviation: signal processing whose correctness is numeric and whose outcome
  reaches the models as a choice or with bounded noise.
- Register sequences inside a stage, cache maintenance, the drivers of ESP-IDF,
  NVS and the partition API: external, a step that succeeds or fails.
- Drawing, menus' cursor and submenus, console text, the records' encoding.
- The numeric searches of the sweeps (`calibration_dc.c`, `calibration_filter.c`,
  `calibration_sphase.c`), the table slots and presets (`dco_slots.h`,
  `dco_preset.h`): the models have the pauses, screens and codes around them.
- The LEVEL and RSSI modes of `agc.c`, gain-map learning and its blob.
- In the flight log: reads of the boot scan that fail; how often the logger wakes.
- In the transport: two calls at the same time. `Ownership` shows when the flags
  allow it; what two overlapping restarts do to the hardware is not modelled.
- `copy_recent_endpoints`: it has no validity rule to check.
- Experimental overrides of PHY limits: off in flight, each is a value the models
  hold at its default.
- `legacy/`: the complete firmware of four earlier products, most of the repository's
  lines. Nothing of it is built into or called by `main/`.
- `research/`, `tools/`, `web/`, `hardware/`, `docs/`: experiments, host tools and
  documents around the firmware.
