-------------------------------- MODULE Afc --------------------------------
(***************************************************************************)
(* The automatic frequency control: afc_ctrl.h as control_task drives it,  *)
(* one step per 50 ms tick.  Its estimates are the porch frequency of one  *)
(* window; a correction moves the synthesizer's offset, and since nobody   *)
(* knows in which direction, the next stable estimate judges the sign.     *)
(*                                                                         *)
(* A context (channel, offset, control epoch, table and PHY generation) is *)
(* the data of one counter in the code; the model keeps what comparing it  *)
(* tells: whether it moved since it was last looked at.  Frequencies are   *)
(* in units of 25 kHz, which all limits of afc_ctrl.h are rounded down to. *)
(***************************************************************************)
EXTENDS Integers, Sequences, FiniteSets

CONSTANTS
  Channels,         \* channels the control task may tune
  Carrier,          \* external: carrier of the VTX on each, from its centre
  OffsetSign,       \* external: +1 or -1, what raising the offset does
  PorchNoise,       \* external: error of an estimate
  Samples,          \* AFC2_CTRL_SAMPLES
  MaxMisses,        \* AFC2_CTRL_MAX_MISSES
  MaxMad,           \* AFC2_CTRL_MAX_MAD_KHZ
  Deadband,         \* AFC2_CTRL_DEADBAND_KHZ
  MaxStep,          \* AFC2_CTRL_MAX_STEP_KHZ
  MaxCorrections,   \* AFC2_CTRL_MAX_CORRECTIONS
  RearmWindows,     \* AFC2_CTRL_REARM_WINDOWS
  SignCheckMin,     \* AFC2_CTRL_SIGN_CHECK_KHZ
  LostWindows,      \* AFC2_NATIVE_LOST_WINDOWS
  OffsetMax,        \* RF_OFFSET_MAX_KHZ
  RetuneSettle,     \* RETUNE_SETTLE_TICKS
  MaxEvents,        \* bound: retunes, restores, toggles and holds
  MaxFaults         \* bound: windows that show no video or may not step

VARIABLES
  chan, offset,     \* rf.c: channel and s_offset_khz
  enabled, locked,  \* s_afc_enabled, s_afc_locked
  hold,             \* what keeps the loop out: "none", "scan" (s_scan_active) or "screen"
  original,         \* the tuning a calibration returns to
  unseen,           \* PHY generation or control epoch differ from seen_phy, seen_control
  moved,            \* the context differs from afc.context
  settle, ownWrite, lost,
  est,              \* afc.est: estimates, each with the tuning it was measured at
  misses, corrections, since,
  sign, judged,     \* sign; sign_state: "unverified", "confirmed" or "flipped"
  check,            \* the step whose effect is awaited, or NoCheck
  events, faults    \* history: events and faults so far

tuning  == <<chan, offset>>
control == <<enabled, locked, hold, original, unseen, moved, settle, ownWrite, lost>>
afc     == <<est, misses, corrections, since, sign, judged, check>>
afcVars == <<tuning, control, afc, events, faults>>

Abs(x) == IF x < 0 THEN -x ELSE x

ASSUME LimitsAssumption ==
  /\ Samples \in Nat \ {0}
  /\ {MaxMisses, MaxMad, Deadband, MaxStep, MaxCorrections, RearmWindows, SignCheckMin,
       LostWindows, OffsetMax, MaxEvents, MaxFaults} \subseteq Nat
  /\ RetuneSettle \in Nat /\ RetuneSettle >= 2
\* The carriers lie anywhere; the offset moves the receiver up or down by as much.
ASSUME CarrierAssumption == Carrier \in [Channels -> Int]
ASSUME SignAssumption == OffsetSign \in {1, -1}
\* The error of an estimate has a bound.
ASSUME NoiseAssumption == PorchNoise \subseteq Int /\ \E x \in PorchNoise : \A y \in PorchNoise : Abs(y) <= Abs(x)

\* The quotient of C: towards zero.
Half(x) == IF x < 0 THEN -((-x) \div 2) ELSE x \div 2

\* A step awaiting its judgement: the estimate before it, the step and the
\* channel it was made on.
NoCheck == [med |-> 0, step |-> 0, chan |-> CHOOSE c \in Channels : TRUE]

\* The distance of the carrier from the tuned frequency.
Residual(c, o) == Carrier[c] - OffsetSign * o
Residuals == Residual(chan, offset)
Centred(slack) == Abs(Residuals) <= Deadband + slack

NoiseMax == CHOOSE n \in {Abs(x) : x \in PorchNoise} : \A x \in PorchNoise : Abs(x) <= n

(***************************************************************************)
(* The history of estimates.                                               *)
(***************************************************************************)
\* The k-th smallest of a sequence.
Ranked(s, k) ==
  CHOOSE v \in {s[i] : i \in DOMAIN s} :
    /\ Cardinality({i \in DOMAIN s : s[i] < v}) < k
    /\ Cardinality({i \in DOMAIN s : s[i] <= v}) >= k

\* afc2_ctrl_median
Median(s) ==
  LET n == Len(s) IN
  IF n = 0 THEN 0
  ELSE IF n % 2 = 1 THEN Ranked(s, n \div 2 + 1)
  ELSE Half(Ranked(s, n \div 2) + Ranked(s, n \div 2 + 1))

Values(e) == [i \in DOMAIN e |-> e[i].v]
MedianOf(e) == Median(Values(e))

\* afc2_ctrl_stable: a full window whose median absolute deviation is small.
Stable(e) ==
  /\ Len(e) >= Samples
  /\ \E med \in {MedianOf(e)} : Median([i \in DOMAIN e |-> Abs(e[i].v - med)]) <= MaxMad

\* Mutant of CanLock: the window need not be full and stable.
CanLockUnstable(e) == Abs(MedianOf(e)) <= Deadband

\* afc2_ctrl_can_lock
CanLock(e) == Stable(e) /\ Abs(MedianOf(e)) <= Deadband

\* Mutant of Admit: the oldest estimate never leaves.
AdmitAll(e, x) == Append(e, x)

\* The estimate joins the window, the oldest leaves a full one.
Admit(e, x) == IF Len(e) < Samples THEN Append(e, x) ELSE Append(Tail(e), x)

\* afc2_ctrl_miss: too many windows without evidence in a row clear the rest.
Missed(a) ==
  IF a.misses + 1 > MaxMisses THEN [a EXCEPT !.est = << >>, !.misses = 0]
                              ELSE [a EXCEPT !.misses = @ + 1]

\* afc2_ctrl_reset as afc2_ctrl_sync calls it: only an own write keeps the
\* correction budget and the awaited step.
Synced(a, own) ==
  [a EXCEPT !.est = << >>, !.misses = 0,
            !.corrections = IF own THEN @ ELSE 0,
            !.check = IF own THEN @ ELSE NoCheck]

\* Did the awaited step move the estimate towards the target?
Judge(a) ==
  LET delta == MedianOf(a.est) - a.check.med
      half  == Half(a.check.step)
      toward == IF a.check.step > 0 THEN delta <= -half ELSE delta >= -half
      away   == IF a.check.step > 0 THEN delta >= half ELSE delta <= half
      b      == [a EXCEPT !.check = NoCheck]
  IN  IF toward THEN [b EXCEPT !.judged = "confirmed"]
      ELSE IF away THEN [b EXCEPT !.sign = -@, !.judged = "flipped", !.corrections = 0]
      ELSE b

JudgeIfStable(a) == IF a.check # NoCheck /\ Stable(a.est) THEN Judge(a) ELSE a

\* afc2_ctrl_observe, before the judgement: a window with confirmed sync
\* brings an estimate, one of the other video standard starts the history over.
Observed(a, x, present) ==
  LET b == [a EXCEPT !.since = IF @ < RearmWindows THEN @ + 1 ELSE @]
      contradicts == \E i \in DOMAIN a.est : a.est[i].std # x.std
  IN  IF present
      THEN [b EXCEPT !.misses = 0, !.est = IF contradicts THEN <<x>> ELSE Admit(@, x)]
      ELSE Missed(b)

AfcInit ==
  /\ chan \in Channels /\ offset = 0
  /\ enabled \in BOOLEAN /\ locked = FALSE
  /\ hold = "none" /\ original = tuning
  /\ unseen = FALSE /\ moved = TRUE /\ settle = RetuneSettle
  /\ ownWrite = FALSE /\ lost = 0
  /\ est = << >> /\ misses = 0 /\ corrections = 0 /\ since = 0
  /\ \/ sign = 1 /\ judged = "unverified"               \* nothing stored
     \/ sign \in {1, -1} /\ judged = "confirmed"       \* afc_sign of an earlier boot
  /\ check = NoCheck
  /\ events = 0 /\ faults = 0

(***************************************************************************)
(* One tick of control_task, from the comparison of the generations on.    *)
(***************************************************************************)
Old == [est |-> est, misses |-> misses, corrections |-> corrections, since |-> since,
        sign |-> sign, judged |-> judged, check |-> check]

SetAfc(a) ==
  /\ est' = a.est /\ misses' = a.misses /\ corrections' = a.corrections
  /\ since' = a.since /\ sign' = a.sign /\ judged' = a.judged /\ check' = a.check

\* afc2_ctrl_invalidate
Invalidated(a) == [a EXCEPT !.est = << >>, !.misses = 0]

Settling == IF ~unseen THEN settle ELSE IF ownWrite THEN 2 ELSE RetuneSettle

\* Lock gone: the budget returns, the history stays (afc2_ctrl_reacquire).
Reacquired(a) == [a EXCEPT !.corrections = 0, !.since = 0]

\* Mutant of Rearmed: a spent budget only comes back with a lost lock.
RearmedNever(a) == a

Rearmed(a) ==
  IF a.corrections >= MaxCorrections /\ a.since >= RearmWindows
  THEN [a EXCEPT !.corrections = 0] ELSE a

\* The size of the correction for a median.
StepFor(med) == IF med > MaxStep THEN MaxStep ELSE IF med < -MaxStep THEN -MaxStep ELSE med

\* Mutant of Steps: a correction before the window is full.
StepsEarly(a, eligible) ==
  /\ eligible /\ a.est # << >>
  /\ a.corrections < MaxCorrections
  /\ Abs(MedianOf(a.est)) > Deadband

\* Whether afc2_ctrl_decide steps, and what it leaves.
Steps(a, eligible) ==
  /\ eligible /\ Stable(a.est)
  /\ a.corrections < MaxCorrections
  /\ Abs(MedianOf(a.est)) > Deadband

Stepped(a) ==
  LET step == StepFor(MedianOf(a.est)) IN
  [a EXCEPT !.check = IF Abs(step) >= SignCheckMin
                      THEN [med |-> MedianOf(a.est), step |-> step, chan |-> chan]
                      ELSE NoCheck,
            !.corrections = @ + 1, !.since = 0, !.est = << >>]

\* rf_set_offset_khz: clamped, nothing written when it does not change.
Clamp(o) == IF o > OffsetMax THEN OffsetMax ELSE IF o < -OffsetMax THEN -OffsetMax ELSE o

SetOffset(o) ==
  /\ offset' = Clamp(o)
  /\ unseen' = (Clamp(o) # offset)
  /\ moved' = (Clamp(o) # offset)

\* What a window may show; only "video" brings an estimate.
Windows == {"video", "other", "outlier", "nosync", "rough", "uncopied"}
Shows(w) == w \in {"video", "other", "outlier"}

\* Only a window after the settling ticks is measured.
Measured(w) == Settling = 0 /\ (Shows(w) \/ w = "nosync")
Valid(w) == Settling = 0 /\ Shows(w)

Estimate(w, err) ==
  [v   |-> Residuals + err + (IF w = "outlier" THEN 4 * MaxMad ELSE 0),
   at  |-> tuning,
   std |-> IF w = "other" THEN "other" ELSE "same"]

\* The controller before the window is looked at (control.c:517-542), and
\* after it.
Synchronised ==
  LET a == IF unseen THEN Invalidated(Old) ELSE Old
  IN  IF moved THEN Synced(a, ownWrite) ELSE a

AfterWindow(a, w, err) ==
  IF Measured(w) THEN Observed(a, Estimate(w, err), Valid(w)) ELSE Missed(a)

\* The lock before this window, the windows lost, and the lock after it.
WasLocked == locked /\ ~moved
LostNow(w) ==
  LET before == IF moved THEN 0 ELSE lost IN
  IF ~enabled THEN 0
  ELSE IF w = "uncopied" THEN before
  ELSE IF Valid(w) THEN 0
  ELSE IF before < LostWindows THEN before + 1 ELSE before

\* afc2_native_lock
LockNow(w, a) ==
  /\ enabled
  /\ IF w = "uncopied" THEN WasLocked
     ELSE IF WasLocked THEN LostNow(w) < LostWindows
     ELSE Valid(w) /\ CanLock(a.est)

\* A lost lock returns the budget; afc2_ctrl_decide re-arms a spent one.
AfterLock(a, lockNow, decides) ==
  LET b == IF WasLocked /\ ~lockNow THEN Reacquired(a) ELSE a
  IN  IF decides THEN Rearmed(b) ELSE b

Tick(w, err, mayStep, strong) ==
  /\ hold = "none"
  /\ \E a \in {Synchronised} :
     \E b \in {AfterWindow(a, w, err)} :
     \E c \in {IF Valid(w) THEN JudgeIfStable(b) ELSE b} :
     \E lockNow \in {LockNow(w, c)} :
     \E decides \in {enabled /\ ~lockNow /\ Valid(w) /\ mayStep} :
     \E d \in {AfterLock(c, lockNow, decides)} :
     \E steps \in {decides /\ Steps(d, strong)} :
       /\ locked' = lockNow /\ lost' = LostNow(w)
       /\ SetAfc(IF steps THEN Stepped(d) ELSE d)
       /\ ownWrite' = steps
       /\ SetOffset(IF steps THEN offset + d.sign * StepFor(MedianOf(d.est))
                    ELSE IF ~enabled THEN 0 ELSE offset)
  /\ settle' = IF Settling = 0 THEN 0 ELSE Settling - 1
  /\ UNCHANGED <<chan, enabled, hold, original>>

\* A tick that shows and permits everything, and one that does not.
GoodTick ==
  /\ \E err \in PorchNoise : Tick("video", err, TRUE, TRUE)
  /\ UNCHANGED <<events, faults>>

BadTick ==
  /\ faults < MaxFaults /\ Settling = 0 /\ enabled
  /\ \/ \E w \in Windows \ {"video"} : Tick(w, 0, TRUE, TRUE)
     \/ Tick("video", 0, FALSE, TRUE)   \* menu open, or the actuator is leased
     \/ Tick("video", 0, TRUE, FALSE)   \* weak carrier, or the gain just moved
  /\ faults' = faults + 1 /\ UNCHANGED events

\* A tick while a calibration holds s_scan_active but not yet the screen.
ScanTick ==
  /\ hold = "scan"
  /\ SetAfc(Invalidated(Old))
  /\ settle' = Settling /\ unseen' = FALSE
  /\ UNCHANGED <<tuning, enabled, locked, hold, original, moved, ownWrite, lost, events, faults>>

(***************************************************************************)
(* What happens between two ticks.  Commands and the BOOT button are       *)
(* refused while a status screen is up.                                    *)
(***************************************************************************)
Event == events < MaxEvents /\ events' = events + 1 /\ UNCHANGED faults

\* Mutant of TuneTo: no generation or epoch tells of the new channel.
TunedUnnoticed(c) ==
  /\ Event /\ hold # "screen"
  /\ chan' = c /\ offset' = 0
  /\ locked' = FALSE
  /\ UNCHANGED <<enabled, hold, original, unseen, moved, settle, ownWrite, lost, afc>>

\* rf_set_channel and after_retune
TuneTo(c) ==
  /\ Event /\ hold # "screen"
  /\ chan' = c /\ offset' = 0
  /\ locked' = FALSE
  /\ unseen' = TRUE /\ moved' = TRUE
  /\ UNCHANGED <<enabled, hold, original, settle, ownWrite, lost, afc>>

\* toggle_afc
Toggle ==
  /\ Event /\ hold # "screen"
  /\ enabled' = ~enabled
  /\ locked' = FALSE
  /\ offset' = IF enabled THEN 0 ELSE offset
  /\ unseen' = TRUE /\ moved' = TRUE
  /\ UNCHANGED <<chan, hold, original, settle, ownWrite, lost, afc>>

\* A filter, digital filter or table change: the tuning stays.
Restore ==
  /\ Event /\ hold = "none"
  /\ unseen' = TRUE /\ moved' = TRUE
  /\ UNCHANGED <<tuning, enabled, locked, hold, original, settle, ownWrite, lost, afc>>

\* A calibration starts (its first writes move the context), covers the
\* picture, and ends on the tuning it found.
TakeHold(h) ==
  /\ Event /\ hold = "none"
  /\ hold' = h /\ original' = tuning
  /\ unseen' = TRUE /\ moved' = TRUE
  /\ UNCHANGED <<tuning, enabled, locked, settle, ownWrite, lost, afc>>

Cover ==
  /\ hold = "scan" /\ hold' = "screen"
  /\ UNCHANGED <<tuning, enabled, locked, original, unseen, moved, settle, ownWrite,
                 lost, afc, events, faults>>

EndHold ==
  /\ hold = "screen" /\ hold' = "none"
  /\ chan' = original[1] /\ offset' = original[2]
  /\ unseen' = TRUE /\ moved' = TRUE
  /\ UNCHANGED <<enabled, locked, original, settle, ownWrite, lost, afc, events, faults>>

AfcNext ==
  \/ GoodTick \/ BadTick \/ ScanTick
  \/ \E c \in Channels : TuneTo(c)
  \/ Toggle \/ Restore
  \/ \E h \in {"scan", "screen"} : TakeHold(h)
  \/ Cover \/ EndHold

\* The loop ticks every 50 ms whatever it finds, and calibrations end.
AfcSpec ==
  /\ AfcInit /\ [][AfcNext]_afcVars
  /\ WF_afcVars(GoodTick) /\ WF_afcVars(Cover) /\ WF_afcVars(EndHold)

-----------------------------------------------------------------------------
AfcTypeOK ==
  /\ chan \in Channels /\ offset \in -OffsetMax .. OffsetMax
  /\ enabled \in BOOLEAN /\ locked \in BOOLEAN
  /\ hold \in {"none", "scan", "screen"}
  /\ original \in Channels \X (-OffsetMax .. OffsetMax)
  /\ unseen \in BOOLEAN /\ moved \in BOOLEAN /\ ownWrite \in BOOLEAN
  /\ settle \in 0 .. RetuneSettle /\ lost \in 0 .. LostWindows
  /\ Len(est) <= Samples
  /\ misses \in 0 .. MaxMisses
  /\ corrections \in 0 .. MaxCorrections /\ since \in 0 .. RearmWindows
  /\ sign \in {1, -1} /\ judged \in {"unverified", "confirmed", "flipped"}
  /\ events \in 0 .. MaxEvents /\ faults \in 0 .. MaxFaults

\* Unless the context has moved on and the history is about to be dropped,
\* every estimate in it was measured at the present channel and offset
\* (afc_ctrl.h:16-19: only fresh measurements count after a retune).
EvidenceOfTuning == ~moved => \A i \in DOMAIN est : est[i].at = tuning

\* The lock is only taken with the receiver on the carrier, within the
\* deadband and the error of an estimate (control.c:601): it is sticky, so an
\* offset it is taken at stays until the video is lost.
LockIsCentred ==
  [][~locked /\ locked' => Centred(NoiseMax)']_afcVars

\* A correction made with the right sign never takes the receiver further
\* from the carrier (control.c:613-614).
StepsConverge ==
  [][~ownWrite /\ ownWrite' /\ sign' = OffsetSign
       => Abs(Residuals') <= Abs(Residuals)]_afcVars

\* However retunes, calibrations, fades and a wrong or wrongly flipped sign
\* go, once they end an enabled AFC centres the carrier and keeps it locked
\* (afc_ctrl.h:40-53, the budget that re-arms and the sign check).
EventuallyCentred == <>[](enabled => locked /\ Centred(NoiseMax))

\* What afc_ctrl.h:105-106 says of the reset: only the control's own retune
\* keeps a pending sign check, a channel change drops it.
SignCheckOfThisChannel == check # NoCheck /\ ~moved => check.chan = chan
=============================================================================
