-------------------------------- MODULE Keel --------------------------------
(***************************************************************************)
(* KEEL-1, the automatic gain (gain.c, dg_tick): fast attack and slow      *)
(* release over a few home rows of the gain table, judged on the envelope  *)
(* peaks of one window after the other, with a peak memory, a memory of    *)
(* the row that folded, and a learned headroom per row.                    *)
(*                                                                         *)
(* Levels are quarter dB above the target peak DG7_TARGET_P95.  Time       *)
(* passes in units of DG7_SAT_US = DG7_DOWN_GAP_US; any number of windows  *)
(* falls into a unit.  The longer times of the code are constants.         *)
(***************************************************************************)
EXTENDS Integers

CONSTANTS
  Rows,        \* rows of the gain table, from the lowest allowed one upwards
  Home,        \* keel_row: the home rows
  Floor,       \* the lowest row a reset starts the core at (20)
  Model,       \* model_db_q8: gain of each row, as the code believes
  Tables,      \* external: gain of each row, as it may really be
  Signals,     \* external: carrier levels at row gain 0
  Noise,       \* external: receiver noise at row gain 0
  FoldAt,      \* external: level from which a window clips both rails (DG7_FOLD_PM)
  SatAt,       \* external: level from which it is saturated
  Cloudy,      \* external: rows on which an empty window has outliers
  Hold, UpGap, HeatWindow, FoldMemory, HeatDecay,  \* DG7_*_US in units
  MaxUpsets    \* bound: fades, refused writes, resets and gaps together

\* The rows are an interval; the highest of them is a home row.
ASSUME RowAssumption ==
  /\ Rows \subseteq Int /\ Home \subseteq Rows /\ Home # {}
  /\ \A S \in (SUBSET Rows) \ {{}} : (\E r \in S : \A s \in S : r <= s) /\ (\E r \in S : \A s \in S : r >= s)
  /\ \A r \in Rows : r - 1 \in Rows \/ \A s \in Rows : r <= s
  /\ \A r \in Rows : \E h \in Home : r <= h
ASSUME FloorAssumption == Floor \in Rows
ASSUME LevelAssumption ==
  /\ Model \in [Rows -> Int] /\ Signals \subseteq Int /\ Noise \in Int
  /\ {FoldAt, SatAt} \subseteq Int /\ FoldAt <= SatAt
  /\ \A t \in Tables : t \in [Rows -> Int]
ASSUME TimeAssumption ==
  /\ {Hold, UpGap, HeatWindow, FoldMemory, HeatDecay} \subseteq Nat \ {0}
  /\ UpGap <= Hold /\ Hold < HeatWindow /\ HeatWindow < FoldMemory /\ FoldMemory < HeatDecay

Lowest(S) == CHOOSE r \in S : \A s \in S : r <= s
Highest(S) == CHOOSE r \in S : \A s \in S : r >= s
Top == Highest(Rows)

Attack == 7        \* DG7_ATTACK_P95
Release == -4      \* DG7_RELEASE_P95
FarAt == -28       \* a quarter of it
Slack == 1         \* keel_pick
HeatStep == 6      \* DG7_HEAT_STEP_Q8
HeatMax == 48
HeatLoss == 4
SatDrop == 12      \* DG7_SAT_DROP_DB
Quietest == -63    \* P95 = 1
Loudest == 19      \* P95 = 113
NoRow == Lowest(Rows) - 1
Unset == -1         \* peak_since_us = 0

VARIABLES
  real, signal,     \* external: the gains of the rows; the carrier
  row,              \* s_current_gain: the row in force, as receiver.c wrote it
  own,              \* current_gain: the row the core takes itself to be at
  settling,         \* state = DG_SETTLE
  fresh,            \* the last write was in this unit: now = write_us
  clipped,          \* last_tracking was clipped on both rails
  sat, satFor,      \* saturated_run, and for how long
  peaks, memory,    \* peak_p95, newest first; how long since peak_since_us, if set
  upAfter, downAfter,        \* time until up_after_us, down_after_us
  far,              \* far_run
  folded, foldedFor,         \* folded_row, and time until folded_until_us
  heat, heatIn,     \* heat_q8, time until its next decay, 0 while nothing can
  released, releasedFor,     \* released_row, time left in which a fold counts
  seen,             \* a window was judged in this unit
  hist,             \* history: see the properties
  budget            \* history: what of the bounds is used up

signals == <<real, signal>>
core  == <<settling, fresh, clipped, sat, satFor, peaks, memory, upAfter, downAfter, far>>
folds == <<folded, foldedFor, heat, heatIn, released, releasedFor>>
vars  == <<signals, row, own, core, folds, seen, hist, budget>>

Max(a, b) == IF a >= b THEN a ELSE b
Min(a, b) == IF a <= b THEN a ELSE b
Less(n) == Max(n - 1, 0)
More(n, cap) == Min(n + 1, cap)

Upsets == budget.fade + budget.refusal + budget.rebind + budget.gap

Empty == [k \in 1 .. Hold |-> Quietest]
Cold == [r \in Rows |-> 0]

\* The window of the present row: what its peaks read, and what the release
\* takes them for (an empty window with outliers counts as its centre).
Level(r) == Max(Quietest, Min(Loudest, Max(signal, Noise) + real[r]))
NoCarrier == signal < Noise
PeakOf(r) == IF NoCarrier /\ r \in Cloudy THEN 2 ELSE Level(r)
\* Mutant: the outliers of an empty window count.
ReleaseLevelOutliers(r) == PeakOf(r)

ReleaseLevel(r) == IF NoCarrier /\ r \in Cloudy THEN Quietest ELSE PeakOf(r)
Clips(r) == Level(r) >= FoldAt
Saturated(r) == Level(r) >= SatAt

Init ==
  /\ real \in Tables /\ signal \in Signals /\ row \in Rows /\ own = row
  /\ settling = FALSE /\ fresh = FALSE /\ clipped = FALSE
  /\ sat = FALSE /\ satFor = 0
  /\ peaks = Empty /\ memory = Unset /\ upAfter = 0 /\ downAfter = 0 /\ far = FALSE
  /\ folded = NoRow /\ foldedFor = 0 /\ heat = Cold /\ heatIn = 0
  /\ released = NoRow /\ releasedFor = 0
  /\ seen = FALSE
  /\ hist = [left |-> NoRow, leftFor |-> 0, calm |-> 0, up |-> NoRow, upFor |-> 0, refolds |-> 0]
  /\ budget = [fade |-> 0, refusal |-> 0, rebind |-> 0, gap |-> 0]

(***************************************************************************)
(* The rows (keel_pick).                                                   *)
(***************************************************************************)
\* The highest higher home row that fits under the level, with its headroom.
Upward(from, delta) ==
  Highest({from} \cup {r \in Home : r > from /\ Model[r] + heat[r] <= Model[from] + delta + Slack})

\* The highest lower home row that fits, else the lowest home row.
Downward(from, delta) ==
  LET fit == {r \in Home : r < from /\ Model[r] <= Model[from] + delta + Slack}
  IN  IF fit # {} THEN Highest(fit) ELSE Lowest(Home)

\* From the lowest home row an attack goes on row by row.
Attacked(delta) ==
  LET r == Downward(own, delta)
  IN  IF r < own THEN r ELSE Max(own - 1, Lowest(Rows))

\* Not straight back into the row that folded, unless the carrier is far below.
Unfolded(target, gone) ==
  IF ~gone /\ foldedFor > 0 /\ target >= folded
  THEN Highest({own} \cup {r \in Home : own < r /\ r < folded})
  ELSE target

(***************************************************************************)
(* One window (dg_tick), and the write it asks for.                        *)
(***************************************************************************)
Same == UNCHANGED signals

\* apply_target: the PHY takes the row and it settles, or refuses it, and the
\* core goes back to the row in force.  A core that stays where it is asks for
\* its own row.
Applied(target) ==
  /\ row' = target /\ own' = target
  /\ settling' = (target # row \/ target # own)
  /\ fresh' = (fresh \/ target # row \/ target # own)
  /\ UNCHANGED budget

RefusedWrite(target) ==
  /\ target # row /\ Upsets < MaxUpsets
  /\ row' = row /\ own' = row /\ settling' = FALSE /\ fresh' = fresh
  /\ budget' = [budget EXCEPT !.refusal = @ + 1]

Written(target) == Applied(target) \/ RefusedWrite(target)

\* The decay runs freely: where in its period the first heat falls is open.
Decaying ==
  IF heat' = Cold THEN heatIn' = 0
  ELSE IF heat = Cold THEN heatIn' \in 1 .. HeatDecay
  ELSE UNCHANGED heatIn

\* A window inside the settle guard is no evidence at all.
Guarded ==
  /\ settling /\ fresh
  /\ seen' = TRUE /\ clipped' = Clips(row) /\ sat' = FALSE
  /\ hist' = [hist EXCEPT !.calm = 0]
  /\ UNCHANGED <<row, own, settling, fresh, satFor, peaks, memory, upAfter, downAfter, far,
                 folded, foldedFor, heat, heatIn, released, releasedFor, budget>> /\ Same

\* Mutant: the peaks of the old gain stay.
SettledOldPeaks == [peaks |-> peaks, memory |-> Max(memory, 0)]

\* Past it the peaks start anew: the gain changed every one of them.
Settled == IF settling THEN [peaks |-> Empty, memory |-> 0]
                       ELSE [peaks |-> peaks, memory |-> Max(memory, 0)]

Remembered == [Settled.peaks EXCEPT ![1] = Max(@, ReleaseLevel(row))]
Peak == LET p == Remembered IN Highest({p[k] : k \in 1 .. Hold})

\* Saturated for long enough, or clipped on both rails in two windows running.
Overload == Saturated(row) /\ sat /\ satFor >= 1
Fold == ~Saturated(row) /\ Clips(row) /\ clipped
Attacks == Overload \/ Fold
AttackDelta == IF Overload THEN -SatDrop ELSE -Max(PeakOf(row), Attack)

\* Mutant: a release that folds is not learned.
HeatedNever == heat

\* A release that folds soon after was too optimistic for its row.
Heated == IF released = own /\ releasedFor > 0
          THEN [heat EXCEPT ![own] = Min(@ + HeatStep, HeatMax)] ELSE heat

AttackWrite ==
  /\ Attacks /\ downAfter = 0
  /\ Written(Attacked(AttackDelta))
  /\ sat' = FALSE /\ satFor' = 0
  /\ downAfter' = 1 /\ upAfter' = Hold /\ far' = FALSE
  /\ folded' = own /\ foldedFor' = FoldMemory
  /\ heat' = Heated /\ released' = NoRow /\ releasedFor' = 0
  /\ hist' = [hist EXCEPT !.left = own, !.leftFor = FoldMemory, !.calm = 0, !.up = NoRow, !.upFor = 0,
                          !.refolds = @ + (IF hist.up = row /\ hist.upFor > 0 THEN 1 ELSE 0)]

\* What a window does to the saturation run.
Run ==
  /\ sat' = Saturated(row)
  /\ satFor' = IF Saturated(row) /\ sat THEN satFor ELSE 0

\* An attack too soon after the last one waits.
AttackWaits ==
  /\ Attacks /\ downAfter > 0
  /\ Run
  /\ Written(own)
  /\ hist' = [hist EXCEPT !.calm = 0]
  /\ UNCHANGED <<upAfter, downAfter, far, folded, foldedFor, heat, released, releasedFor>>

\* A release needs a full peak memory below the release level; far below, each
\* further step only that the last one settled.
Far == Peak < FarAt
Need == IF far /\ Far THEN 0 ELSE Hold
Ripe == upAfter = 0 /\ own < Top /\ Settled.memory >= Need /\ Peak < Release
StepUp == IF Far THEN -Peak ELSE (-Peak * 70) \div 100
Target == IF Ripe THEN Unfolded(Upward(own, StepUp), Far) ELSE own

Calm == IF ReleaseLevel(row) < Release THEN hist.calm ELSE 0

Raise ==
  /\ ~Attacks /\ Target > own
  /\ Run
  /\ Written(Target)
  /\ far' = Far /\ upAfter' = UpGap
  /\ released' = Target /\ releasedFor' = HeatWindow
  /\ hist' = IF row' = row THEN [hist EXCEPT !.calm = Calm]
             ELSE [hist EXCEPT !.calm = 0, !.up = row', !.upFor = HeatWindow]
  /\ UNCHANGED <<downAfter, folded, foldedFor, heat>>

Stay ==
  /\ ~Attacks /\ Target = own
  /\ Run /\ far' = (far /\ Far)
  /\ Written(own)
  /\ hist' = [hist EXCEPT !.calm = IF row' = row THEN Calm ELSE 0]
  /\ UNCHANGED <<upAfter, downAfter, folded, foldedFor, heat, released, releasedFor>>

Judged ==
  /\ seen' = TRUE /\ clipped' = Clips(row)
  /\ peaks' = Remembered /\ memory' = Settled.memory
  /\ AttackWrite \/ AttackWaits \/ Raise \/ Stay
  /\ Decaying
  /\ Same

Window == Guarded \/ Judged

(***************************************************************************)
(* Time, the receiver around the core, and the air.                        *)
(***************************************************************************)
Cooled == IF heatIn # 1 THEN heat ELSE [r \in Rows |-> Max(heat[r] - HeatLoss, 0)]

Countdown ==
  /\ fresh' = FALSE
  /\ upAfter' = Less(upAfter) /\ downAfter' = Less(downAfter)
  /\ foldedFor' = Less(foldedFor) /\ releasedFor' = Less(releasedFor)
  /\ heat' = Cooled
  /\ heatIn' = IF heat' = Cold THEN 0 ELSE IF heatIn = 1 THEN HeatDecay ELSE heatIn - 1

\* The next unit, after at least one window in this one.
Pass ==
  /\ seen /\ seen' = FALSE
  /\ Countdown
  /\ satFor' = IF sat THEN More(satFor, 1) ELSE 0
  /\ peaks' = [k \in 1 .. Hold |-> IF k = 1 THEN Quietest ELSE peaks[k - 1]]
  /\ memory' = IF memory = Unset THEN Unset ELSE More(memory, Hold)
  /\ hist' = [hist EXCEPT !.leftFor = Less(@), !.upFor = Less(@), !.calm = More(@, Hold),
                          !.refolds = IF heatIn = 1 THEN 0 ELSE @]
  /\ UNCHANGED <<signals, row, own, settling, clipped, sat, far, folded, released, budget>>

\* No window for longer than the peak memory (a pause, a restart of the
\* transport): the peaks are forgotten, peak_since_us is not.
Gap ==
  /\ Upsets < MaxUpsets /\ ~settling
  /\ seen' = FALSE
  /\ fresh' = FALSE /\ upAfter' = 0 /\ downAfter' = 0
  /\ foldedFor' = Max(foldedFor - Hold - 1, 0) /\ releasedFor' = Max(releasedFor - Hold - 1, 0)
  /\ satFor' = IF sat THEN 1 ELSE 0
  /\ peaks' = Empty /\ memory' = IF memory = Unset THEN Unset ELSE Hold
  /\ heatIn' = IF heat = Cold THEN 0 ELSE Max(heatIn - Hold - 1, 1)
  /\ hist' = [hist EXCEPT !.leftFor = Max(@ - Hold - 1, 0), !.upFor = Max(@ - Hold - 1, 0), !.calm = 0]
  /\ budget' = [budget EXCEPT !.gap = @ + 1]
  /\ UNCHANGED <<signals, row, own, settling, clipped, sat, far, folded, heat, released>>

\* dg_reset_context starts the core at the row in force, but never below Floor:
\* from a lower row the core is ahead of the hardware, and the next window
\* writes the row it is at.
Restarted == Max(row, Floor)

\* Mutant: a reset on the same receiver forgets what folded.
RebindForgetsFold ==
  /\ Upsets < MaxUpsets
  /\ own' = Restarted
  /\ settling' = FALSE /\ released' = NoRow /\ releasedFor' = 0 /\ foldedFor' = 0
  /\ budget' = [budget EXCEPT !.rebind = @ + 1]
  /\ UNCHANGED <<signals, row, fresh, clipped, sat, satFor, peaks, memory, upAfter, downAfter,
                 far, folded, heat, heatIn, seen, hist>>

\* dg_reset_context on the same receiver (an AFC step, a PHY transaction): the
\* settle and the released row are not among what survives.
Rebind ==
  /\ Upsets < MaxUpsets
  /\ own' = Restarted
  /\ settling' = FALSE /\ released' = NoRow /\ releasedFor' = 0
  /\ budget' = [budget EXCEPT !.rebind = @ + 1]
  /\ UNCHANGED <<signals, row, fresh, clipped, sat, satFor, peaks, memory, upAfter, downAfter,
                 far, folded, foldedFor, heat, heatIn, seen, hist>>

\* On another receiver (channel, filter) nothing survives but the gain.
Retune ==
  /\ Upsets < MaxUpsets
  /\ own' = Restarted
  /\ signal' \in Signals
  /\ settling' = FALSE /\ clipped' = FALSE /\ sat' = FALSE /\ satFor' = 0
  /\ peaks' = Empty /\ memory' = Unset /\ upAfter' = 0 /\ downAfter' = 0 /\ far' = FALSE
  /\ folded' = NoRow /\ foldedFor' = 0 /\ heat' = Cold /\ heatIn' = 0
  /\ released' = NoRow /\ releasedFor' = 0
  /\ hist' = [hist EXCEPT !.left = NoRow, !.leftFor = 0, !.calm = 0, !.up = NoRow, !.upFor = 0, !.refolds = 0]
  /\ budget' = [budget EXCEPT !.rebind = @ + 1]
  /\ UNCHANGED <<real, row, fresh, seen>>

Fade ==
  /\ Upsets < MaxUpsets
  /\ \E s \in Signals \ {signal} : signal' = s
  /\ budget' = [budget EXCEPT !.fade = @ + 1]
  /\ UNCHANGED <<real, row, own, core, folds, seen, hist>>

Next == Window \/ Pass \/ Gap \/ Rebind \/ Retune \/ Fade

\* The observer keeps judging windows, and time passes.
Spec == Init /\ [][Next]_vars /\ WF_vars(~seen /\ Window) /\ WF_vars(Pass)
-----------------------------------------------------------------------------
TypeOK ==
  /\ real \in Tables /\ signal \in Signals
  /\ {row, own} \subseteq Rows /\ {folded, released} \subseteq Rows \cup {NoRow}
  /\ {settling, fresh, clipped, sat, far, seen} \subseteq BOOLEAN
  /\ satFor \in 0 .. 1 /\ downAfter \in 0 .. 1 /\ memory \in Unset .. Hold /\ upAfter \in 0 .. Hold
  /\ peaks \in [1 .. Hold -> Quietest .. Loudest]
  /\ foldedFor \in 0 .. FoldMemory /\ releasedFor \in 0 .. HeatWindow
  /\ heat \in [Rows -> 0 .. HeatMax] /\ heatIn \in 0 .. HeatDecay

\* The level a steady carrier ends at: not folding, and within two home rows
\* of the target; or the table has nothing more to give.
WellSet(r) ==
  /\ r = Lowest(Rows) \/ ~Clips(r)
  /\ r = Top \/ (~NoCarrier /\ Level(r) >= -24)

\* With a table that is what the code believes, the gain comes to rest on one
\* row once the carrier is steady, a carrier that is gone included, through any
\* resets and refused writes before ("as much gain as the peaks allow",
\* gain.c:709-711; no hunting between home rows, gain.c:984-985).
Settles == real = Model => \E r \in Rows : <>[](row = r /\ WellSet(r))

\* How far the table may be wrong: no step is so much larger than believed that
\* a release folds, but those into the top row, whose error one learned step of
\* headroom covers.  Noise alone folds nowhere.
Error(r) == FoldAt - Slack - 1 + (IF r = Top THEN HeatStep ELSE 0)
Believable ==
  /\ Quietest < FoldAt
  /\ \A f, r \in Rows : f <= r =>
       Model[f] <= Model[r] /\ \A t \in Tables : t[r] - t[f] <= Model[r] - Model[f] + Error(r)
  /\ \A t \in Tables, r \in Rows : Noise + t[r] < FoldAt

\* Rows that are really further apart than the model says fold when they are
\* released into: the learned headroom stops that until it has decayed.  With a
\* table as wrong as one learned step covers (Believable), a steady carrier folds
\* at most once in a decay (gain.c:913-922).
RareFolds == hist.refolds <= 1 + budget.fade + budget.refusal + budget.rebind

\* A row that folded stays out of reach for the attack memory (gain.c:774-777),
\* resets on the same receiver and refused writes included, unless the carrier
\* went far below, or a reset below Floor has put the core above the hardware:
\* then the gain goes as far as Floor (gain.c:468), and no further.
Lifted == row < own
NoQuickReturn ==
  [][row' > row /\ hist.leftFor > 0 /\ row' >= hist.left => Far \/ (Lifted /\ row' <= Floor)]_vars

\* "A multipath null of a few ms never raises the gain": at this row the peaks
\* have been below the release level for the whole memory (gain.c:723-725).
Earned == hist.calm >= Hold \/ (Far /\ far)
NullsDoNotRaise ==
  [][row' > row /\ budget.gap = 0 /\ budget.rebind = 0 => Earned]_vars

\* The same through a gap in the windows.
NullsNeverRaise == [][row' > row /\ budget.rebind = 0 => Earned]_vars
=============================================================================
