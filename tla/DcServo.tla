------------------------------ MODULE DcServo ------------------------------
(***************************************************************************)
(* The live DC servo: dc_servo.h as servo_service of calibration_dc.c      *)
(* drives it, for one axis (the two are decided alike and independently)   *)
(* and a few gain rows, which share the learned slope.  A step of the      *)
(* model is one decision on one row's fresh mean.                          *)
(*                                                                         *)
(* The receiver is external: the DC of a row is what it is at the stored   *)
(* code plus the true slope times its trim, so that zero lies between two  *)
(* codes as a rule; its mean stops growing where the IQ folds, and the     *)
(* share of negative samples saturates but keeps the right side.  All      *)
(* limits are those of the code, in mcells and DAC codes.                  *)
(***************************************************************************)
EXTENDS Integers

CONSTANTS
  Rows,         \* gain rows
  Stored,       \* external: DC of a row at its stored code, in mcells
  TrueSlopes,   \* external: mcells per code, either polarity
  Sigmas,       \* external: noise of a row in mcells
  Jumps,        \* external: by how much that DC may move
  TrimMax,      \* dc_trim_max
  MaxUpsets     \* bound: zeros that move, contexts that change, writes refused

ASSUME TrimAssumption == TrimMax \in Nat
ASSUME PlantAssumption ==
  /\ TrueSlopes \subseteq Int \ {0} /\ Sigmas \subseteq Nat \ {0}
  /\ Stored \subseteq Int /\ Jumps \subseteq Int
ASSUME BoundAssumption == MaxUpsets \in Nat
\* External: a row's share of signs saturates, at 1.3 sigma, before the fold
\* takes as much off its mean as a lesson asks for.
ASSUME NoiseAssumption == \A s \in Sigmas : 13 * s <= 31000

\* dc_servo.h:31-77 and 115-116
Deadband     == 250
GainPct      == 70
StepMax      == 8
SlopeDefault == 150
SlopeMin     == 30
SlopeMax     == 800
LearnStep    == 3
BadMcells    == 800
BadRun       == 3
FoldFlip     == 64
FoldFlipMax  == 512
FoldStepMax  == 16
BracketMove  == 800
PnegLo       == 100
PnegHi       == 900
TryMax       == 8      \* PHY_DCO_TRY_MAX

VARIABLES
  slope, known, votes,  \* slope, known and pol_votes of the axis
  row,                  \* dc_servo_t.row
  offset,               \* s_drift_offset: a row's live trim
  trueSlope, sigma,     \* external: fixed at the start
  stored,               \* external: a row's DC at its stored code
  upset,                \* history: rows whose zero has moved by itself
  misled,               \* history: rows that search while another row turned the polarity
  upsets                \* history: upsets so far

plant == <<trueSlope, sigma, stored>>
vars  == <<slope, known, votes, row, offset, plant, upset, misled, upsets>>

Abs(x) == IF x < 0 THEN -x ELSE x
Sgn(x) == IF x < 0 THEN -1 ELSE 1
Min2(x, y) == IF x < y THEN x ELSE y
\* The quotient of C: towards zero.
Quot(x, y) == Sgn(x) * Sgn(y) * (Abs(x) \div Abs(y))
\* The quotient rounded to nearest, halves away from zero.
Round(x, y) == Sgn(x) * Sgn(y) * ((2 * Abs(x) + Abs(y)) \div (2 * Abs(y)))

(***************************************************************************)
(* The receiver.                                                           *)
(***************************************************************************)
DC(r) == trueSlope * offset[r] + stored[r]

\* Beyond 2.5 cells part of the cloud folds back: the mean shrinks again, and
\* keeps its sign (dc_servo.h:46-55).
Mean(d) ==
  IF Abs(d) <= 2500 THEN d
  ELSE Sgn(d) * (IF Abs(d) >= 9500 THEN 750 ELSE 2500 - (Abs(d) - 2500) \div 4)

\* The negative share per mille: linear to 1.28 sigma, saturated from 3 on.
Share(d) ==
  LET x == (Abs(d) * 100) \div sigma    \* in hundredths of sigma
      below == IF x <= 128 THEN 500 - (x * 400) \div 128
               ELSE IF x <= 300 THEN 100 - ((x - 128) * 100) \div 172 ELSE 0
  IN  IF d >= 0 THEN below ELSE 1000 - below

FreshRow == [lastDc |-> 0, lastStep |-> 0, bad |-> 0, lastFolded |-> FALSE,
             foldWalk |-> 0, lastPneg |-> 0, foldWindow |-> 0, foldBad |-> 0,
             prevStep |-> 0, bracket |-> FALSE, bracketDc |-> 0]

Init ==
  /\ slope = SlopeDefault /\ known = FALSE /\ votes = 0
  /\ row = [r \in Rows |-> FreshRow]
  /\ offset = [r \in Rows |-> 0]
  /\ trueSlope \in TrueSlopes /\ sigma \in Sigmas
  /\ stored \in [Rows -> Stored]
  /\ upset = {} /\ misled = {} /\ upsets = 0

(***************************************************************************)
(* dc_servo_decide_sign.  An axis and a row of it are one record a.        *)
(***************************************************************************)
Folded(p) == p < PnegLo \/ p > PnegHi

\* A polarity the linear zone has voted for.
Proven(a) == (a.votes >= 1 /\ a.slope > 0) \/ (a.votes <= -1 /\ a.slope < 0)

\* A step inside the fold zone: the share must move towards one half, and two
\* that move it away turn an unproven polarity (lines 133-148).
ShareJudged(a, p) ==
  LET was  == Abs(a.lastPneg - 500)
      now  == Abs(p - 500)
      away == was < 499 /\ now >= was + 5
      b    == [a EXCEPT !.foldBad = @ + 1]
  IN
  IF ~(a.lastStep # 0 /\ Folded(p) /\ a.lastFolded) THEN a
  ELSE IF away
       THEN IF b.foldBad >= 2 /\ ~Proven(a)
            THEN [b EXCEPT !.slope = -@, !.known = FALSE, !.foldBad = 0, !.foldWalk = 0,
                           !.foldWindow = IF @ = 0 THEN FoldFlip ELSE @]
            ELSE b
       ELSE IF now + 5 <= was THEN [a EXCEPT !.foldBad = 0] ELSE a

\* What the last step did in the linear zone teaches the slope (149-167).
\* Mutant: the mean before the step may have been folded.
LinearNow(a, p) == ~Folded(p)

Linear(a, p) == ~Folded(p) /\ ~a.lastFolded

Measured(a, d) == Quot(d - a.lastDc, a.lastStep)

Teaches(a, d, p) ==
  /\ a.lastStep # 0 /\ Linear(a, p)
  /\ Abs(a.lastStep) >= LearnStep
  /\ Abs(d - a.lastDc) >= 150
  /\ SlopeMin <= Abs(Measured(a, d)) /\ Abs(Measured(a, d)) <= SlopeMax

Vote(v, m) == LET w == v + Sgn(m) IN IF w > 4 THEN 4 ELSE IF w < -4 THEN -4 ELSE w

Learned(a, d, p) ==
  IF ~Teaches(a, d, p) THEN a
  ELSE LET m == Measured(a, d) IN
       [a EXCEPT !.votes = Vote(@, m),
                 !.known = TRUE,
                 !.slope = IF ~a.known THEN m
                           ELSE IF Sgn(@) = Sgn(m) THEN Quot(@ + m, 2) ELSE @]

\* A step that did not help three times running relearns the size (168-180).
Relearned(a, d, p) ==
  LET fails == Linear(a, p) /\ Abs(d) >= Abs(a.lastDc) /\ Abs(d) > BadMcells
      b     == [a EXCEPT !.lastStep = 0]
  IN
  IF a.lastStep = 0 THEN a
  ELSE IF ~fails THEN [b EXCEPT !.bad = 0]
  ELSE IF a.bad + 1 < BadRun THEN [b EXCEPT !.bad = @ + 1]
  ELSE [b EXCEPT !.slope = Sgn(@) * SlopeDefault, !.known = FALSE, !.bad = 0]

\* The row as the next step starts from it (181-185).
Noted(a, p) ==
  LET b == [a EXCEPT !.lastFolded = Folded(p), !.lastPneg = p] IN
  IF Folded(p) THEN [b EXCEPT !.foldWindow = IF @ = 0 THEN FoldFlip ELSE @]
  ELSE [b EXCEPT !.foldWalk = 0, !.foldBad = 0, !.foldWindow = FoldFlip, !.bracket = FALSE]

Wider(w) == Min2(2 * w, FoldFlipMax)

\* Mutant: a wrong default polarity is never turned.
WalkedOn(a) ==
  IF a.foldWalk < a.foldWindow THEN a ELSE [a EXCEPT !.foldWalk = 0, !.foldWindow = Wider(@)]

\* The walk reached its window: a proven polarity walks on, another turns
\* (196-210).
Walked(a) ==
  IF a.foldWalk < a.foldWindow THEN a
  ELSE LET b == [a EXCEPT !.foldWalk = 0, !.foldWindow = Wider(@)] IN
       IF Proven(a) THEN b
       ELSE [b EXCEPT !.slope = -@, !.known = FALSE, !.prevStep = 0]

\* The bracketing search on the sign bit: doubling on one side of zero, halving
\* across it, holding a crossing of one code (211-232).
Direction(a, p) == IF (p < 500) = (a.slope > 0) THEN -1 ELSE 1

\* Mutant: any crossing ends the search.
MagnitudeAnyCrossing(a, dir) ==
  IF a.prevStep = 0 THEN StepMax
  ELSE IF Sgn(a.prevStep) = dir THEN Min2(2 * Abs(a.prevStep), FoldStepMax)
  ELSE 0

Magnitude(a, dir) ==
  IF a.prevStep = 0 THEN StepMax
  ELSE IF Sgn(a.prevStep) = dir THEN Min2(2 * Abs(a.prevStep), FoldStepMax)
  ELSE Abs(a.prevStep) \div 2

Bracketed(a, d, p) ==
  LET dir == Direction(a, p)
      mag == Magnitude(a, dir)
  IN  IF mag = 0
      THEN [a EXCEPT !.bracket = TRUE, !.bracketDc = d, !.prevStep = 0, !.foldWalk = 0, !.step = 0]
      ELSE [a EXCEPT !.foldWalk = @ + mag, !.prevStep = dir * mag, !.step = dir * mag]

\* In the linear zone: the computed step, at least one code (256-268).
Computed(a, d) ==
  LET q  == Round(-d * GainPct, a.slope * 100)
      st == IF q = 0 THEN IF (d > 0) = (a.slope > 0) THEN -1 ELSE 1
            ELSE IF q > StepMax THEN StepMax ELSE IF q < -StepMax THEN -StepMax ELSE q
  IN  [a EXCEPT !.prevStep = st, !.step = st]

\* A held crossing stays until the mean has moved (186-192).
Holds(a, d) == a.bracket /\ Abs(d - a.bracketDc) <= BracketMove

Chosen(a, d, p) ==
  IF ~Folded(p)
  THEN IF Abs(d) <= Deadband THEN [a EXCEPT !.prevStep = 0, !.step = 0] ELSE Computed(a, d)
  ELSE IF Holds(a, d) THEN [a EXCEPT !.step = 0]
  ELSE LET b == IF a.bracket THEN [a EXCEPT !.bracket = FALSE, !.prevStep = 0] ELSE a
       IN  Bracketed(Walked(b), d, p)

(***************************************************************************)
(* servo_service for one row with a fresh mean.                            *)
(***************************************************************************)
Axis(r) == [lastDc |-> row[r].lastDc, lastStep |-> row[r].lastStep, bad |-> row[r].bad,
            lastFolded |-> row[r].lastFolded, foldWalk |-> row[r].foldWalk,
            lastPneg |-> row[r].lastPneg, foldWindow |-> row[r].foldWindow,
            foldBad |-> row[r].foldBad, prevStep |-> row[r].prevStep,
            bracket |-> row[r].bracket, bracketDc |-> row[r].bracketDc,
            slope |-> slope, known |-> known, votes |-> votes, step |-> 0]

Trimmed(r, st) ==
  LET o == offset[r] + st IN (IF o > TrimMax THEN TrimMax ELSE IF o < -TrimMax THEN -TrimMax ELSE o) - offset[r]

\* The record of a row after its decision; a step that was written becomes
\* evidence for the next mean (dc_servo_applied).
RowAfter(a, d, applied) ==
  [f \in DOMAIN FreshRow |->
     IF applied = 0 THEN a[f]
     ELSE IF f = "lastDc" THEN d
     ELSE IF f = "lastStep" THEN applied
     ELSE a[f]]

\* How much of a step the actuator may write: all of it, the trials before a
\* refused one, or nothing (servo_write_active).
Writes(st) == {st} \cup (IF Abs(st) > TryMax THEN {Sgn(st) * TryMax} ELSE {}) \cup {0}

\* A row has a search to go on with, or has ended it.
Searches(w) == w.prevStep # 0 \/ w.bracket

\* A row's last step tells nothing once another row has turned the polarity.
NewlyMisled(r, s) == IF Sgn(s) = Sgn(slope) THEN {} ELSE {x \in Rows \ {r} : row[x].prevStep # 0}

Decide(r, refused) ==
  \E d \in {Mean(DC(r))} : \E p \in {Share(DC(r))} :
  \E a \in {ShareJudged(Axis(r), p)} :
  \E b \in {Learned(a, d, p)} :
  \E c \in {Noted(Relearned(b, d, p), p)} :
  \E e \in {Chosen(c, d, p)} :
  \E st \in {Trimmed(r, e.step)} :
  \E applied \in IF refused THEN Writes(st) \ {st} ELSE {st} :
    /\ slope' = e.slope /\ known' = e.known /\ votes' = e.votes
    /\ row' = [row EXCEPT ![r] = RowAfter(e, d, applied)]
    /\ offset' = [offset EXCEPT ![r] = @ + applied]
    /\ misled' = {x \in misled \cup NewlyMisled(r, e.slope) : Searches(row'[x])}
    /\ UNCHANGED <<plant, upset>>

Upset == upsets < MaxUpsets /\ upsets' = upsets + 1

Service(r) == Decide(r, FALSE) /\ UNCHANGED upsets

\* The gain moved, the PHY is busy or a trial is refused.
ServiceRefused(r) == Upset /\ Decide(r, TRUE)

\* Another channel, offset, filter or table, the tuning and the zeros as they
\* were: no step is evidence any more (dc_servo_forget_all).
Forgotten(w) ==
  [w EXCEPT !.lastStep = 0, !.prevStep = 0, !.bracket = FALSE, !.foldWalk = 0,
            !.foldWindow = 0, !.foldBad = 0, !.lastFolded = FALSE]

ForgetAll ==
  /\ Upset
  /\ row' = [r \in Rows |-> Forgotten(row[r])]
  /\ misled' = {}
  /\ UNCHANGED <<slope, known, votes, offset, plant, upset>>

\* External: the DC of a row moves by itself.
Jump(r) ==
  /\ Upset
  /\ \E j \in Jumps :
       /\ Abs(stored[r] + j) <= TrimMax * Abs(trueSlope)
       /\ stored' = [stored EXCEPT ![r] = @ + j]
  /\ upset' = upset \cup {r}
  /\ UNCHANGED <<slope, known, votes, row, offset, trueSlope, sigma, misled>>

Next ==
  \/ \E r \in Rows : Service(r) \/ ServiceRefused(r) \/ Jump(r)
  \/ ForgetAll

\* Every row keeps getting samples: the gain visits it again and again.
Spec == Init /\ [][Next]_vars /\ \A r \in Rows : WF_vars(Service(r))

-----------------------------------------------------------------------------
TypeOK ==
  /\ slope \in -SlopeMax .. SlopeMax /\ known \in BOOLEAN /\ votes \in -4 .. 4
  /\ offset \in [Rows -> -TrimMax .. TrimMax]
  /\ \A r \in Rows :
       /\ row[r].prevStep \in -FoldStepMax .. FoldStepMax
       /\ row[r].bad \in 0 .. BadRun - 1
       /\ row[r].foldWalk \in 0 .. FoldFlipMax + FoldStepMax
  /\ upsets \in 0 .. MaxUpsets

\* While no zero has moved by itself, a slope that was measured has the
\* polarity of the hardware, and a vote never goes the other way: nothing is
\* learned where the IQ folds (dc_servo.h:46-55, 150-166).
LearnedIsTrue ==
  upset = {} => /\ known => Sgn(slope) = Sgn(trueSlope)
                /\ votes * Sgn(trueSlope) >= 0

\* A crossing that is held lies within one code of the true zero
\* (dc_servo.h:59-68), unless the zero has moved by itself since, or another
\* row turned the polarity they share in the midst of this row's search.
BracketHoldsZero ==
  \A r \in Rows \ (upset \cup misled) : row[r].bracket => Abs(DC(r)) <= Abs(trueSlope)

\* What dc_servo.h:66-67 says of every row: a turn by another row looks like a
\* crossing of zero to a row whose last step was of one code.
EveryBracketHoldsZero ==
  \A r \in Rows \ upset : row[r].bracket => Abs(DC(r)) <= Abs(trueSlope)

Centred(r) == Abs(DC(r)) <= Deadband \/ Abs(DC(r)) <= Abs(trueSlope)

\* A step of the default size that is too small to learn the slope from may
\* overshoot a zero between two codes for ever.
SmallStep(r) == Abs(Round(DC(r) * GainPct, SlopeDefault * 100)) < LearnStep

Settled(r) == Centred(r) \/ SmallStep(r)

\* The share leaves saturation over at least four codes on either side of zero.
WideRow == (128 * sigma) \div 100 >= 4 * Abs(trueSlope)

Resting(r) == upset # {} \/ Settled(r)
WideResting(r) == WideRow => Resting(r)
WideCentred(r) == WideRow => upset # {} \/ Centred(r)

\* From any stored codes, with either polarity of the hardware and whatever
\* was refused or forgotten on the way, a row whose linear zone is wide enough
\* and whose zero stays ends within the deadband, one code of its zero or a
\* step too small to learn from, and stays there (dc_servo.h:19-22).
Settles == \A r \in Rows : <>[]WideResting(r)

\* The same for a row of any noise: "The bracket must settle on the one-code
\* crossing instead of hunting +-8 codes" (test/test_dc_servo.c:264-266).
SettlesAtAnyNoise == \A r \in Rows : <>[]Resting(r)

\* "The loop still converges to the true zero" (dc_servo.h:21-22), for a row
\* that is wide enough.
ConvergesToZero == \A r \in Rows : <>[]WideCentred(r)
=============================================================================
