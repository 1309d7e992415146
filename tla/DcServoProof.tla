---------------------------- MODULE DcServoProof ----------------------------
(***************************************************************************)
(* The limits of the DC servo for any rows, slopes, noise and jumps: the   *)
(* slope, the votes, the trims and the search stay within their bounds     *)
(* through any sequence of means.  Every stage of a decision keeps the     *)
(* limits of an axis, and leaves its slope different from zero, so that    *)
(* the next one can be computed at all.                                    *)
(***************************************************************************)
EXTENDS DcServo, TLAPS

\* The ranges of an axis.  They are expanded only where a number is computed.
Slopes  == (-SlopeMax .. SlopeMax) \ {0}
Flags   == BOOLEAN
Votings == -4 .. 4
Bads    == 0 .. BadRun - 1
Walks   == 0 .. FoldFlipMax + FoldStepMax
Windows == 0 .. FoldFlipMax
StepsTo == -FoldStepMax .. FoldStepMax

RowRec ==
  [lastDc : Int, lastStep : Int, bad : Bads, lastFolded : Flags, foldWalk : Walks,
   lastPneg : Int, foldWindow : Windows, foldBad : Nat, prevStep : StepsTo,
   bracket : Flags, bracketDc : Int]

AxisRec ==
  [lastDc : Int, lastStep : Int, bad : Bads, lastFolded : Flags, foldWalk : Walks,
   lastPneg : Int, foldWindow : Windows, foldBad : Nat, prevStep : StepsTo,
   bracket : Flags, bracketDc : Int,
   slope : Slopes, known : Flags, votes : Votings, step : StepsTo]

LEMMA Ranges ==
  /\ {0, FoldFlip} \subseteq Windows /\ 0 \in Walks /\ 0 \in Bads /\ 0 \in StepsTo /\ 0 \in Votings
  /\ {TRUE, FALSE} \subseteq Flags
  /\ SlopeDefault \in Slopes /\ -SlopeDefault \in Slopes
  /\ \A s \in Slopes : -s \in Slopes
  /\ Slopes \subseteq Int /\ StepsTo \subseteq Int /\ Walks \subseteq Int /\ Windows \subseteq Int
  BY DEF Slopes, Flags, Votings, Bads, Walks, Windows, StepsTo, SlopeMax, SlopeDefault, BadRun,
     FoldFlip, FoldFlipMax, FoldStepMax

LEMMA ArithmeticFacts ==
  /\ \A x \in Int : Abs(x) \in Nat /\ (x # 0 => Abs(x) # 0) /\ Sgn(x) \in {-1, 1}
  /\ \A x \in Int, y \in Int \ {0} : Quot(x, y) \in Int /\ Round(x, y) \in Int
<1>1. \A x \in Int : Abs(x) \in Nat /\ (x # 0 => Abs(x) # 0) /\ Sgn(x) \in {-1, 1}
  BY DEF Abs, Sgn
<1>2. ASSUME NEW x \in Int, NEW y \in Int \ {0} PROVE Quot(x, y) \in Int /\ Round(x, y) \in Int
  <2>1. Abs(x) \in Nat /\ Abs(y) \in Nat \ {0} /\ 2 * Abs(y) \in Nat \ {0} /\ 2 * Abs(x) + Abs(y) \in Nat
    BY <1>1
  <2>2. \A m \in Nat, n \in Nat \ {0} : m \div n \in Nat
    OBVIOUS
  <2>3. Abs(x) \div Abs(y) \in Nat /\ (2 * Abs(x) + Abs(y)) \div (2 * Abs(y)) \in Nat
    BY <2>1, <2>2
  <2>4. Sgn(x) \in {-1, 1} /\ Sgn(y) \in {-1, 1}
    BY <1>1
  <2>5. QED
    BY <2>3, <2>4 DEF Quot, Round
<1>3. QED
  BY <1>1, <1>2

LEMMA ShareJudgedType ==
  ASSUME NEW a \in AxisRec, NEW p \in Int
  PROVE  ShareJudged(a, p) \in AxisRec
<1> DEFINE b == [a EXCEPT !.foldBad = @ + 1]
           w == IF b.foldWindow = 0 THEN FoldFlip ELSE b.foldWindow
           turned == [b EXCEPT !.slope = -@, !.known = FALSE, !.foldBad = 0, !.foldWalk = 0,
                               !.foldWindow = IF @ = 0 THEN FoldFlip ELSE @]
<1>1. b \in AxisRec
  BY DEF AxisRec
<1>2. turned \in AxisRec
  <2> HIDE DEF b
  <2>1. -b.slope \in Slopes /\ w \in Windows
    BY <1>1, Ranges DEF AxisRec
  <2>2. QED
    BY <1>1, <2>1, Ranges DEF AxisRec
<1>3. [a EXCEPT !.foldBad = 0] \in AxisRec
  BY DEF AxisRec
<1>4. ShareJudged(a, p) \in {a, turned, b, [a EXCEPT !.foldBad = 0]}
  BY DEF ShareJudged
<1>5. QED
  BY <1>1, <1>2, <1>3, <1>4

LEMMA LearnedType ==
  ASSUME NEW a \in AxisRec, NEW d \in Int, NEW p \in Int
  PROVE  Learned(a, d, p) \in AxisRec
<1>1. CASE ~Teaches(a, d, p)
  BY <1>1 DEF Learned
<1>2. CASE Teaches(a, d, p)
  <2> DEFINE m == Measured(a, d)
             v == Vote(a.votes, m)
             sl == IF ~a.known THEN m
                   ELSE IF Sgn(a.slope) = Sgn(m) THEN Quot(a.slope + m, 2) ELSE a.slope
  <2>1. a.lastStep \in Int \ {0} /\ d - a.lastDc \in Int /\ a.votes \in Votings /\ a.slope \in Slopes
    BY <1>2 DEF Teaches, AxisRec
  <2>2. m \in Int
    BY <2>1, ArithmeticFacts DEF Measured
  <2>3. m \in Slopes
    BY <1>2, <2>2 DEF Teaches, Abs, Slopes, SlopeMin, SlopeMax
  <2> HIDE DEF m
  <2>4. v \in Votings
    BY <2>1, <2>3 DEF Vote, Sgn, Votings, Slopes
  <2>5. sl \in Slopes
    <3>1. \A x \in Slopes, y \in Slopes : Sgn(x) = Sgn(y) => Quot(x + y, 2) \in Slopes
      BY DEF Quot, Abs, Sgn, Slopes, SlopeMax
    <3>2. QED
      BY <2>1, <2>3, <3>1
  <2> HIDE DEF v, sl
  <2>6. [a EXCEPT !.votes = v, !.known = TRUE, !.slope = sl] \in AxisRec
    BY <2>4, <2>5, Ranges DEF AxisRec
  <2>7. Learned(a, d, p) = [a EXCEPT !.votes = v, !.known = TRUE, !.slope = sl]
    BY <1>2 DEF Learned, m, v, sl
  <2>8. QED
    BY <2>6, <2>7
<1>3. QED
  BY <1>1, <1>2

LEMMA RelearnedType ==
  ASSUME NEW a \in AxisRec, NEW d \in Int, NEW p \in Int
  PROVE  Relearned(a, d, p) \in AxisRec
<1> DEFINE b == [a EXCEPT !.lastStep = 0]
<1>1. b \in AxisRec /\ b.bad = a.bad
  BY DEF AxisRec
<1> HIDE DEF b
<1>2. [b EXCEPT !.bad = 0] \in AxisRec
  BY <1>1, Ranges DEF AxisRec
<1>3. a.bad + 1 < BadRun => [b EXCEPT !.bad = @ + 1] \in AxisRec
  <2>1. a.bad + 1 < BadRun => b.bad + 1 \in Bads
    <3>1. b.bad \in Bads
      BY <1>1 DEF AxisRec
    <3>2. QED
      BY <1>1, <3>1 DEF Bads, BadRun
  <2>2. QED
    BY <1>1, <2>1 DEF AxisRec
<1>4. [b EXCEPT !.slope = Sgn(@) * SlopeDefault, !.known = FALSE, !.bad = 0] \in AxisRec
  <2>1. Sgn(b.slope) * SlopeDefault \in Slopes
    BY DEF Sgn, Slopes, SlopeDefault, SlopeMax
  <2>2. QED
    BY <1>1, <2>1, Ranges DEF AxisRec
<1>5. QED
  BY <1>2, <1>3, <1>4 DEF Relearned, b

LEMMA NotedType ==
  ASSUME NEW a \in AxisRec, NEW p \in Int
  PROVE  Noted(a, p) \in AxisRec
<1> DEFINE b == [a EXCEPT !.lastFolded = Folded(p), !.lastPneg = p]
<1>1. b \in AxisRec
  <2>1. Folded(p) \in Flags
    BY DEF Folded, Flags
  <2>2. QED
    BY <2>1 DEF AxisRec
<1> HIDE DEF b
<1>2. [b EXCEPT !.foldWindow = IF @ = 0 THEN FoldFlip ELSE @] \in AxisRec
  BY <1>1, Ranges DEF AxisRec
<1>3. [b EXCEPT !.foldWalk = 0, !.foldBad = 0, !.foldWindow = FoldFlip, !.bracket = FALSE] \in AxisRec
  BY <1>1, Ranges DEF AxisRec
<1>4. QED
  BY <1>2, <1>3 DEF Noted, b

\* A walk that reached its window starts again, so that one search step more
\* still fits.
LEMMA WalkedType ==
  ASSUME NEW a \in AxisRec
  PROVE  Walked(a) \in AxisRec /\ Walked(a).foldWalk <= FoldFlipMax
<1> DEFINE b == [a EXCEPT !.foldWalk = 0, !.foldWindow = Wider(@)]
<1>1. a.foldWindow \in Windows /\ a.foldWalk \in Walks
  BY DEF AxisRec
<1>2. CASE a.foldWalk < a.foldWindow
  BY <1>1, <1>2 DEF Walked, Windows, Walks, FoldFlipMax
<1>3. CASE ~(a.foldWalk < a.foldWindow)
  <2>1. Wider(a.foldWindow) \in Windows
    BY <1>1 DEF Wider, Min2, Windows, FoldFlipMax
  <2>2. b \in AxisRec /\ b.foldWalk = 0
    BY <2>1, Ranges DEF AxisRec
  <2> HIDE DEF b
  <2>3. -b.slope \in Slopes
    BY <2>2, Ranges DEF AxisRec
  <2>4. [b EXCEPT !.slope = -@, !.known = FALSE, !.prevStep = 0] \in AxisRec
    BY <2>2, <2>3, Ranges DEF AxisRec
  <2>5. [b EXCEPT !.slope = -@, !.known = FALSE, !.prevStep = 0].foldWalk = b.foldWalk
    BY <2>2 DEF AxisRec
  <2>6. Walked(a) \in {b, [b EXCEPT !.slope = -@, !.known = FALSE, !.prevStep = 0]}
    BY <1>3 DEF Walked, b
  <2>7. CASE Walked(a) = b
    BY <2>2, <2>7 DEF FoldFlipMax
  <2>8. CASE Walked(a) = [b EXCEPT !.slope = -@, !.known = FALSE, !.prevStep = 0]
    <3>1. Walked(a).foldWalk = 0 /\ Walked(a) \in AxisRec
      BY <2>2, <2>4, <2>5, <2>8
    <3>2. QED
      BY <3>1 DEF FoldFlipMax
  <2>9. QED
    BY <2>6, <2>7, <2>8
<1>4. QED
  BY <1>2, <1>3

LEMMA BracketedType ==
  ASSUME NEW a \in AxisRec, NEW d \in Int, NEW p \in Int, a.foldWalk <= FoldFlipMax
  PROVE  Bracketed(a, d, p) \in AxisRec
<1> DEFINE dir == Direction(a, p)
           mag == Magnitude(a, dir)
<1>1. dir \in {-1, 1}
  BY DEF Direction
<1> HIDE DEF dir
<1>2. mag \in 0 .. FoldStepMax
  <2>1. a.prevStep \in StepsTo
    BY DEF AxisRec
  <2>2. QED
    BY <2>1 DEF Magnitude, Min2, Abs, StepsTo, FoldStepMax, StepMax
<1> HIDE DEF mag
<1>3. dir * mag \in StepsTo /\ a.foldWalk + mag \in Walks
  <2>1. a.foldWalk \in Walks
    BY DEF AxisRec
  <2>2. dir * mag = mag \/ dir * mag = -mag
    BY <1>1, <1>2
  <2>3. mag \in StepsTo /\ -mag \in StepsTo
    BY <1>2 DEF StepsTo, FoldStepMax
  <2>4. a.foldWalk + mag \in Walks
    <3>1. a.foldWalk \in 0 .. FoldFlipMax
      BY <2>1 DEF Walks, FoldFlipMax, FoldStepMax
    <3>2. \A x \in 0 .. FoldFlipMax, y \in 0 .. FoldStepMax : x + y \in Walks
      BY DEF Walks, FoldFlipMax, FoldStepMax
    <3>3. QED
      BY <1>2, <3>1, <3>2
  <2>5. QED
    BY <2>2, <2>3, <2>4
<1>4. [a EXCEPT !.bracket = TRUE, !.bracketDc = d, !.prevStep = 0, !.foldWalk = 0, !.step = 0] \in AxisRec
  BY Ranges DEF AxisRec
<1>5. [a EXCEPT !.foldWalk = @ + mag, !.prevStep = dir * mag, !.step = dir * mag] \in AxisRec
  BY <1>3 DEF AxisRec
<1>6. QED
  BY <1>4, <1>5 DEF Bracketed, dir, mag

LEMMA ComputedType ==
  ASSUME NEW a \in AxisRec, NEW d \in Int
  PROVE  Computed(a, d) \in AxisRec
<1> DEFINE q == Round(-d * GainPct, a.slope * 100)
           st == IF q = 0 THEN IF (d > 0) = (a.slope > 0) THEN -1 ELSE 1
                 ELSE IF q > StepMax THEN StepMax ELSE IF q < -StepMax THEN -StepMax ELSE q
<1>1. a.slope \in Int \ {0}
  BY DEF AxisRec, Slopes, SlopeMax
<1>2. a.slope * 100 \in Int \ {0} /\ -d * GainPct \in Int
  BY <1>1 DEF GainPct
<1>3. q \in Int
  BY <1>2, ArithmeticFacts
<1> HIDE DEF q
<1>4. st \in StepsTo
  BY <1>3 DEF StepsTo, StepMax, FoldStepMax
<1> HIDE DEF st
<1>5. [a EXCEPT !.prevStep = st, !.step = st] \in AxisRec
  BY <1>4 DEF AxisRec
<1>6. QED
  BY <1>5 DEF Computed, st, q

LEMMA ChosenType ==
  ASSUME NEW a \in AxisRec, NEW d \in Int, NEW p \in Int
  PROVE  Chosen(a, d, p) \in AxisRec
<1> DEFINE b == IF a.bracket THEN [a EXCEPT !.bracket = FALSE, !.prevStep = 0] ELSE a
<1>1. [a EXCEPT !.prevStep = 0, !.step = 0] \in AxisRec /\ [a EXCEPT !.step = 0] \in AxisRec
  BY Ranges DEF AxisRec
<1>2. b \in AxisRec
  BY Ranges DEF AxisRec
<1> HIDE DEF b
<1>3. Bracketed(Walked(b), d, p) \in AxisRec
  BY <1>2, WalkedType, BracketedType
<1>4. Computed(a, d) \in AxisRec
  BY ComputedType
<1>5. QED
  BY <1>1, <1>3, <1>4 DEF Chosen, b

-----------------------------------------------------------------------------
IInv ==
  /\ slope \in Slopes /\ known \in Flags /\ votes \in Votings
  /\ row \in [Rows -> RowRec]
  /\ offset \in [Rows -> -TrimMax .. TrimMax] /\ stored \in [Rows -> Int]
  /\ trueSlope \in TrueSlopes /\ sigma \in Sigmas
  /\ upsets \in 0 .. MaxUpsets

LEMMA InitIInv == Init => IInv
<1> SUFFICES ASSUME Init PROVE IInv
  OBVIOUS
<1>1. FreshRow \in RowRec
  BY Ranges DEF FreshRow, RowRec
<1>2. row \in [Rows -> RowRec]
  BY <1>1 DEF Init
<1>3. 0 \in -TrimMax .. TrimMax /\ 0 \in 0 .. MaxUpsets /\ Stored \subseteq Int
  BY TrimAssumption, BoundAssumption, PlantAssumption
<1>4. offset \in [Rows -> -TrimMax .. TrimMax] /\ stored \in [Rows -> Int]
  BY <1>3 DEF Init
<1>5. QED
  BY <1>2, <1>3, <1>4, Ranges DEF Init, IInv

\* The mean and the share of a row are integers.
LEMMA WindowType ==
  ASSUME IInv, NEW r \in Rows
  PROVE  DC(r) \in Int /\ Mean(DC(r)) \in Int /\ Share(DC(r)) \in Int
<1>1. trueSlope \in Int /\ sigma \in Nat \ {0} /\ offset[r] \in Int /\ stored[r] \in Int
  BY PlantAssumption, TrimAssumption DEF IInv
<1>2. DC(r) \in Int
  BY <1>1 DEF DC
<1>3. \A d \in Int : Mean(d) \in Int
  <2>1. \A d \in Int : Abs(d) \in Nat /\ Sgn(d) \in {-1, 1}
    BY ArithmeticFacts
  <2>2. \A d \in Int : (Abs(d) - 2500) \div 4 \in Int
    BY <2>1
  <2>3. QED
    BY <2>1, <2>2 DEF Mean
<1>4. \A d \in Int : Share(d) \in Int
  <2> TAKE d \in Int
  <2>1. Abs(d) * 100 \in Nat
    BY ArithmeticFacts
  <2>2. \A x \in Nat, y \in Nat \ {0} : x \div y \in Nat
    OBVIOUS
  <2>3. (Abs(d) * 100) \div sigma \in Nat
    BY <1>1, <2>1, <2>2
  <2> DEFINE x == (Abs(d) * 100) \div sigma
             below == IF x <= 128 THEN 500 - (x * 400) \div 128
                      ELSE IF x <= 300 THEN 100 - ((x - 128) * 100) \div 172 ELSE 0
  <2>4. x \in Nat
    BY <2>3
  <2> HIDE DEF x
  <2>5. below \in Int
    BY <2>4
  <2> HIDE DEF below
  <2>6. Share(d) = IF d >= 0 THEN below ELSE 1000 - below
    BY DEF Share, below, x
  <2>7. QED
    BY <2>5, <2>6
<1>5. QED
  BY <1>2, <1>3, <1>4

LEMMA AxisType ==
  ASSUME IInv, NEW r \in Rows
  PROVE  Axis(r) \in AxisRec
<1>1. row[r] \in RowRec /\ 0 \in StepsTo
  BY Ranges DEF IInv
<1>2. QED
  BY <1>1 DEF Axis, AxisRec, RowRec, IInv

\* The trim that is written stays inside its limits, and so does any part of it.
LEMMA TrimType ==
  ASSUME IInv, NEW r \in Rows, NEW st \in StepsTo, NEW w \in Writes(Trimmed(r, st))
  PROVE  Trimmed(r, st) \in Int /\ w \in Int /\ offset[r] + w \in -TrimMax .. TrimMax
<1> DEFINE t == Trimmed(r, st)
<1>1. TrimMax \in Nat /\ offset[r] \in -TrimMax .. TrimMax /\ st \in Int
  BY TrimAssumption, Ranges DEF IInv
<1>2. t \in Int /\ offset[r] + t \in -TrimMax .. TrimMax
  BY <1>1 DEF Trimmed
<1> HIDE DEF t
<1>3. w = t \/ w = 0 \/ (Abs(t) > TryMax /\ w = Sgn(t) * TryMax)
  BY DEF Writes, t
<1>4. CASE Abs(t) > TryMax /\ w = Sgn(t) * TryMax
  <2>1. (w = TryMax /\ t > TryMax) \/ (w = -TryMax /\ t < -TryMax)
    BY <1>2, <1>4 DEF Abs, Sgn, TryMax
  <2>2. QED
    BY <1>1, <1>2, <2>1 DEF TryMax, t
<1>5. QED
  BY <1>1, <1>2, <1>3, <1>4 DEF t

LEMMA RowAfterType ==
  ASSUME NEW a \in AxisRec, NEW d \in Int, NEW w \in Int
  PROVE  RowAfter(a, d, w) \in RowRec
<1>1. DOMAIN FreshRow = {"lastDc", "lastStep", "bad", "lastFolded", "foldWalk", "lastPneg",
                         "foldWindow", "foldBad", "prevStep", "bracket", "bracketDc"}
  BY DEF FreshRow
<1>2. QED
  BY <1>1 DEF RowAfter, RowRec, AxisRec

\* The stages of a decision on one row, and what of it is written.
Judged(r)   == ShareJudged(Axis(r), Share(DC(r)))
Taught(r)   == Learned(Judged(r), Mean(DC(r)), Share(DC(r)))
Prepared(r) == Noted(Relearned(Taught(r), Mean(DC(r)), Share(DC(r))), Share(DC(r)))
Decided(r)  == Chosen(Prepared(r), Mean(DC(r)), Share(DC(r)))

Done(r, v, w, x) ==
  /\ slope' = v.slope /\ known' = v.known /\ votes' = v.votes
  /\ row' = [row EXCEPT ![r] = RowAfter(v, x, w)]
  /\ offset' = [offset EXCEPT ![r] = @ + w]
  /\ misled' = {q \in misled \cup NewlyMisled(r, v.slope) : Searches(row'[q])}
  /\ UNCHANGED <<plant, upset>>

LEMMA Stages ==
  ASSUME NEW r \in Rows, NEW refused \in BOOLEAN, Decide(r, refused)
  PROVE  \E w \in Writes(Trimmed(r, Decided(r).step)) : Done(r, Decided(r), w, Mean(DC(r)))
<1> DEFINE d == Mean(DC(r))
           p == Share(DC(r))
           a == ShareJudged(Axis(r), p)
           b == Learned(a, d, p)
           c == Noted(Relearned(b, d, p), p)
           e == Chosen(c, d, p)
           st == Trimmed(r, e.step)
           Some(s) == IF refused THEN Writes(s) \ {s} ELSE {s}
           AfterE(v, x) == \E s \in {Trimmed(r, v.step)} : \E w \in Some(s) : Done(r, v, w, x)
           AfterC(v, x, y) == \E z \in {Chosen(v, x, y)} : AfterE(z, x)
           AfterB(v, x, y) == \E z \in {Noted(Relearned(v, x, y), y)} : AfterC(z, x, y)
           AfterA(v, x, y) == \E z \in {Learned(v, x, y)} : AfterB(z, x, y)
<1>1. \E x \in {d} : \E y \in {p} : \E z \in {ShareJudged(Axis(r), y)} : AfterA(z, x, y)
  BY DEF Decide, Done
<1>2. e = Decided(r)
  BY DEF Decided, Prepared, Taught, Judged
<1> HIDE DEF AfterA
<1>3. AfterA(a, d, p)
  BY <1>1
<1> USE DEF AfterA
<1> HIDE DEF AfterB, a, d, p
<1>4. AfterB(b, d, p)
  BY <1>3
<1> USE DEF AfterB
<1> HIDE DEF AfterC, b
<1>5. AfterC(c, d, p)
  BY <1>4
<1> USE DEF AfterC
<1> HIDE DEF AfterE, c
<1>6. AfterE(e, d)
  BY <1>5
<1> USE DEF AfterE
<1> HIDE DEF Some, e
<1>7. \E w \in Some(st) : Done(r, e, w, d)
  BY <1>6
<1>8. Some(st) \subseteq Writes(st)
  BY DEF Some, Writes
<1>9. QED
  BY <1>2, <1>7, <1>8 DEF d

LEMMA StagesType ==
  ASSUME IInv, NEW r \in Rows
  PROVE  /\ Axis(r) \in AxisRec /\ Judged(r) \in AxisRec /\ Taught(r) \in AxisRec
         /\ Relearned(Taught(r), Mean(DC(r)), Share(DC(r))) \in AxisRec
         /\ Prepared(r) \in AxisRec /\ Decided(r) \in AxisRec
<1>1. Mean(DC(r)) \in Int /\ Share(DC(r)) \in Int
  BY WindowType
<1>2. Axis(r) \in AxisRec /\ Judged(r) \in AxisRec
  BY <1>1, AxisType, ShareJudgedType DEF Judged
<1>3. Taught(r) \in AxisRec
  BY <1>1, <1>2, LearnedType DEF Taught
<1>4. Relearned(Taught(r), Mean(DC(r)), Share(DC(r))) \in AxisRec /\ Prepared(r) \in AxisRec
  BY <1>1, <1>3, RelearnedType, NotedType DEF Prepared
<1>5. Decided(r) \in AxisRec
  BY <1>1, <1>4, ChosenType DEF Decided
<1>6. QED
  BY <1>2, <1>3, <1>4, <1>5

\* One decision on one row keeps every limit, whatever part of it is written.
LEMMA DecideType ==
  ASSUME IInv, NEW r \in Rows, NEW refused \in BOOLEAN, Decide(r, refused)
  PROVE  /\ slope' \in Slopes /\ known' \in Flags /\ votes' \in Votings
         /\ row' \in [Rows -> RowRec] /\ offset' \in [Rows -> -TrimMax .. TrimMax]
         /\ UNCHANGED <<plant, upset>>
<1> DEFINE d == Mean(DC(r))
           e == Decided(r)
           st == Trimmed(r, e.step)
<1>1. PICK applied \in Writes(st) : Done(r, e, applied, d)
  BY Stages
<1>2. d \in Int
  BY WindowType
<1>3. e \in AxisRec
  BY StagesType
<1> HIDE DEF d, e
<1>4. e.slope \in Slopes /\ e.known \in Flags /\ e.votes \in Votings /\ e.step \in StepsTo
  BY <1>3 DEF AxisRec
<1>5. applied \in Int /\ offset[r] + applied \in -TrimMax .. TrimMax
  BY <1>4, TrimType
<1>6. RowAfter(e, d, applied) \in RowRec
  BY <1>2, <1>3, <1>5, RowAfterType
<1>7. QED
  BY <1>1, <1>4, <1>5, <1>6 DEF IInv, Done

LEMMA StepIInv == IInv /\ [Next]_vars => IInv'
<1> SUFFICES ASSUME IInv, [Next]_vars PROVE IInv'
  OBVIOUS
<1>0. MaxUpsets \in Nat /\ TrimMax \in Nat
  BY BoundAssumption, TrimAssumption
<1>1. ASSUME NEW r \in Rows, Service(r) PROVE IInv'
  BY <1>1, DecideType DEF Service, IInv, plant
<1>2. ASSUME NEW r \in Rows, ServiceRefused(r) PROVE IInv'
  <2>1. upsets' \in 0 .. MaxUpsets
    BY <1>0, <1>2 DEF ServiceRefused, Upset, IInv
  <2>2. Decide(r, TRUE)
    BY <1>2 DEF ServiceRefused
  <2>3. /\ slope' \in Slopes /\ known' \in Flags /\ votes' \in Votings
        /\ row' \in [Rows -> RowRec] /\ offset' \in [Rows -> -TrimMax .. TrimMax]
        /\ UNCHANGED <<plant, upset>>
    BY <2>2, DecideType
  <2>4. QED
    BY <2>1, <2>3 DEF IInv, plant
<1>3. ASSUME NEW r \in Rows, Jump(r) PROVE IInv'
  <2>1. PICK j \in Jumps : stored' = [stored EXCEPT ![r] = @ + j]
    BY <1>3 DEF Jump
  <2>2. stored[r] + j \in Int
    BY <2>1, PlantAssumption DEF IInv
  <2>3. stored' \in [Rows -> Int]
    BY <2>1, <2>2 DEF IInv
  <2>4. QED
    BY <1>0, <1>3, <2>3 DEF Jump, Upset, IInv
<1>4. CASE ForgetAll
  <2>1. \A w \in RowRec : Forgotten(w) \in RowRec
    BY Ranges DEF Forgotten, RowRec
  <2>2. row' \in [Rows -> RowRec]
    BY <1>4, <2>1 DEF ForgetAll, IInv
  <2>3. QED
    BY <1>0, <1>4, <2>2 DEF ForgetAll, Upset, IInv, plant
<1>5. CASE UNCHANGED vars
  BY <1>5 DEF vars, plant, IInv
<1>6. QED
  BY <1>1, <1>2, <1>3, <1>4, <1>5 DEF Next

\* Whatever the receiver shows, the servo stays within its limits: the slope is
\* a slope the hardware can have and never zero, the trims stay inside
\* dc_trim_max, the search inside its step and its walk.
THEOREM TypeCorrect == Spec => []TypeOK
<1>1. IInv => TypeOK
  <2> SUFFICES ASSUME IInv PROVE TypeOK
    OBVIOUS
  <2>1. \A r \in Rows : row[r].prevStep \in StepsTo /\ row[r].bad \in Bads /\ row[r].foldWalk \in Walks
    BY DEF IInv, RowRec
  <2>2. QED
    BY <2>1 DEF IInv, TypeOK, Slopes, Flags, Votings, StepsTo, Bads, Walks
<1>2. QED
  BY <1>1, InitIInv, StepIInv, PTL DEF Spec

-----------------------------------------------------------------------------
(* What is learned is true.  While no zero has moved by itself, the last step *)
(* of a row is evidence: the mean noted with it is the one at the trim before *)
(* the step.  A lesson needs both means outside the fold, where the order of  *)
(* two means that differ by 150 is that of the DC, so the quotient has the    *)
(* sign of the hardware.                                                      *)

LEMMA DivisionFacts ==
  ASSUME NEW n \in Nat, NEW m \in Nat \ {0}
  PROVE  n \div m \in Nat /\ (n \div m) * m <= n /\ n < (n \div m) * m + m
  OBVIOUS

\* A share that is not folded means a DC inside 3.1 cells.
LEMMA NearZero ==
  ASSUME IInv, NEW d \in Int, ~Folded(Share(d))
  PROVE  Abs(d) < 3100
<1>1. sigma \in Nat \ {0} /\ 13 * sigma <= 31000
  BY PlantAssumption, NoiseAssumption DEF IInv
<1>2. Abs(d) \in Nat
  BY ArithmeticFacts
<1> DEFINE x == (Abs(d) * 100) \div sigma
<1>3. x \in Nat /\ Abs(d) * 100 < x * sigma + sigma
  <2> DEFINE n == Abs(d) * 100
  <2>1. n \in Nat
    BY <1>2
  <2> HIDE DEF n
  <2>2. n \div sigma \in Nat /\ n < (n \div sigma) * sigma + sigma
    BY <1>1, <2>1, DivisionFacts
  <2>3. QED
    BY <2>2 DEF n
<1>4. Share(d) = IF d >= 0 THEN IF x <= 128 THEN 500 - (x * 400) \div 128
                                ELSE IF x <= 300 THEN 100 - ((x - 128) * 100) \div 172 ELSE 0
                 ELSE 1000 - (IF x <= 128 THEN 500 - (x * 400) \div 128
                              ELSE IF x <= 300 THEN 100 - ((x - 128) * 100) \div 172 ELSE 0)
  BY DEF Share
<1> HIDE DEF x
<1>5. x <= 129
  <2>1. x > 129 => Folded(Share(d))
    BY <1>3, <1>4 DEF Folded, PnegLo, PnegHi
  <2>2. QED
    BY <1>3, <2>1
<1>6. x * sigma <= 129 * sigma
  BY <1>1, <1>3, <1>5
<1>7. QED
  BY <1>1, <1>2, <1>3, <1>6

LEMMA MeanOrder ==
  ASSUME NEW d \in Int, NEW e \in Int, Abs(d) < 3100, Abs(e) < 3100, d < e
  PROVE  Mean(d) - Mean(e) < 150
  BY DEF Mean, Abs, Sgn

LEMMA SignOfProduct ==
  ASSUME NEW t \in Int \ {0}, NEW n \in Int \ {0}
  PROVE  t * n \in Int /\ t * n # 0 /\ (t * n > 0 <=> Sgn(t) = Sgn(n))
<1>1. \A x \in Nat \ {0}, y \in Nat \ {0} : x * y > 0
  OBVIOUS
<1>2. CASE t > 0 /\ n > 0
  BY <1>1, <1>2 DEF Sgn
<1>3. CASE t > 0 /\ n < 0
  <2>1. t * (-n) > 0 /\ t * (-n) = -(t * n)
    BY <1>1, <1>3
  <2>2. QED
    BY <1>3, <2>1 DEF Sgn
<1>4. CASE t < 0 /\ n > 0
  <2>1. (-t) * n > 0 /\ (-t) * n = -(t * n)
    BY <1>1, <1>4
  <2>2. QED
    BY <1>4, <2>1 DEF Sgn
<1>5. CASE t < 0 /\ n < 0
  <2>1. (-t) * (-n) > 0 /\ (-t) * (-n) = t * n
    BY <1>1, <1>5
  <2>2. QED
    BY <1>5, <2>1 DEF Sgn
<1>6. QED
  BY <1>2, <1>3, <1>4, <1>5

\* The quotient of two means over the step between them.
LEMMA Lesson ==
  ASSUME NEW t \in Int \ {0}, NEW n \in Int \ {0}, NEW e \in Int, NEW k \in Int, k = t * n,
         Abs(e) < 3100, Abs(e - k) < 3100,
         Mean(e) \in Int, Mean(e - k) \in Int,
         Abs(Mean(e) - Mean(e - k)) >= 150,
         SlopeMin <= Abs(Quot(Mean(e) - Mean(e - k), n))
  PROVE  Sgn(Quot(Mean(e) - Mean(e - k), n)) = Sgn(t)
<1> DEFINE m == Mean(e)
           o == Mean(e - k)
           q == Abs(m - o) \div Abs(n)
<1>1. k # 0 /\ (k > 0 <=> Sgn(t) = Sgn(n))
  BY SignOfProduct
<1>2. k > 0 => m - o >= 150
  <2>1. k > 0 => o - m < 150
    BY MeanOrder
  <2>2. QED
    BY <2>1 DEF Abs
<1>3. k < 0 => o - m >= 150
  <2>1. k < 0 => m - o < 150
    BY MeanOrder
  <2>2. QED
    BY <2>1 DEF Abs
<1>4. Quot(m - o, n) = Sgn(m - o) * Sgn(n) * q
  BY DEF Quot
<1>5. m \in Int /\ o \in Int
  OBVIOUS
<1> HIDE DEF m, o
<1>6. q \in Nat
  <2>1. Abs(m - o) \in Nat /\ Abs(n) \in Nat \ {0}
    BY <1>5 DEF Abs
  <2>2. QED
    BY <2>1, DivisionFacts
<1> HIDE DEF q
<1>7. Sgn(m - o) \in {-1, 1} /\ Sgn(n) \in {-1, 1} /\ Sgn(t) \in {-1, 1}
  BY DEF Sgn
<1>8. q > 0
  <2>1. q = 0 => Quot(m - o, n) = 0
    BY <1>4, <1>7
  <2>2. SlopeMin <= Abs(Quot(m - o, n))
    BY DEF m, o
  <2>3. QED
    BY <1>6, <2>1, <2>2 DEF Abs, SlopeMin
<1>9. Sgn(Quot(m - o, n)) = Sgn(m - o) * Sgn(n)
  BY <1>4, <1>6, <1>7, <1>8 DEF Sgn
<1>10. Sgn(m - o) * Sgn(n) = Sgn(t)
  BY <1>1, <1>2, <1>3, <1>5, <1>7 DEF Sgn
<1>11. QED
  BY <1>9, <1>10 DEF m, o

\* What an axis has learned, for hardware of slope t.
Truthful(t, a) == (a.known => Sgn(a.slope) = Sgn(t)) /\ a.votes * Sgn(t) >= 0

\* The DC of a row before its last step, with slope t and DC c at the stored code.
Before(t, c, o, w) == t * (o - w.lastStep) + c

\* A step that counts as evidence: its mean was that of the trim before it.
Evidence(t, c, o, w) ==
  w.lastStep # 0 =>
    /\ w.lastDc = Mean(Before(t, c, o, w))
    /\ ~w.lastFolded => Abs(Before(t, c, o, w)) < 3100

TaughtInv ==
  upset = {} =>
    /\ Truthful(trueSlope, [slope |-> slope, known |-> known, votes |-> votes])
    /\ \A r \in Rows : Evidence(trueSlope, stored[r], offset[r], row[r])

SameStep(a, b) == b.lastStep = a.lastStep /\ b.lastDc = a.lastDc /\ b.lastFolded = a.lastFolded

\* A polarity that turns is not known any more.
LEMMA JudgedTrue ==
  ASSUME NEW a \in AxisRec, NEW p \in Int, NEW t \in Int, Truthful(t, a)
  PROVE  Truthful(t, ShareJudged(a, p)) /\ SameStep(a, ShareJudged(a, p))
<1> DEFINE b == [a EXCEPT !.foldBad = @ + 1]
           turned == [b EXCEPT !.slope = -@, !.known = FALSE, !.foldBad = 0, !.foldWalk = 0,
                               !.foldWindow = IF @ = 0 THEN FoldFlip ELSE @]
<1>1. Truthful(t, b) /\ SameStep(a, b)
  BY DEF AxisRec, Truthful, SameStep
<1>2. Truthful(t, turned) /\ SameStep(a, turned)
  BY DEF AxisRec, Truthful, SameStep
<1>3. Truthful(t, [a EXCEPT !.foldBad = 0]) /\ SameStep(a, [a EXCEPT !.foldBad = 0])
  BY DEF AxisRec, Truthful, SameStep
<1>4. Truthful(t, a) /\ SameStep(a, a)
  BY DEF SameStep
<1>5. ShareJudged(a, p) \in {a, turned, b, [a EXCEPT !.foldBad = 0]}
  BY DEF ShareJudged
<1>6. QED
  BY <1>1, <1>2, <1>3, <1>4, <1>5

LEMMA LearnedTrue ==
  ASSUME NEW a \in AxisRec, NEW d \in Int, NEW p \in Int, NEW t \in Int \ {0}, Truthful(t, a),
         Teaches(a, d, p) => Sgn(Measured(a, d)) = Sgn(t)
  PROVE  Truthful(t, Learned(a, d, p))
<1>1. CASE ~Teaches(a, d, p)
  BY <1>1 DEF Learned
<1>2. CASE Teaches(a, d, p)
  <2> DEFINE m == Measured(a, d)
             v == Vote(a.votes, m)
             sl == IF ~a.known THEN m
                   ELSE IF Sgn(a.slope) = Sgn(m) THEN Quot(a.slope + m, 2) ELSE a.slope
             b == [a EXCEPT !.votes = v, !.known = TRUE, !.slope = sl]
  <2>1. a.lastStep \in Int \ {0} /\ d - a.lastDc \in Int /\ a.votes \in -4 .. 4
        /\ a.slope \in Int \ {0} /\ a.known \in BOOLEAN
    BY <1>2 DEF Teaches, AxisRec, Votings, Slopes, Flags
  <2>2. m \in Int
    BY <2>1, ArithmeticFacts DEF Measured
  <2>3. Sgn(m) = Sgn(t) /\ SlopeMin <= Abs(m)
    BY <1>2 DEF Teaches
  <2>4. Learned(a, d, p) = b
    BY <1>2 DEF Learned
  <2> HIDE DEF m
  <2>5. v * Sgn(t) >= 0
    <3>1. Sgn(t) \in {-1, 1} /\ a.votes * Sgn(t) >= 0
      BY DEF Truthful, Sgn
    <3>2. QED
      BY <2>1, <2>3, <3>1 DEF Vote
  <2>6. Sgn(sl) = Sgn(t)
    <3>1. CASE ~a.known
      BY <2>3, <3>1
    <3>2. CASE a.known
      <4>1. Sgn(a.slope) = Sgn(m)
        BY <2>3, <3>2 DEF Truthful
      <4>2. \A x \in Int \ {0}, y \in Int :
              SlopeMin <= Abs(y) /\ Sgn(x) = Sgn(y) => Sgn(Quot(x + y, 2)) = Sgn(y)
        BY DEF Quot, Abs, Sgn, SlopeMin
      <4>3. QED
        BY <2>1, <2>2, <2>3, <3>2, <4>1, <4>2
    <3>3. QED
      BY <2>1, <3>1, <3>2
  <2> HIDE DEF v, sl
  <2>7. b.votes = v /\ b.slope = sl
    BY DEF AxisRec
  <2>8. QED
    BY <2>4, <2>5, <2>6, <2>7 DEF Truthful
<1>3. QED
  BY <1>1, <1>2

\* A relearned size keeps its sign but is not known.
LEMMA RelearnedTrue ==
  ASSUME NEW a \in AxisRec, NEW d \in Int, NEW p \in Int, NEW t \in Int, Truthful(t, a)
  PROVE  Truthful(t, Relearned(a, d, p)) /\ Relearned(a, d, p).lastStep = 0
<1> DEFINE b == [a EXCEPT !.lastStep = 0]
<1>1. Truthful(t, b) /\ b.lastStep = 0
  BY DEF AxisRec, Truthful
<1>2. Truthful(t, [b EXCEPT !.bad = 0]) /\ [b EXCEPT !.bad = 0].lastStep = 0
  BY DEF AxisRec, Truthful
<1>3. Truthful(t, [b EXCEPT !.bad = @ + 1]) /\ [b EXCEPT !.bad = @ + 1].lastStep = 0
  BY DEF AxisRec, Truthful
<1> DEFINE w == [b EXCEPT !.slope = Sgn(@) * SlopeDefault, !.known = FALSE, !.bad = 0]
<1>4. Truthful(t, w) /\ w.lastStep = 0
  BY DEF AxisRec, Truthful
<1>5. a.lastStep = 0 \/ Relearned(a, d, p) \in {[b EXCEPT !.bad = 0], [b EXCEPT !.bad = @ + 1], w}
  BY DEF Relearned
<1>6. a.lastStep = 0 => Relearned(a, d, p) = a
  BY DEF Relearned
<1>7. QED
  BY <1>1, <1>2, <1>3, <1>4, <1>5, <1>6

LEMMA NotedTrue ==
  ASSUME NEW a \in AxisRec, NEW p \in Int, NEW t \in Int, Truthful(t, a), a.lastStep = 0
  PROVE  Truthful(t, Noted(a, p)) /\ Noted(a, p).lastStep = 0 /\ (Noted(a, p).lastFolded <=> Folded(p))
<1> DEFINE b == [a EXCEPT !.lastFolded = Folded(p), !.lastPneg = p]
           f == [b EXCEPT !.foldWindow = IF @ = 0 THEN FoldFlip ELSE @]
           g == [b EXCEPT !.foldWalk = 0, !.foldBad = 0, !.foldWindow = FoldFlip, !.bracket = FALSE]
<1>1. Truthful(t, f) /\ f.lastStep = 0 /\ (f.lastFolded <=> Folded(p))
  BY DEF AxisRec, Truthful
<1>2. Truthful(t, g) /\ g.lastStep = 0 /\ (g.lastFolded <=> Folded(p))
  BY DEF AxisRec, Truthful
<1>3. Noted(a, p) \in {f, g}
  BY DEF Noted
<1>4. QED
  BY <1>1, <1>2, <1>3

LEMMA ChosenTrue ==
  ASSUME NEW a \in AxisRec, NEW d \in Int, NEW p \in Int, NEW t \in Int, Truthful(t, a)
  PROVE  Truthful(t, Chosen(a, d, p)) /\ SameStep(a, Chosen(a, d, p))
<1>2. ASSUME NEW x \in AxisRec, Truthful(t, x)
      PROVE  Truthful(t, Computed(x, d)) /\ SameStep(x, Computed(x, d))
  BY <1>2 DEF Computed, AxisRec, Truthful, SameStep
<1>3. ASSUME NEW x \in AxisRec, Truthful(t, x)
      PROVE  Truthful(t, Walked(x)) /\ SameStep(x, Walked(x))
  <2> DEFINE b == [x EXCEPT !.foldWalk = 0, !.foldWindow = Wider(@)]
             w == [b EXCEPT !.slope = -@, !.known = FALSE, !.prevStep = 0]
  <2>1. Truthful(t, b) /\ SameStep(x, b)
    BY <1>3 DEF AxisRec, Truthful, SameStep
  <2>2. Truthful(t, w) /\ SameStep(x, w)
    BY <1>3 DEF AxisRec, Truthful, SameStep
  <2>3. Walked(x) \in {x, b, w}
    BY DEF Walked
  <2>4. QED
    BY <1>3, <2>1, <2>2, <2>3 DEF SameStep
<1>4. ASSUME NEW x \in AxisRec, Truthful(t, x)
      PROVE  Truthful(t, Bracketed(x, d, p)) /\ SameStep(x, Bracketed(x, d, p))
  BY <1>4 DEF Bracketed, AxisRec, Truthful, SameStep
<1> DEFINE b == IF a.bracket THEN [a EXCEPT !.bracket = FALSE, !.prevStep = 0] ELSE a
<1>5. b \in AxisRec /\ Truthful(t, b) /\ SameStep(a, b)
  BY Ranges DEF AxisRec, Truthful, SameStep
<1>6. /\ Truthful(t, [a EXCEPT !.prevStep = 0, !.step = 0]) /\ SameStep(a, [a EXCEPT !.prevStep = 0, !.step = 0])
      /\ Truthful(t, [a EXCEPT !.step = 0]) /\ SameStep(a, [a EXCEPT !.step = 0])
  BY DEF AxisRec, Truthful, SameStep
<1>7. Truthful(t, Bracketed(Walked(b), d, p)) /\ SameStep(a, Bracketed(Walked(b), d, p))
  <2> HIDE DEF b
  <2>1. Walked(b) \in AxisRec
    BY <1>5, WalkedType
  <2>2. QED
    BY <1>3, <1>4, <1>5, <2>1 DEF SameStep
<1>8. Chosen(a, d, p) \in {[a EXCEPT !.prevStep = 0, !.step = 0], [a EXCEPT !.step = 0],
                           Computed(a, d), Bracketed(Walked(b), d, p)}
  BY DEF Chosen
<1> HIDE DEF b
<1>9. QED
  BY <1>2, <1>6, <1>7, <1>8

LEMMA PlantType ==
  ASSUME IInv, NEW r \in Rows
  PROVE  /\ trueSlope \in Int \ {0} /\ offset[r] \in Int /\ stored[r] \in Int /\ row[r] \in RowRec
         /\ row[r].lastStep \in Int
         /\ DC(r) = trueSlope * offset[r] + stored[r]
<1>1. /\ trueSlope \in Int \ {0} /\ offset[r] \in -TrimMax .. TrimMax /\ stored[r] \in Int
      /\ row[r] \in RowRec /\ TrimMax \in Nat
  BY PlantAssumption, TrimAssumption DEF IInv
<1>2. QED
  BY <1>1 DEF DC, RowRec

\* The quotient that a decision may learn from.
LEMMA TeachesTruth ==
  ASSUME IInv, TaughtInv, upset = {}, NEW r \in Rows,
         Teaches(Judged(r), Mean(DC(r)), Share(DC(r)))
  PROVE  Sgn(Measured(Judged(r), Mean(DC(r)))) = Sgn(trueSlope)
<1> DEFINE n == row[r].lastStep
           k == trueSlope * n
           a == Judged(r)
<1>1. /\ trueSlope \in Int \ {0} /\ offset[r] \in Int /\ stored[r] \in Int /\ n \in Int
      /\ DC(r) = trueSlope * offset[r] + stored[r] /\ DC(r) \in Int /\ Share(DC(r)) \in Int
  BY PlantType, WindowType
<1>2. a.lastStep = n /\ a.lastDc = row[r].lastDc /\ a.lastFolded = row[r].lastFolded
  <2>1. /\ Axis(r).lastStep = n /\ Axis(r).lastDc = row[r].lastDc /\ Axis(r).lastFolded = row[r].lastFolded
        /\ Axis(r).known = known /\ Axis(r).slope = slope /\ Axis(r).votes = votes
    BY DEF Axis
  <2>2. Axis(r) \in AxisRec /\ Truthful(trueSlope, Axis(r))
    BY <2>1, StagesType DEF TaughtInv, Truthful
  <2>3. SameStep(Axis(r), a)
    BY <1>1, <2>2, JudgedTrue DEF Judged
  <2>4. QED
    BY <2>1, <2>3 DEF SameStep
<1>3. /\ n # 0 /\ ~Folded(Share(DC(r))) /\ ~row[r].lastFolded
      /\ Abs(Mean(DC(r)) - row[r].lastDc) >= 150
      /\ SlopeMin <= Abs(Quot(Mean(DC(r)) - row[r].lastDc, n))
  BY <1>2 DEF Teaches, Linear, Measured
<1>4. Before(trueSlope, stored[r], offset[r], row[r]) = DC(r) - k /\ k \in Int
  BY <1>1 DEF Before
<1>5. row[r].lastDc = Mean(DC(r) - k) /\ Abs(DC(r) - k) < 3100
  BY <1>3, <1>4 DEF TaughtInv, Evidence
<1>6. Abs(DC(r)) < 3100
  BY <1>1, <1>3, NearZero
<1>7. Mean(DC(r)) \in Int /\ Mean(DC(r) - k) \in Int
  <2>1. row[r].lastDc \in Int
    BY PlantType DEF RowRec
  <2>2. QED
    BY <1>5, <2>1, WindowType
<1> HIDE DEF n, a
<1>8. n \in Int \ {0} /\ k = trueSlope * n
  BY <1>1, <1>3
<1> HIDE DEF k
<1>9. Sgn(Quot(Mean(DC(r)) - Mean(DC(r) - k), n)) = Sgn(trueSlope)
  BY <1>1, <1>3, <1>4, <1>5, <1>6, <1>7, <1>8, Lesson
<1>10. QED
  BY <1>2, <1>5, <1>9 DEF Measured, a

LEMMA DecideTaught ==
  ASSUME IInv, TaughtInv, NEW r \in Rows, NEW refused \in BOOLEAN, Decide(r, refused)
  PROVE  TaughtInv'
<1> SUFFICES ASSUME upset' = {} PROVE TaughtInv'
  BY DEF TaughtInv
<1> DEFINE d == Mean(DC(r))
           p == Share(DC(r))
           e == Decided(r)
           t == trueSlope
<1>1. PICK w \in Writes(Trimmed(r, e.step)) : Done(r, e, w, d)
  BY Stages
<1>2. /\ upset = {} /\ trueSlope' = trueSlope /\ stored' = stored
      /\ slope' = e.slope /\ known' = e.known /\ votes' = e.votes
      /\ row' = [row EXCEPT ![r] = RowAfter(e, d, w)]
      /\ offset' = [offset EXCEPT ![r] = @ + w]
  BY <1>1 DEF Done, plant
<1>3. /\ Axis(r) \in AxisRec /\ Judged(r) \in AxisRec /\ Taught(r) \in AxisRec
      /\ Relearned(Taught(r), d, p) \in AxisRec /\ Prepared(r) \in AxisRec /\ e \in AxisRec
      /\ d \in Int /\ p \in Int /\ DC(r) \in Int /\ t \in Int \ {0}
  BY StagesType, WindowType, PlantType
<1>4. Truthful(t, Axis(r))
  BY <1>2 DEF Axis, TaughtInv, Truthful
<1>5. Truthful(t, Judged(r))
  BY <1>3, <1>4, JudgedTrue DEF Judged
<1>6. Truthful(t, Taught(r))
  <2>1. Teaches(Judged(r), d, p) => Sgn(Measured(Judged(r), d)) = Sgn(t)
    BY <1>2, TeachesTruth
  <2>2. QED
    BY <1>3, <1>5, <2>1, LearnedTrue DEF Taught
<1>7. Truthful(t, Relearned(Taught(r), d, p)) /\ Relearned(Taught(r), d, p).lastStep = 0
  BY <1>3, <1>6, RelearnedTrue
<1>8. Truthful(t, Prepared(r)) /\ Prepared(r).lastStep = 0 /\ (Prepared(r).lastFolded <=> Folded(p))
  BY <1>3, <1>7, NotedTrue DEF Prepared
<1>9. Truthful(t, e) /\ e.lastStep = 0 /\ (e.lastFolded <=> Folded(p))
  <2>1. Truthful(t, e) /\ SameStep(Prepared(r), e)
    BY <1>3, <1>8, ChosenTrue DEF Decided
  <2>2. QED
    BY <1>8, <2>1 DEF SameStep
<1>10. w \in Int
  <2>1. e.step \in StepsTo
    BY <1>3 DEF AxisRec
  <2>2. QED
    BY <1>1, <2>1, TrimType
<1>11. ~Folded(p) => Abs(DC(r)) < 3100
  BY <1>3, NearZero
<1>12. Truthful(trueSlope', [slope |-> slope', known |-> known', votes |-> votes'])
  BY <1>2, <1>9 DEF Truthful
<1>13. /\ row'[r] = RowAfter(e, d, w) /\ offset'[r] = offset[r] + w
       /\ \A q \in Rows \ {r} : row'[q] = row[q] /\ offset'[q] = offset[q]
  BY <1>2 DEF IInv
<1>14. Evidence(t, stored[r], offset[r] + w, RowAfter(e, d, w))
  <2>1. {"lastDc", "lastStep", "lastFolded"} \subseteq DOMAIN FreshRow
    BY DEF FreshRow
  <2>2. /\ w = 0 => RowAfter(e, d, w).lastStep = e.lastStep
        /\ w # 0 => RowAfter(e, d, w).lastStep = w /\ RowAfter(e, d, w).lastDc = d
        /\ RowAfter(e, d, w).lastFolded = e.lastFolded
    <3> HIDE DEF e, d
    <3>1. QED
      BY <2>1 DEF RowAfter
  <2>3. offset[r] \in Int /\ stored[r] \in Int /\ DC(r) = t * offset[r] + stored[r]
    BY PlantType
  <2>4. t * ((offset[r] + w) - w) + stored[r] = DC(r)
    BY <1>3, <1>10, <2>3
  <2>5. QED
    BY <1>9, <1>11, <2>2, <2>4 DEF Evidence, Before
<1>15. ASSUME NEW q \in Rows PROVE Evidence(trueSlope', stored'[q], offset'[q], row'[q])
  <2>1. CASE q = r
    BY <1>2, <1>13, <1>14, <2>1
  <2>2. CASE q # r
    BY <1>2, <1>13, <2>2 DEF TaughtInv
  <2>3. QED
    BY <2>1, <2>2
<1>16. QED
  BY <1>12, <1>15 DEF TaughtInv

LEMMA TaughtInit == Init => TaughtInv
<1> SUFFICES ASSUME Init PROVE TaughtInv
  OBVIOUS
<1>1. trueSlope \in Int \ {0} /\ known = FALSE /\ votes = 0
  BY PlantAssumption DEF Init
<1>2. 0 * Sgn(trueSlope) >= 0
  BY <1>1 DEF Sgn
<1>3. \A r \in Rows : row[r].lastStep = 0
  BY DEF Init, FreshRow
<1>4. QED
  BY <1>1, <1>2, <1>3 DEF TaughtInv, Truthful, Evidence

LEMMA TaughtStep == IInv /\ TaughtInv /\ [Next]_vars => TaughtInv'
<1> SUFFICES ASSUME IInv, TaughtInv, [Next]_vars PROVE TaughtInv'
  OBVIOUS
<1>1. ASSUME NEW r \in Rows, Service(r) PROVE TaughtInv'
  BY <1>1, DecideTaught DEF Service
<1>2. ASSUME NEW r \in Rows, ServiceRefused(r) PROVE TaughtInv'
  BY <1>2, DecideTaught DEF ServiceRefused
<1>3. ASSUME NEW r \in Rows, Jump(r) PROVE TaughtInv'
  BY <1>3 DEF Jump, TaughtInv
<1>4. CASE ForgetAll
  <2>1. ASSUME NEW r \in Rows PROVE row'[r].lastStep = 0
    <3>1. row'[r] = Forgotten(row[r]) /\ row[r] \in RowRec
      BY <1>4 DEF ForgetAll, IInv
    <3>2. QED
      BY <3>1 DEF Forgotten, RowRec
  <2>2. UNCHANGED <<slope, known, votes, trueSlope, upset>>
    BY <1>4 DEF ForgetAll, plant
  <2>3. \A r \in Rows : Evidence(trueSlope', stored'[r], offset'[r], row'[r])
    BY <2>1 DEF Evidence
  <2>4. QED
    BY <2>2, <2>3 DEF TaughtInv
<1>5. CASE UNCHANGED vars
  BY <1>5 DEF vars, plant, TaughtInv
<1>6. QED
  BY <1>1, <1>2, <1>3, <1>4, <1>5 DEF Next

\* Nothing false is learned: with the hardware in either polarity, wherever the
\* IQ folds and whatever part of a step is refused, a measured slope has the
\* sign of the hardware and no vote goes against it, until a zero moves by
\* itself.
THEOREM LearnedTruly == Spec => []LearnedIsTrue
<1>1. IInv /\ TaughtInv => LearnedIsTrue
  BY DEF TaughtInv, Truthful, LearnedIsTrue
<1>2. QED
  BY <1>1, InitIInv, StepIInv, TaughtInit, TaughtStep, PTL DEF Spec

-----------------------------------------------------------------------------
(* What a bracket holds.  The last step of a row went against the DC it was   *)
(* decided on, and as far as it was written.  When the side changes after a   *)
(* step of one code, zero is within that code, unless it was the polarity     *)
(* that changed: but the share turns it only after two steps that lead away,  *)
(* and a step of one code follows a crossing, so leads towards zero.  Another *)
(* row may turn it at any time; that is what misled excludes.                 *)

\* The share for noise g, and how far it is from one half.
Lead(x) == IF x <= 128 THEN (x * 400) \div 128
           ELSE IF x <= 300 THEN 400 + ((x - 128) * 100) \div 172 ELSE 500
ShareOf(g, d) == LET x == (Abs(d) * 100) \div g IN IF d >= 0 THEN 500 - Lead(x) ELSE 500 + Lead(x)

LEMMA ShareIs ==
  ASSUME IInv, NEW d \in Int
  PROVE  Share(d) = ShareOf(sigma, d)
<1>1. sigma \in Nat \ {0} /\ Abs(d) * 100 \in Nat
  BY PlantAssumption DEF IInv, Abs
<1> DEFINE x == (Abs(d) * 100) \div sigma
<1>2. x \in Nat
  BY <1>1, DivisionFacts
<1>3. Share(d) = IF d >= 0 THEN IF x <= 128 THEN 500 - (x * 400) \div 128
                                ELSE IF x <= 300 THEN 100 - ((x - 128) * 100) \div 172 ELSE 0
                 ELSE 1000 - (IF x <= 128 THEN 500 - (x * 400) \div 128
                              ELSE IF x <= 300 THEN 100 - ((x - 128) * 100) \div 172 ELSE 0)
  BY DEF Share
<1>4. ShareOf(sigma, d) = IF d >= 0 THEN 500 - Lead(x) ELSE 500 + Lead(x)
  BY DEF ShareOf
<1> HIDE DEF x
<1>5. (x * 400) \div 128 \in Int /\ ((x - 128) * 100) \div 172 \in Int
  BY <1>2
<1>6. QED
  BY <1>2, <1>3, <1>4, <1>5 DEF Lead

LEMMA LeadGrows ==
  /\ \A x \in Nat : Lead(x) \in 0 .. 500
  /\ Lead(0) = 0
  /\ \A x, y \in Nat : x <= y => Lead(x) <= Lead(y)
  BY DEF Lead

LEMMA QuotientGrows ==
  ASSUME NEW m \in Nat, NEW n \in Nat, NEW k \in Nat \ {0}, m <= n
  PROVE  m \div k <= n \div k
<1> DEFINE q == m \div k
           h == n \div k
<1>1. q \in Nat /\ h \in Nat /\ q * k <= m /\ n < h * k + k
  BY DivisionFacts
<1> HIDE DEF q, h
<1>2. q > h => q * k >= (h + 1) * k
  <2>1. \A i \in Nat, j \in Nat : i * k \in Nat /\ (i + j) * k = i * k + j * k
    OBVIOUS
  <2>2. q > h => q - (h + 1) \in Nat /\ q = (h + 1) + (q - (h + 1)) /\ h + 1 \in Nat
    BY <1>1
  <2>3. QED
    BY <1>1, <2>1, <2>2
<1>3. (h + 1) * k = h * k + k /\ h * k \in Nat /\ q * k \in Nat
  BY <1>1
<1>4. q <= h
  BY <1>1, <1>2, <1>3
<1>5. QED
  BY <1>4 DEF q, h

\* The share is on the side of the DC, and the further from one half the
\* further the DC is from zero.
LEMMA Sides ==
  ASSUME NEW g \in Nat \ {0}, NEW d \in Int
  PROVE  /\ ShareOf(g, d) \in Int
         /\ Folded(ShareOf(g, d)) => d # 0 /\ (ShareOf(g, d) < 500 <=> d > 0)
<1> DEFINE x == (Abs(d) * 100) \div g
<1>1. Abs(d) * 100 \in Nat /\ (d = 0 => Abs(d) * 100 = 0)
  BY DEF Abs
<1>2. x \in Nat
  BY <1>1, DivisionFacts
<1>3. d = 0 => x = 0
  <2>1. 0 \div g = 0
    OBVIOUS
  <2>2. QED
    BY <1>1, <2>1
<1>4. ShareOf(g, d) = IF d >= 0 THEN 500 - Lead(x) ELSE 500 + Lead(x)
  BY DEF ShareOf
<1> HIDE DEF x
<1>5. Lead(x) \in 0 .. 500 /\ (d = 0 => Lead(x) = 0)
  BY <1>2, <1>3, LeadGrows
<1>6. QED
  BY <1>4, <1>5 DEF Folded, PnegLo, PnegHi

LEMMA NearerHalf ==
  ASSUME NEW g \in Nat \ {0}, NEW d \in Int, NEW b \in Int, Abs(d) <= Abs(b)
  PROVE  Abs(ShareOf(g, d) - 500) <= Abs(ShareOf(g, b) - 500)
<1> DEFINE x == (Abs(d) * 100) \div g
           y == (Abs(b) * 100) \div g
<1>1. Abs(d) * 100 \in Nat /\ Abs(b) * 100 \in Nat /\ Abs(d) * 100 <= Abs(b) * 100
  BY DEF Abs
<1>2. x \in Nat /\ y \in Nat /\ x <= y
  BY <1>1, DivisionFacts, QuotientGrows
<1>3. /\ ShareOf(g, d) = IF d >= 0 THEN 500 - Lead(x) ELSE 500 + Lead(x)
      /\ ShareOf(g, b) = IF b >= 0 THEN 500 - Lead(y) ELSE 500 + Lead(y)
  BY DEF ShareOf
<1> HIDE DEF x, y
<1>4. Lead(x) \in 0 .. 500 /\ Lead(y) \in 0 .. 500 /\ Lead(x) <= Lead(y)
  BY <1>2, LeadGrows
<1>5. Abs(ShareOf(g, d) - 500) = Lead(x) /\ Abs(ShareOf(g, b) - 500) = Lead(y)
  BY <1>3, <1>4 DEF Abs
<1>6. QED
  BY <1>4, <1>5

\* A step goes against a DC as a polarity has it.
Against(x, b, s) == (x < 0) <=> ((b > 0) <=> (s > 0))

\* A row that searches, with slope t, DC c at the stored code, noise g, trim o
\* and believed slope s.
Searched(t, c, g, o, s, w) ==
  w.prevStep # 0 =>
    /\ Before(t, c, o, w) # 0 /\ Against(w.prevStep, Before(t, c, o, w), s)
    /\ w.lastPneg = ShareOf(g, Before(t, c, o, w))
    /\ w.lastStep # 0 => (w.lastStep > 0 <=> w.prevStep > 0)
    /\ Abs(w.lastStep) <= Abs(w.prevStep)
    /\ (w.prevStep \in {-1, 1} /\ w.lastFolded /\ w.lastStep # 0) => Sgn(s) = Sgn(t) \/ w.foldBad = 0

\* A row that holds a crossing.
Held(t, c, o, w) == w.bracket => w.prevStep = 0 /\ Abs(t * o + c) <= Abs(t)

SearchInv ==
  \A r \in Rows \ (upset \cup misled) :
    /\ Searched(trueSlope, stored[r], sigma, offset[r], slope, row[r])
    /\ Held(trueSlope, stored[r], offset[r], row[r])

\* A step of one code, or none, between two DCs on different sides of zero.
LEMMA WithinACode ==
  ASSUME NEW t \in Int \ {0}, NEW b \in Int, NEW n \in -1 .. 1, NEW d \in Int, d = b + t * n,
         d # 0, b # 0, ~(d > 0 <=> b > 0)
  PROVE  Abs(d) <= Abs(t)
<1>1. t * n = 0 \/ t * n = t \/ t * n = -t
  OBVIOUS
<1>2. QED
  BY <1>1 DEF Abs

\* With the right polarity, a step of one code that does not cross zero comes nearer.
LEMMA ComesNearer ==
  ASSUME NEW t \in Int \ {0}, NEW b \in Int, NEW n \in {-1, 1}, NEW d \in Int, d = b + t * n,
         NEW s \in Int \ {0}, d # 0, b # 0, d > 0 <=> b > 0, Against(n, b, s), Sgn(s) = Sgn(t)
  PROVE  Abs(d) <= Abs(b)
<1>1. t * n = t \/ t * n = -t
  OBVIOUS
<1>2. (n = 1 => t * n = t) /\ (n = -1 => t * n = -t)
  OBVIOUS
<1>3. QED
  BY <1>2 DEF Against, Sgn, Abs

\* The share turns a polarity only after two steps that lead away from zero.
LEMMA JudgedSearch ==
  ASSUME NEW a \in AxisRec, NEW p \in Int
  PROVE  LET j == ShareJudged(a, p) IN
         /\ j.prevStep = a.prevStep /\ j.bracket = a.bracket
         /\ \/ j.slope = a.slope
            \/ /\ j.slope = -a.slope /\ j.foldBad = 0
               /\ a.lastStep # 0 /\ a.lastFolded /\ a.foldBad # 0
               /\ Abs(p - 500) >= Abs(a.lastPneg - 500) + 5
<1> DEFINE b == [a EXCEPT !.foldBad = @ + 1]
           turned == [b EXCEPT !.slope = -@, !.known = FALSE, !.foldBad = 0, !.foldWalk = 0,
                               !.foldWindow = IF @ = 0 THEN FoldFlip ELSE @]
           away == Abs(p - 500) >= Abs(a.lastPneg - 500) + 5
<1>1. /\ b.prevStep = a.prevStep /\ b.bracket = a.bracket /\ b.slope = a.slope
      /\ turned.prevStep = a.prevStep /\ turned.bracket = a.bracket
      /\ turned.slope = -a.slope /\ turned.foldBad = 0
      /\ [a EXCEPT !.foldBad = 0].prevStep = a.prevStep /\ [a EXCEPT !.foldBad = 0].bracket = a.bracket
      /\ [a EXCEPT !.foldBad = 0].slope = a.slope
  BY DEF AxisRec
<1>2. b.foldBad = a.foldBad + 1 /\ a.foldBad \in Nat
  BY DEF AxisRec
<1>3. \/ ShareJudged(a, p) \in {a, b, [a EXCEPT !.foldBad = 0]}
      \/ /\ ShareJudged(a, p) = turned
         /\ a.lastStep # 0 /\ a.lastFolded /\ b.foldBad >= 2 /\ away
  BY DEF ShareJudged
<1> DEFINE j == ShareJudged(a, p)
           fresh == [a EXCEPT !.foldBad = 0]
<1>4. b.foldBad >= 2 => a.foldBad # 0
  BY <1>2
<1> HIDE DEF b, turned, fresh, j, away
<1>5. ASSUME j \in {a, b, fresh}
      PROVE  j.prevStep = a.prevStep /\ j.bracket = a.bracket /\ j.slope = a.slope
  <2>1. /\ fresh.prevStep = a.prevStep /\ fresh.bracket = a.bracket /\ fresh.slope = a.slope
        /\ b.prevStep = a.prevStep /\ b.bracket = a.bracket /\ b.slope = a.slope
    BY <1>1 DEF fresh
  <2>2. QED
    BY <1>5, <2>1
<1>6. ASSUME j = turned, b.foldBad >= 2
      PROVE  /\ j.prevStep = a.prevStep /\ j.bracket = a.bracket
             /\ j.slope = -a.slope /\ j.foldBad = 0 /\ a.foldBad # 0
  BY <1>1, <1>4, <1>6
<1>7. \/ j \in {a, b, fresh}
      \/ j = turned /\ a.lastStep # 0 /\ a.lastFolded /\ b.foldBad >= 2 /\ away
  BY <1>3 DEF j, fresh
<1> HIDE DEF j
<1>8. CASE j \in {a, b, fresh}
  BY <1>5, <1>8 DEF j
<1>9. CASE j = turned /\ a.lastStep # 0 /\ a.lastFolded /\ b.foldBad >= 2 /\ away
  BY <1>6, <1>9 DEF j, away
<1>10. QED
  BY <1>7, <1>8, <1>9

LEMMA RelearnedFolded ==
  ASSUME NEW a \in AxisRec, NEW d \in Int, NEW p \in Int, Folded(p)
  PROVE  LET k == Relearned(a, d, p) IN
         k.lastStep = 0 /\ k.slope = a.slope /\ k.prevStep = a.prevStep /\ k.bracket = a.bracket
         /\ k.foldBad = a.foldBad
<1> DEFINE b == [[a EXCEPT !.lastStep = 0] EXCEPT !.bad = 0]
<1>1. ~Linear(a, p)
  BY DEF Linear
<1>2. a.lastStep = 0 => Relearned(a, d, p) = a
  BY DEF Relearned
<1>3. a.lastStep # 0 => Relearned(a, d, p) = b
  BY <1>1 DEF Relearned
<1>4. b.lastStep = 0 /\ b.slope = a.slope /\ b.prevStep = a.prevStep /\ b.bracket = a.bracket /\ b.foldBad = a.foldBad
  BY DEF AxisRec
<1>5. QED
  BY <1>2, <1>3, <1>4

\* In the fold, what precedes the choice of a step leaves the search alone.
LEMMA FoldedStages ==
  ASSUME IInv, NEW r \in Rows, Folded(Share(DC(r)))
  PROVE  LET j == Judged(r)
             k == Prepared(r)
         IN  /\ k.slope = j.slope /\ k.prevStep = j.prevStep /\ k.bracket = j.bracket /\ k.foldBad = j.foldBad
             /\ k.lastStep = 0 /\ k.lastFolded /\ k.lastPneg = Share(DC(r))
<1> DEFINE d == Mean(DC(r))
           p == Share(DC(r))
           j == Judged(r)
           m == Relearned(j, d, p)
           b == [m EXCEPT !.lastFolded = Folded(p), !.lastPneg = p]
           f == [b EXCEPT !.foldWindow = IF @ = 0 THEN FoldFlip ELSE @]
<1>1. d \in Int /\ p \in Int /\ j \in AxisRec
  BY WindowType, StagesType
<1>2. Learned(j, d, p) = j
  BY DEF Learned, Teaches, Linear
<1>3. Taught(r) = j
  BY <1>2 DEF Taught
<1>4. Prepared(r) = f /\ m \in AxisRec
  <2>1. Prepared(r) = Noted(m, p)
    BY <1>3 DEF Prepared
  <2>2. Noted(m, p) = f
    BY DEF Noted
  <2>3. QED
    BY <1>3, <2>1, <2>2, StagesType
<1>5. m.lastStep = 0 /\ m.slope = j.slope /\ m.prevStep = j.prevStep /\ m.bracket = j.bracket /\ m.foldBad = j.foldBad
  BY <1>1, RelearnedFolded
<1> HIDE DEF m, j, d
<1>6. f.slope = m.slope /\ f.prevStep = m.prevStep /\ f.bracket = m.bracket /\ f.foldBad = m.foldBad
      /\ f.lastStep = m.lastStep /\ f.lastFolded /\ f.lastPneg = p
  BY <1>4 DEF AxisRec
<1>7. QED
  BY <1>4, <1>5, <1>6 DEF j

\* Outside the fold nothing is held, and a step goes against the DC.
LEMMA LinearStages ==
  ASSUME IInv, NEW r \in Rows, ~Folded(Share(DC(r)))
  PROVE  LET e == Decided(r) IN
         /\ ~e.bracket /\ e.lastStep = 0 /\ ~e.lastFolded /\ e.lastPneg = Share(DC(r))
         /\ \/ e.prevStep = 0 /\ e.step = 0
            \/ /\ e.prevStep # 0 /\ e.step = e.prevStep /\ DC(r) # 0
               /\ Against(e.prevStep, DC(r), e.slope)
<1> DEFINE d == Mean(DC(r))
           p == Share(DC(r))
           k == Prepared(r)
           q == Round(-d * GainPct, k.slope * 100)
           st == IF q = 0 THEN IF (d > 0) = (k.slope > 0) THEN -1 ELSE 1
                 ELSE IF q > StepMax THEN StepMax ELSE IF q < -StepMax THEN -StepMax ELSE q
           rest == [k EXCEPT !.prevStep = 0, !.step = 0]
           taken == [k EXCEPT !.prevStep = st, !.step = st]
<1>1. d \in Int /\ p \in Int /\ k \in AxisRec /\ DC(r) \in Int
      /\ Relearned(Taught(r), d, p) \in AxisRec
  BY WindowType, StagesType
<1>2. k.slope \in Int \ {0}
  BY <1>1 DEF AxisRec, Slopes
<1>3. ~k.bracket /\ k.lastStep = 0 /\ ~k.lastFolded /\ k.lastPneg = p
  <2> DEFINE m == Relearned(Taught(r), d, p)
             b == [m EXCEPT !.lastFolded = Folded(p), !.lastPneg = p]
             g == [b EXCEPT !.foldWalk = 0, !.foldBad = 0, !.foldWindow = FoldFlip, !.bracket = FALSE]
  <2>1. k = g
    BY DEF Prepared, Noted
  <2>2. m.lastStep = 0
    <3>1. Taught(r) \in AxisRec
      BY StagesType
    <3> DEFINE h == [Taught(r) EXCEPT !.lastStep = 0]
    <3>2. \/ Taught(r).lastStep = 0 /\ m = Taught(r)
          \/ m \in {[h EXCEPT !.bad = 0], [h EXCEPT !.bad = @ + 1],
                    [h EXCEPT !.slope = Sgn(@) * SlopeDefault, !.known = FALSE, !.bad = 0]}
      BY DEF Relearned
    <3>3. /\ [h EXCEPT !.bad = 0].lastStep = 0 /\ [h EXCEPT !.bad = @ + 1].lastStep = 0
          /\ [h EXCEPT !.slope = Sgn(@) * SlopeDefault, !.known = FALSE, !.bad = 0].lastStep = 0
      BY <3>1 DEF AxisRec
    <3>4. QED
      BY <3>2, <3>3
  <2> HIDE DEF m
  <2>3. ~g.bracket /\ g.lastStep = m.lastStep /\ ~g.lastFolded /\ g.lastPneg = p
    BY <1>1 DEF AxisRec, m
  <2>4. QED
    BY <2>1, <2>2, <2>3
<1>4. Decided(r) = IF Abs(d) <= Deadband THEN rest ELSE taken
  BY DEF Decided, Chosen, Computed
<1> HIDE DEF k, d, p
<1>5. CASE Abs(d) <= Deadband
  <2>1. ~rest.bracket /\ rest.lastStep = 0 /\ ~rest.lastFolded /\ rest.lastPneg = p
        /\ rest.prevStep = 0 /\ rest.step = 0
    BY <1>1, <1>3 DEF AxisRec
  <2>2. QED
    BY <1>4, <1>5, <2>1 DEF p
<1>6. CASE Abs(d) > Deadband
  <2>1. DC(r) # 0 /\ (d > 0 <=> DC(r) > 0) /\ d # 0
    BY <1>1, <1>6 DEF d, Mean, Abs, Sgn, Deadband
  <2>2. q \in Int
    BY <1>1, <1>2, ArithmeticFacts DEF GainPct
  <2>3. q # 0 => Against(q, d, k.slope)
    <3> DEFINE x == -d * GainPct
               y == k.slope * 100
               h == (2 * Abs(x) + Abs(y)) \div (2 * Abs(y))
    <3>1. x \in Int \ {0} /\ y \in Int \ {0} /\ (x > 0 <=> ~(d > 0)) /\ (y > 0 <=> k.slope > 0)
      BY <1>1, <1>2, <2>1 DEF GainPct
    <3>2. q = Sgn(x) * Sgn(y) * h
      BY DEF Round
    <3> HIDE DEF x, y
    <3>3. h \in Nat
      <4>1. 2 * Abs(x) + Abs(y) \in Nat /\ 2 * Abs(y) \in Nat \ {0}
        BY <3>1 DEF Abs
      <4>2. QED
        BY <4>1, DivisionFacts
    <3> HIDE DEF h, q
    <3>4. Sgn(x) * Sgn(y) = IF x > 0 <=> y > 0 THEN 1 ELSE -1
      BY <3>1 DEF Sgn
    <3>5. QED
      BY <1>1, <1>2, <3>1, <3>2, <3>3, <3>4 DEF Against
  <2> HIDE DEF q
  <2>4. st \in Int /\ st # 0 /\ Against(st, d, k.slope)
    BY <1>2, <2>1, <2>2, <2>3 DEF Against, StepMax
  <2> HIDE DEF st
  <2>5. ~taken.bracket /\ taken.lastStep = 0 /\ ~taken.lastFolded /\ taken.lastPneg = p
        /\ taken.prevStep = st /\ taken.step = st /\ taken.slope = k.slope
    BY <1>1, <1>3 DEF AxisRec
  <2>6. Against(st, DC(r), k.slope)
    BY <2>1, <2>4 DEF Against
  <2>7. Decided(r) = taken
    BY <1>1, <1>4, <1>6 DEF Abs, Deadband
  <2>8. QED
    BY <2>1, <2>4, <2>5, <2>6, <2>7 DEF p
<1>7. Abs(d) <= Deadband \/ Abs(d) > Deadband
  BY <1>1 DEF Abs, Deadband
<1>8. QED
  BY <1>5, <1>6, <1>7

\* The search goes on against the DC, or holds where a step of one code crossed.
LEMMA BracketedSearch ==
  ASSUME NEW a \in AxisRec, NEW d \in Int, NEW p \in Int, NEW b \in Int \ {0}, p < 500 <=> b > 0,
         ~a.bracket
  PROVE  LET e == Bracketed(a, d, p) IN
         /\ e.slope = a.slope /\ e.foldBad = a.foldBad /\ e.lastStep = a.lastStep
         /\ e.lastFolded = a.lastFolded /\ e.lastPneg = a.lastPneg
         /\ \/ /\ e.bracket /\ e.prevStep = 0 /\ e.step = 0
               /\ a.prevStep \in {-1, 1} /\ ~Against(a.prevStep, b, a.slope)
            \/ /\ ~e.bracket /\ e.prevStep # 0 /\ e.step = e.prevStep
               /\ Against(e.prevStep, b, a.slope)
               /\ e.prevStep \in {-1, 1} => a.prevStep # 0 /\ ~Against(a.prevStep, b, a.slope)
<1> DEFINE dir == Direction(a, p)
           mag == Magnitude(a, dir)
           holds == [a EXCEPT !.bracket = TRUE, !.bracketDc = d, !.prevStep = 0, !.foldWalk = 0, !.step = 0]
           goes == [a EXCEPT !.foldWalk = @ + mag, !.prevStep = dir * mag, !.step = dir * mag]
<1>1. a.prevStep \in Int /\ a.prevStep <= 16 /\ -16 <= a.prevStep /\ a.slope \in Int \ {0}
  BY DEF AxisRec, StepsTo, FoldStepMax, Slopes
<1>2. dir = IF b > 0 <=> a.slope > 0 THEN -1 ELSE 1
  BY DEF Direction
<1>3. \A x \in Int \ {0} : Against(x, b, a.slope) <=> Sgn(x) = dir
  BY <1>1, <1>2 DEF Against, Sgn
<1> HIDE DEF dir
<1>4. /\ mag \in Nat
      /\ mag = 0 => a.prevStep \in {-1, 1} /\ Sgn(a.prevStep) # dir
      /\ mag = 1 => a.prevStep # 0 /\ Sgn(a.prevStep) # dir
  BY <1>1 DEF Magnitude, Min2, Abs, Sgn, StepMax, FoldStepMax
<1>5. Bracketed(a, d, p) = IF mag = 0 THEN holds ELSE goes
  BY DEF Bracketed, dir
<1> HIDE DEF mag
<1>6. CASE mag = 0
  <2>1. /\ holds.slope = a.slope /\ holds.foldBad = a.foldBad /\ holds.lastStep = a.lastStep
        /\ holds.lastFolded = a.lastFolded /\ holds.lastPneg = a.lastPneg
        /\ holds.bracket /\ holds.prevStep = 0 /\ holds.step = 0
    BY DEF AxisRec
  <2> HIDE DEF holds
  <2>2. a.prevStep \in {-1, 1} /\ ~Against(a.prevStep, b, a.slope)
    BY <1>3, <1>4, <1>6
  <2>3. Bracketed(a, d, p) = holds
    BY <1>5, <1>6
  <2>4. QED
    BY <2>1, <2>2, <2>3
<1>7. CASE mag # 0
  <2> DEFINE x == dir * mag
  <2>1. x \in Int \ {0} /\ Sgn(x) = dir /\ (x \in {-1, 1} => mag = 1)
    BY <1>2, <1>4, <1>7 DEF Sgn, dir
  <2> HIDE DEF x
  <2>2. /\ goes.slope = a.slope /\ goes.foldBad = a.foldBad /\ goes.lastStep = a.lastStep
        /\ goes.lastFolded = a.lastFolded /\ goes.lastPneg = a.lastPneg
        /\ goes.bracket = a.bracket /\ goes.prevStep = x /\ goes.step = x
    BY DEF AxisRec, x
  <2> HIDE DEF goes
  <2>3. x # 0 /\ Against(x, b, a.slope)
    BY <1>3, <2>1
  <2>4. x \in {-1, 1} => a.prevStep # 0 /\ ~Against(a.prevStep, b, a.slope)
    BY <1>1, <1>3, <1>4, <2>1
  <2>5. Bracketed(a, d, p) = goes
    BY <1>5, <1>7
  <2>6. QED
    BY <2>2, <2>3, <2>4, <2>5
<1>8. QED
  BY <1>6, <1>7

LEMMA WalkedSearch ==
  ASSUME NEW a \in AxisRec, ~a.bracket
  PROVE  LET e == Walked(a) IN
         /\ e \in AxisRec /\ ~e.bracket /\ e.foldBad = a.foldBad
         /\ e.lastStep = a.lastStep /\ e.lastFolded = a.lastFolded /\ e.lastPneg = a.lastPneg
         /\ e.prevStep = 0 \/ (e.prevStep = a.prevStep /\ e.slope = a.slope)
<1> DEFINE b == [a EXCEPT !.foldWalk = 0, !.foldWindow = Wider(@)]
           t == [b EXCEPT !.slope = -@, !.known = FALSE, !.prevStep = 0]
<1>1. Walked(a) \in {a, b, t} /\ Walked(a) \in AxisRec
  BY WalkedType DEF Walked
<1>2. /\ ~b.bracket /\ b.foldBad = a.foldBad /\ b.prevStep = a.prevStep /\ b.slope = a.slope
      /\ b.lastStep = a.lastStep /\ b.lastFolded = a.lastFolded /\ b.lastPneg = a.lastPneg
      /\ ~t.bracket /\ t.foldBad = a.foldBad /\ t.prevStep = 0
      /\ t.lastStep = a.lastStep /\ t.lastFolded = a.lastFolded /\ t.lastPneg = a.lastPneg
  BY DEF AxisRec
<1> HIDE DEF b, t
<1>3. QED
  BY <1>1, <1>2

\* What a row in the fold does: hold what it held, hold a crossing of one code,
\* or step on; a step of one code follows a crossing.
LEMMA FoldedChoice ==
  ASSUME IInv, NEW r \in Rows, Folded(Share(DC(r)))
  PROVE  LET e == Decided(r)
             w == row[r]
             s == Judged(r).slope
         IN  /\ e.lastStep = 0 /\ e.lastFolded /\ e.lastPneg = Share(DC(r)) /\ DC(r) # 0
             /\ \/ w.bracket /\ e.bracket /\ e.prevStep = w.prevStep /\ e.step = 0
                \/ /\ e.bracket /\ e.prevStep = 0 /\ e.step = 0
                   /\ w.prevStep \in {-1, 1} /\ ~Against(w.prevStep, DC(r), s)
                \/ /\ ~e.bracket /\ e.prevStep # 0 /\ e.step = e.prevStep
                   /\ Against(e.prevStep, DC(r), e.slope)
                   /\ e.prevStep \in {-1, 1} =>
                        /\ w.prevStep # 0 /\ ~Against(w.prevStep, DC(r), s)
                        /\ e.slope = s /\ e.foldBad = Judged(r).foldBad
<1> DEFINE d == Mean(DC(r))
           p == Share(DC(r))
           j == Judged(r)
           k == Prepared(r)
           x == IF k.bracket THEN [k EXCEPT !.bracket = FALSE, !.prevStep = 0] ELSE k
           y == Walked(x)
           e == Decided(r)
           still == [k EXCEPT !.step = 0]
<1>1. d \in Int /\ p \in Int /\ DC(r) \in Int /\ k \in AxisRec
  BY WindowType, StagesType
<1>2. DC(r) # 0 /\ (p < 500 <=> DC(r) > 0)
  <2>1. sigma \in Nat \ {0} /\ p = ShareOf(sigma, DC(r))
    BY <1>1, ShareIs, PlantAssumption DEF IInv
  <2>2. QED
    BY <1>1, <2>1, Sides
<1>3. j.prevStep = row[r].prevStep /\ (j.bracket <=> row[r].bracket)
  <2>1. Axis(r) \in AxisRec /\ Axis(r).prevStep = row[r].prevStep /\ Axis(r).bracket = row[r].bracket
    BY StagesType DEF Axis
  <2>2. QED
    BY <1>1, <2>1, JudgedSearch DEF Judged
<1>4. /\ k.slope = j.slope /\ k.prevStep = j.prevStep /\ (k.bracket <=> j.bracket) /\ k.foldBad = j.foldBad
      /\ k.lastStep = 0 /\ k.lastFolded /\ k.lastPneg = p
  BY FoldedStages
<1>5. e = IF Holds(k, d) THEN still ELSE Bracketed(y, d, p)
  BY DEF Decided, Chosen
<1> HIDE DEF d, p, j, k, e
<1>6. /\ still.lastStep = 0 /\ still.lastFolded /\ still.lastPneg = p
      /\ (still.bracket <=> k.bracket) /\ still.prevStep = k.prevStep /\ still.step = 0
  BY <1>1, <1>4 DEF AxisRec
<1>7. /\ x \in AxisRec /\ ~x.bracket /\ x.slope = j.slope /\ x.foldBad = j.foldBad
      /\ x.lastStep = 0 /\ x.lastFolded /\ x.lastPneg = p
      /\ x.prevStep = 0 \/ x.prevStep = k.prevStep
  BY <1>1, <1>4, Ranges DEF AxisRec
<1> HIDE DEF x, still
<1>8. /\ y \in AxisRec /\ ~y.bracket /\ y.foldBad = j.foldBad
      /\ y.lastStep = 0 /\ y.lastFolded /\ y.lastPneg = p
      /\ y.prevStep = 0 \/ (y.prevStep = k.prevStep /\ y.slope = j.slope)
  BY <1>7, WalkedSearch
<1> HIDE DEF y
<1>9. CASE Holds(k, d)
  <2>1. k.bracket
    BY <1>9 DEF Holds
  <2>2. e = still
    BY <1>5, <1>9
  <2>3. /\ e.lastStep = 0 /\ e.lastFolded /\ e.lastPneg = p
        /\ row[r].bracket /\ e.bracket /\ e.prevStep = row[r].prevStep /\ e.step = 0
    BY <1>3, <1>4, <1>6, <2>1, <2>2
  <2>4. QED
    BY <1>2, <2>3 DEF e, p
<1>10. CASE ~Holds(k, d)
  <2> DEFINE z == Bracketed(y, d, p)
  <2>1. /\ z.slope = y.slope /\ z.foldBad = y.foldBad /\ z.lastStep = y.lastStep
        /\ z.lastFolded = y.lastFolded /\ z.lastPneg = y.lastPneg
        /\ \/ /\ z.bracket /\ z.prevStep = 0 /\ z.step = 0
              /\ y.prevStep \in {-1, 1} /\ ~Against(y.prevStep, DC(r), y.slope)
           \/ /\ ~z.bracket /\ z.prevStep # 0 /\ z.step = z.prevStep
              /\ Against(z.prevStep, DC(r), y.slope)
              /\ z.prevStep \in {-1, 1} => y.prevStep # 0 /\ ~Against(y.prevStep, DC(r), y.slope)
    <3> DEFINE c == DC(r)
    <3>1. c \in Int \ {0} /\ (p < 500 <=> c > 0) /\ y \in AxisRec /\ d \in Int /\ p \in Int /\ ~y.bracket
      BY <1>1, <1>2, <1>8
    <3> HIDE DEF c
    <3>2. /\ z.slope = y.slope /\ z.foldBad = y.foldBad /\ z.lastStep = y.lastStep
          /\ z.lastFolded = y.lastFolded /\ z.lastPneg = y.lastPneg
          /\ \/ /\ z.bracket /\ z.prevStep = 0 /\ z.step = 0
                /\ y.prevStep \in {-1, 1} /\ ~Against(y.prevStep, c, y.slope)
             \/ /\ ~z.bracket /\ z.prevStep # 0 /\ z.step = z.prevStep
                /\ Against(z.prevStep, c, y.slope)
                /\ z.prevStep \in {-1, 1} => y.prevStep # 0 /\ ~Against(y.prevStep, c, y.slope)
      BY <3>1, BracketedSearch, Zenon
    <3>3. QED
      BY <3>2 DEF c
  <2>2. e = z
    BY <1>5, <1>10
  <2> HIDE DEF z
  <2>3. e.lastStep = 0 /\ e.lastFolded /\ e.lastPneg = p
    BY <1>8, <2>1, <2>2
  <2>4. y.prevStep # 0 => y.prevStep = row[r].prevStep /\ y.slope = j.slope
    BY <1>3, <1>4, <1>8
  <2>5. CASE z.bracket
    BY <1>2, <2>1, <2>2, <2>3, <2>4, <2>5 DEF e, p, j
  <2>6. CASE ~z.bracket
    <3>1. z.prevStep # 0 /\ z.step = z.prevStep /\ Against(z.prevStep, DC(r), z.slope)
      BY <2>1, <2>6
    <3>2. z.prevStep \in {-1, 1} =>
            /\ row[r].prevStep # 0 /\ ~Against(row[r].prevStep, DC(r), j.slope)
            /\ z.slope = j.slope /\ z.foldBad = j.foldBad
      BY <1>8, <2>1, <2>4, <2>6
    <3>3. QED
      BY <1>2, <2>2, <2>3, <2>6, <3>1, <3>2 DEF e, p, j
  <2>7. QED
    BY <2>5, <2>6
<1>11. QED
  BY <1>9, <1>10

\* A crossing of one code, as the row has it, is one of zero.
LEMMA CrossedWithin ==
  ASSUME IInv, NEW r \in Rows, Folded(Share(DC(r))),
         Searched(trueSlope, stored[r], sigma, offset[r], slope, row[r]),
         row[r].prevStep \in {-1, 1}, ~Against(row[r].prevStep, DC(r), Judged(r).slope)
  PROVE  Abs(DC(r)) <= Abs(trueSlope)
<1> DEFINE w == row[r]
           b == Before(trueSlope, stored[r], offset[r], w)
           d == DC(r)
           n == w.lastStep
           p == Share(d)
<1>1. /\ trueSlope \in Int \ {0} /\ offset[r] \in Int /\ stored[r] \in Int /\ w \in RowRec /\ n \in Int
      /\ d = trueSlope * offset[r] + stored[r] /\ d \in Int /\ slope \in Int \ {0}
      /\ sigma \in Nat \ {0} /\ p = ShareOf(sigma, d)
  BY PlantType, WindowType, ShareIs, PlantAssumption DEF IInv, Slopes
<1>2. b \in Int /\ d = b + trueSlope * n
  BY <1>1 DEF Before
<1>3. d # 0
  BY <1>1, Sides
<1>4. b # 0 /\ Against(w.prevStep, b, slope) /\ w.lastPneg = ShareOf(sigma, b) /\ Abs(n) <= 1
      /\ (n # 0 => (n > 0 <=> w.prevStep > 0))
      /\ (w.lastFolded /\ n # 0 => Sgn(slope) = Sgn(trueSlope) \/ w.foldBad = 0)
  BY DEF Searched, Abs
<1>5. n \in -1 .. 1
  BY <1>1, <1>4 DEF Abs
<1>6. \/ Judged(r).slope = slope
      \/ /\ Judged(r).slope = -slope /\ n # 0 /\ w.lastFolded /\ w.foldBad # 0
         /\ Abs(p - 500) >= Abs(w.lastPneg - 500) + 5
  <2>1. /\ Axis(r) \in AxisRec /\ p \in Int
        /\ Axis(r).slope = slope /\ Axis(r).lastStep = n /\ Axis(r).lastFolded = w.lastFolded
        /\ Axis(r).foldBad = w.foldBad /\ Axis(r).lastPneg = w.lastPneg
    BY StagesType, WindowType DEF Axis
  <2>2. QED
    BY <2>1, JudgedSearch DEF Judged
<1> HIDE DEF b, d, p
<1>7. CASE d > 0 <=> b > 0
  <2>1. Against(w.prevStep, d, slope)
    BY <1>4, <1>7 DEF Against
  <2>2. Judged(r).slope # slope
    BY <2>1 DEF d
  <2>3. n # 0 /\ w.lastFolded /\ w.foldBad # 0 /\ Abs(p - 500) >= Abs(w.lastPneg - 500) + 5
    BY <1>6, <2>2
  <2>4. Sgn(slope) = Sgn(trueSlope)
    BY <1>4, <2>3
  <2>5. n \in {-1, 1} /\ Against(n, b, slope)
    BY <1>4, <1>5, <2>3 DEF Against
  <2>6. Abs(d) <= Abs(b)
    BY <1>1, <1>2, <1>3, <1>4, <1>7, <2>4, <2>5, ComesNearer
  <2> DEFINE near == ShareOf(sigma, d)
             far == ShareOf(sigma, b)
  <2>7. near \in Int /\ far \in Int /\ Abs(near - 500) <= Abs(far - 500)
    <3>1. sigma \in Nat \ {0} /\ d \in Int /\ b \in Int
      BY <1>1, <1>2 DEF d
    <3>2. Abs(near - 500) <= Abs(far - 500)
      BY <2>6, <3>1, NearerHalf
    <3>3. near \in Int /\ far \in Int
      BY <3>1, Sides
    <3>4. QED
      BY <3>2, <3>3
  <2>8. p = near /\ w.lastPneg = far
    BY <1>1, <1>4
  <2> HIDE DEF near, far
  <2>9. Abs(near - 500) >= Abs(far - 500) + 5
    BY <2>3, <2>8
  <2>10. QED
    BY <2>7, <2>9 DEF Abs
<1>8. CASE ~(d > 0 <=> b > 0)
  BY <1>1, <1>2, <1>3, <1>4, <1>5, <1>8, WithinACode DEF d
<1>9. QED
  BY <1>7, <1>8

\* What is written of a step goes its way and no further.
LEMMA WrittenWay ==
  ASSUME IInv, NEW r \in Rows, NEW st \in StepsTo, NEW n \in Writes(Trimmed(r, st))
  PROVE  n \in Int /\ Abs(n) <= Abs(st) /\ (n # 0 => (n > 0 <=> st > 0))
<1> DEFINE t == Trimmed(r, st)
<1>1. TrimMax \in Nat /\ offset[r] \in -TrimMax .. TrimMax /\ st \in Int
  BY TrimAssumption, Ranges DEF IInv
<1>2. t \in Int /\ Abs(t) <= Abs(st) /\ (t # 0 => (t > 0 <=> st > 0))
  BY <1>1 DEF Trimmed, Abs
<1> HIDE DEF t
<1>3. n = t \/ n = 0 \/ (Abs(t) > TryMax /\ n = Sgn(t) * TryMax)
  BY DEF Writes, t
<1>4. Abs(t) > TryMax /\ n = Sgn(t) * TryMax =>
        (n = 8 /\ t > 8) \/ (n = -8 /\ t < -8)
  BY <1>2 DEF Abs, Sgn, TryMax
<1>5. QED
  BY <1>1, <1>2, <1>3, <1>4 DEF Abs

\* The row that was decided on: searching, holding, or neither.
LEMMA DecidedSearch ==
  ASSUME IInv, SearchInv, NEW r \in Rows \ (upset \cup misled),
         NEW n \in Writes(Trimmed(r, Decided(r).step))
  PROVE  LET e == Decided(r)
             w == RowAfter(e, Mean(DC(r)), n)
         IN  /\ Searched(trueSlope, stored[r], sigma, offset[r] + n, e.slope, w)
             /\ Held(trueSlope, stored[r], offset[r] + n, w)
<1> DEFINE e == Decided(r)
           x == Mean(DC(r))
           w == RowAfter(e, x, n)
           d == DC(r)
           t == trueSlope
           c == stored[r]
           j == Judged(r)
           v == row[r]
<1>1. /\ t \in Int \ {0} /\ offset[r] \in Int /\ c \in Int /\ d = t * offset[r] + c /\ d \in Int
      /\ v \in RowRec /\ e \in AxisRec /\ sigma \in Nat \ {0} /\ Share(d) = ShareOf(sigma, d)
      /\ slope \in Int \ {0}
  BY PlantType, WindowType, StagesType, ShareIs, PlantAssumption DEF IInv, Slopes
<1>2. /\ Searched(t, c, sigma, offset[r], slope, v)
      /\ Held(t, c, offset[r], v)
  BY DEF SearchInv
<1>3. n \in Int /\ Abs(n) <= Abs(e.step) /\ (n # 0 => (n > 0 <=> e.step > 0))
  <2>1. e.step \in StepsTo
    BY <1>1 DEF AxisRec
  <2>2. QED
    BY <2>1, WrittenWay
<1>4. e.lastStep = 0 /\ e.lastPneg = Share(d)
  <2>1. CASE Folded(Share(d))
    BY <2>1, FoldedChoice
  <2>2. CASE ~Folded(Share(d))
    BY <2>2, LinearStages
  <2>3. QED
    BY <2>1, <2>2
<1>5. /\ w.lastStep = n /\ w.prevStep = e.prevStep /\ w.lastPneg = e.lastPneg /\ w.bracket = e.bracket
      /\ w.lastFolded = e.lastFolded /\ w.foldBad = e.foldBad
  <2>1. {"lastDc", "lastStep", "prevStep", "lastPneg", "bracket", "lastFolded", "foldBad"} \subseteq DOMAIN FreshRow
    BY DEF FreshRow
  <2> HIDE DEF e, x
  <2>2. w.lastStep = IF n = 0 THEN e.lastStep ELSE n
    BY <2>1 DEF RowAfter
  <2>3. /\ w.prevStep = e.prevStep /\ w.lastPneg = e.lastPneg /\ w.bracket = e.bracket
        /\ w.lastFolded = e.lastFolded /\ w.foldBad = e.foldBad
    BY <2>1 DEF RowAfter
  <2>4. QED
    BY <1>4, <2>2, <2>3
<1> HIDE DEF w
<1>6. Before(t, c, offset[r] + n, w) = d
  BY <1>1, <1>3, <1>5 DEF Before
<1>7. ASSUME e.prevStep # 0, e.step = e.prevStep, d # 0, Against(e.prevStep, d, e.slope),
             e.prevStep \in {-1, 1} /\ e.lastFolded => Sgn(e.slope) = Sgn(t) \/ e.foldBad = 0,
             ~e.bracket
      PROVE  Searched(t, c, sigma, offset[r] + n, e.slope, w) /\ Held(t, c, offset[r] + n, w)
  <2>1. w.lastPneg = ShareOf(sigma, d)
    BY <1>1, <1>4, <1>5
  <2>2. Abs(w.lastStep) <= Abs(w.prevStep) /\ (w.lastStep # 0 => (w.lastStep > 0 <=> w.prevStep > 0))
    BY <1>3, <1>5, <1>7
  <2>3. Held(t, c, offset[r] + n, w)
    BY <1>5, <1>7 DEF Held
  <2> HIDE DEF e, d, t, c
  <2>4. Searched(t, c, sigma, offset[r] + n, e.slope, w)
    BY <1>5, <1>6, <1>7, <2>1, <2>2 DEF Searched
  <2>5. QED
    BY <2>3, <2>4
<1>8. ASSUME e.prevStep = 0, e.step = 0, e.bracket => Abs(d) <= Abs(t)
      PROVE  Searched(t, c, sigma, offset[r] + n, e.slope, w) /\ Held(t, c, offset[r] + n, w)
  <2>1. n = 0
    BY <1>3, <1>8 DEF Abs
  <2>2. t * (offset[r] + n) + c = d
    BY <1>1, <2>1
  <2>3. QED
    BY <1>5, <1>8, <2>2 DEF Searched, Held
<1>9. CASE ~Folded(Share(d))
  <2>1. /\ ~e.bracket /\ ~e.lastFolded
        /\ \/ e.prevStep = 0 /\ e.step = 0
           \/ e.prevStep # 0 /\ e.step = e.prevStep /\ d # 0 /\ Against(e.prevStep, d, e.slope)
    BY <1>9, LinearStages
  <2>2. QED
    BY <1>7, <1>8, <2>1 DEF w
<1>10. CASE Folded(Share(d))
  <2>1. d # 0 /\ \/ v.bracket /\ e.bracket /\ e.prevStep = v.prevStep /\ e.step = 0
                 \/ /\ e.bracket /\ e.prevStep = 0 /\ e.step = 0
                    /\ v.prevStep \in {-1, 1} /\ ~Against(v.prevStep, d, j.slope)
                 \/ /\ ~e.bracket /\ e.prevStep # 0 /\ e.step = e.prevStep
                    /\ Against(e.prevStep, d, e.slope)
                    /\ e.prevStep \in {-1, 1} =>
                         /\ v.prevStep # 0 /\ ~Against(v.prevStep, d, j.slope)
                         /\ e.slope = j.slope /\ e.foldBad = j.foldBad
    BY <1>10, FoldedChoice
  <2>2. CASE v.bracket /\ e.bracket /\ e.prevStep = v.prevStep /\ e.step = 0
    <3>1. v.prevStep = 0 /\ Abs(d) <= Abs(t)
      BY <1>1, <1>2, <2>2 DEF Held
    <3>2. QED
      BY <1>8, <2>2, <3>1 DEF w
  <2>3. CASE /\ e.bracket /\ e.prevStep = 0 /\ e.step = 0
             /\ v.prevStep \in {-1, 1} /\ ~Against(v.prevStep, d, j.slope)
    <3>1. Abs(d) <= Abs(t)
      BY <1>2, <1>10, <2>3, CrossedWithin
    <3>2. QED
      BY <1>8, <2>3, <3>1 DEF w
  <2>4. CASE /\ ~e.bracket /\ e.prevStep # 0 /\ e.step = e.prevStep /\ Against(e.prevStep, d, e.slope)
             /\ e.prevStep \in {-1, 1} =>
                  /\ v.prevStep # 0 /\ ~Against(v.prevStep, d, j.slope)
                  /\ e.slope = j.slope /\ e.foldBad = j.foldBad
    <3>1. ASSUME e.prevStep \in {-1, 1} PROVE Sgn(e.slope) = Sgn(t) \/ e.foldBad = 0
      <4> DEFINE b == Before(t, c, offset[r], v)
                 h == v.lastStep
      <4>1. j.slope = slope \/ j.foldBad = 0
        <5>1. Axis(r) \in AxisRec /\ Axis(r).slope = slope /\ Share(d) \in Int
          BY StagesType, WindowType DEF Axis
        <5>2. QED
          BY <5>1, JudgedSearch DEF Judged
      <4>2. /\ v.prevStep # 0 /\ ~Against(v.prevStep, d, j.slope)
            /\ e.slope = j.slope /\ e.foldBad = j.foldBad
        BY <2>4, <3>1
      <4>3. b # 0 /\ Against(v.prevStep, b, slope) /\ (h # 0 => (h > 0 <=> v.prevStep > 0))
        BY <1>2, <4>2 DEF Searched
      <4>4. v.prevStep \in Int \ {0} /\ h \in Int /\ b \in Int /\ d = b + t * h
        BY <1>1, <4>2 DEF Before, RowRec, StepsTo
      <4> HIDE DEF b, h, d, j, e, t
      <4>5. ASSUME j.slope = slope PROVE Sgn(slope) = Sgn(t)
        <5>1. ~(d > 0 <=> b > 0)
          BY <4>2, <4>3, <4>5 DEF Against
        <5>2. t \in Int \ {0} /\ d \in Int /\ d # 0 /\ slope \in Int \ {0}
          BY <1>1, <2>1 DEF d
        <5> DEFINE k == t * h
        <5>3. h \in Int /\ b \in Int /\ d = b + k /\ (h = 0 => k = 0)
          <6>1. t \in Int => t * 0 = 0
            OBVIOUS
          <6>2. QED
            BY <4>4, <5>2, <6>1
        <5>4. h # 0 => k \in Int /\ (k > 0 <=> Sgn(t) = Sgn(h))
          <6>1. h # 0 => h \in Int \ {0}
            BY <5>3
          <6>2. QED
            BY <5>2, <6>1, SignOfProduct
        <5> HIDE DEF k
        <5>5. h # 0 /\ k \in Int /\ (k > 0 <=> d > 0)
          <6>1. h # 0
            BY <5>1, <5>2, <5>3
          <6>2. b # 0 /\ d # 0
            BY <4>3, <5>2
          <6>3. QED
            BY <5>1, <5>2, <5>3, <5>4, <6>1, <6>2
        <5>6. (v.prevStep < 0 <=> (b > 0 <=> slope > 0)) /\ (h > 0 <=> v.prevStep > 0) /\ b # 0
          BY <4>3, <5>5 DEF Against
        <5>7. Sgn(t) = Sgn(h) <=> d > 0
          BY <5>4, <5>5
        <5>8. QED
          BY <4>4, <5>1, <5>2, <5>3, <5>5, <5>6, <5>7 DEF Sgn
      <4>6. QED
        BY <4>1, <4>2, <4>5
    <3>2. QED
      BY <1>7, <2>1, <2>4, <3>1 DEF w
  <2>5. QED
    BY <2>1, <2>2, <2>3, <2>4
<1>11. QED
  BY <1>9, <1>10

\* A search goes on under any slope of the same polarity.
LEMMA SamePolarity ==
  ASSUME NEW s \in Int \ {0}, NEW u \in Int \ {0}, Sgn(u) = Sgn(s),
         NEW t, NEW c, NEW g, NEW o, NEW w, Searched(t, c, g, o, s, w)
  PROVE  Searched(t, c, g, o, u, w)
<1>1. u > 0 <=> s > 0
  BY DEF Sgn
<1>2. \A x, b : Against(x, b, s) => Against(x, b, u)
  BY <1>1 DEF Against
<1>3. QED
  BY <1>2 DEF Searched

\* A row that neither searches nor holds is no concern.
LEMMA NotSearching ==
  ASSUME NEW w, ~Searches(w), NEW t, NEW c, NEW g, NEW o, NEW s
  PROVE  Searched(t, c, g, o, s, w) /\ Held(t, c, o, w)
  BY DEF Searches, Searched, Held

LEMMA DecideSearch ==
  ASSUME IInv, SearchInv, NEW r \in Rows, NEW refused \in BOOLEAN, Decide(r, refused)
  PROVE  SearchInv'
<1> DEFINE d == Mean(DC(r))
           e == Decided(r)
<1>1. PICK n \in Writes(Trimmed(r, e.step)) : Done(r, e, n, d)
  BY Stages
<1>2. /\ slope' = e.slope /\ row' = [row EXCEPT ![r] = RowAfter(e, d, n)]
      /\ offset' = [offset EXCEPT ![r] = @ + n]
      /\ misled' = {q \in misled \cup NewlyMisled(r, e.slope) : Searches(row'[q])}
      /\ UNCHANGED <<trueSlope, sigma, stored, upset>>
  BY <1>1 DEF Done, plant
<1>3. slope \in Int \ {0} /\ e.slope \in Int \ {0}
  <2>1. e \in AxisRec
    BY StagesType
  <2>2. e.slope \in Slopes /\ slope \in Slopes
    BY <2>1 DEF AxisRec, IInv
  <2>3. QED
    BY <2>2 DEF Slopes
<1>4. row'[r] = RowAfter(e, d, n) /\ offset'[r] = offset[r] + n
  BY <1>2 DEF IInv
<1>5. ASSUME r \notin upset \cup misled
      PROVE  /\ Searched(trueSlope, stored[r], sigma, offset'[r], e.slope, row'[r])
             /\ Held(trueSlope, stored[r], offset'[r], row'[r])
  BY <1>1, <1>4, <1>5, DecidedSearch
<1> HIDE DEF d, e
<1>6. ASSUME NEW q \in Rows \ (upset' \cup misled')
      PROVE  /\ Searched(trueSlope, stored[q], sigma, offset'[q], e.slope, row'[q])
             /\ Held(trueSlope, stored[q], offset'[q], row'[q])
  <2>1. q \notin upset /\ (q \in misled \cup NewlyMisled(r, e.slope) => ~Searches(row'[q]))
    BY <1>2, <1>6
  <2>2. CASE ~Searches(row'[q])
    BY <2>2, NotSearching
  <2>3. CASE Searches(row'[q]) /\ q = r
    BY <1>5, <2>1, <2>3
  <2>4. CASE Searches(row'[q]) /\ q # r
    <3>1. row'[q] = row[q] /\ offset'[q] = offset[q] /\ q \notin upset \cup misled
      BY <1>2, <1>6, <2>1, <2>4 DEF IInv
    <3>2. /\ Searched(trueSlope, stored[q], sigma, offset[q], slope, row[q])
          /\ Held(trueSlope, stored[q], offset[q], row[q])
      BY <1>6, <3>1 DEF SearchInv
    <3>3. Sgn(e.slope) = Sgn(slope) \/ row[q].prevStep = 0
      BY <1>6, <2>1, <2>4 DEF NewlyMisled
    <3>4. CASE row[q].prevStep = 0
      BY <3>1, <3>2, <3>4 DEF Searched
    <3>5. CASE Sgn(e.slope) = Sgn(slope)
      <4>1. Searched(trueSlope, stored[q], sigma, offset[q], e.slope, row[q])
        BY <1>3, <3>2, <3>5, SamePolarity
      <4>2. QED
        BY <3>1, <3>2, <4>1
    <3>6. QED
      BY <3>3, <3>4, <3>5
  <2>5. QED
    BY <2>2, <2>3, <2>4
<1>7. QED
  BY <1>2, <1>6 DEF SearchInv

LEMMA SearchInit == Init => SearchInv
<1> SUFFICES ASSUME Init, NEW r \in Rows PROVE ~Searches(row[r])
  BY NotSearching DEF SearchInv
<1>1. row[r].prevStep = 0 /\ row[r].bracket = FALSE
  BY DEF Init, FreshRow
<1>2. QED
  BY <1>1 DEF Searches

LEMMA SearchStep == IInv /\ SearchInv /\ [Next]_vars => SearchInv'
<1> SUFFICES ASSUME IInv, SearchInv, [Next]_vars PROVE SearchInv'
  OBVIOUS
<1>1. ASSUME NEW r \in Rows, Service(r) PROVE SearchInv'
  BY <1>1, DecideSearch DEF Service
<1>2. ASSUME NEW r \in Rows, ServiceRefused(r) PROVE SearchInv'
  BY <1>2, DecideSearch DEF ServiceRefused
<1>3. ASSUME NEW r \in Rows, Jump(r) PROVE SearchInv'
  <2>1. /\ upset' = upset \cup {r} /\ misled' = misled
        /\ UNCHANGED <<slope, row, offset, trueSlope, sigma>>
        /\ \E j \in Jumps : stored' = [stored EXCEPT ![r] = @ + j]
    BY <1>3 DEF Jump
  <2>2. ASSUME NEW q \in Rows \ (upset' \cup misled')
        PROVE  stored'[q] = stored[q] /\ q \in Rows \ (upset \cup misled)
    BY <2>1, <2>2 DEF IInv
  <2>3. QED
    BY <2>1, <2>2 DEF SearchInv
<1>4. CASE ForgetAll
  <2>1. ASSUME NEW r \in Rows PROVE ~Searches(row'[r])
    <3>1. row'[r] = Forgotten(row[r]) /\ row[r] \in RowRec
      BY <1>4 DEF ForgetAll, IInv
    <3>2. QED
      BY <3>1 DEF Forgotten, RowRec, Searches
  <2>2. QED
    BY <2>1, NotSearching DEF SearchInv
<1>5. CASE UNCHANGED vars
  BY <1>5 DEF vars, plant, SearchInv
<1>6. QED
  BY <1>1, <1>2, <1>3, <1>4, <1>5 DEF Next

\* A crossing that is held is the crossing of zero, for any number of rows,
\* either polarity of the hardware, zero on a code or between two, and whatever
\* part of a step is written or refused: unless the zero has moved by itself,
\* or another row turned the shared polarity while this one searched.
THEOREM BracketsHold == Spec => []BracketHoldsZero
<1>1. IInv /\ SearchInv => BracketHoldsZero
  BY DEF SearchInv, Held, BracketHoldsZero, DC
<1>2. QED
  BY <1>1, InitIInv, StepIInv, SearchInit, SearchStep, PTL DEF Spec
=============================================================================
