----------------------------- MODULE LoopsProof -----------------------------
(***************************************************************************)
(* The two loops of the control task for any constants.                    *)
(*                                                                         *)
(* The automatic gain (Keel), for any rows, tables and levels: its types,  *)
(* that the row that folded stays out of reach, that nothing raises the    *)
(* gain on a dead carrier, that a learned step of headroom ends the folds. *)
(* The automatic frequency control (Afc), for any limits, carriers and     *)
(* noise: its types, that it judges the present tuning only, where its     *)
(* lock is taken and where a correction leads.                             *)
(***************************************************************************)
EXTENDS Keel, Afc, NaturalsInduction, WellFoundedInduction, FiniteSetTheorems,
        SequenceTheorems, TLAPS

LEMMA Extremes ==
  ASSUME NEW S \in SUBSET Rows, S # {}
  PROVE  /\ Highest(S) \in S /\ \A s \in S : Highest(S) >= s
         /\ Lowest(S) \in S /\ \A s \in S : Lowest(S) <= s
<1>1. (\E r \in S : \A s \in S : r <= s) /\ (\E r \in S : \A s \in S : r >= s)
  BY RowAssumption
<1>2. QED
  BY <1>1 DEF Highest, Lowest

LEMMA Choices ==
  ASSUME NEW from \in Rows, NEW delta
  PROVE  Upward(from, delta) \in Rows /\ Downward(from, delta) \in Rows
<1>1. Upward(from, delta) \in Rows
  <2> DEFINE S == {from} \cup {r \in Home : r > from /\ Model[r] + heat[r] <= Model[from] + delta + Slack}
  <2>1. S \in SUBSET Rows /\ S # {}
    BY RowAssumption
  <2> HIDE DEF S
  <2>2. Highest(S) \in Rows
    BY <2>1, Extremes
  <2>3. QED
    BY <2>2 DEF Upward, S
<1>2. Downward(from, delta) \in Rows
  <2> DEFINE S == {r \in Home : r < from /\ Model[r] <= Model[from] + delta + Slack}
  <2>1. S \in SUBSET Rows
    BY RowAssumption
  <2> HIDE DEF S
  <2>2. S # {} => Highest(S) \in Rows
    BY <2>1, Extremes
  <2>3. Lowest(Home) \in Rows
    BY RowAssumption, Extremes
  <2>4. QED
    BY <2>2, <2>3 DEF Downward, S
<1>3. QED
  BY <1>1, <1>2

\* An attack goes down, or stays on the lowest row.
LEMMA AttackedType ==
  ASSUME own \in Rows, NEW delta
  PROVE  Attacked(delta) \in Rows /\ Attacked(delta) <= own
<1>1. Downward(own, delta) \in Rows /\ own \in Int
  BY Choices, RowAssumption
<1>2. Lowest(Rows) \in Rows /\ Lowest(Rows) <= own /\ Rows \subseteq Int
  BY Extremes, RowAssumption
<1>3. own - 1 \in Rows \/ Lowest(Rows) = own
  <2>1. own - 1 \in Rows \/ own <= Lowest(Rows)
    BY <1>2, RowAssumption
  <2>2. Lowest(Rows) \in Int
    BY <1>2
  <2>3. QED
    BY <1>1, <1>2, <2>1, <2>2
<1>4. Max(own - 1, Lowest(Rows)) \in Rows /\ Max(own - 1, Lowest(Rows)) <= own
  <2>1. Lowest(Rows) \in Int
    BY <1>2
  <2>2. QED
    BY <1>1, <1>2, <1>3, <2>1 DEF Max
<1>5. \A r \in Int : r < own => r <= own
  BY <1>1
<1>6. Attacked(delta) = Max(own - 1, Lowest(Rows))
      \/ (Attacked(delta) = Downward(own, delta) /\ Downward(own, delta) < own)
  BY DEF Attacked
<1>7. QED
  BY <1>1, <1>2, <1>4, <1>5, <1>6

\* A release never goes down, and not into the row that folded.
LEMMA TargetType ==
  ASSUME own \in Rows
  PROVE  /\ Target \in Rows
         /\ ~Far /\ foldedFor > 0 /\ folded \in Int /\ Target > own => Target < folded
<1>1. own \in Int /\ Rows \subseteq Int
  BY RowAssumption
<1> DEFINE u == Upward(own, StepUp)
           S == {own} \cup {r \in Home : own < r /\ r < folded}
<1>2. u \in Rows
  BY Choices
<1> HIDE DEF u
<1>3. S \in SUBSET Rows /\ S # {}
  BY RowAssumption
<1>4. \A x \in S : x = own \/ x < folded
  OBVIOUS
<1> HIDE DEF S
<1>5. Highest(S) \in S /\ Highest(S) \in Rows
  BY <1>3, Extremes
<1>6. Target \in {own, u, Highest(S)}
  BY DEF Target, Unfolded, u, S
<1>7. ASSUME ~Far, foldedFor > 0, folded \in Int, Target > own PROVE Target < folded
  <2>1. Target = Unfolded(u, Far)
    <3>1. Target # own
      BY <1>1, <1>7
    <3>2. QED
      BY <3>1 DEF Target, u
  <2>2. CASE u >= folded
    <3>1. Target = Highest(S)
      BY <1>7, <2>1, <2>2 DEF Unfolded, S
    <3>2. Target # own
      BY <1>1, <1>7
    <3>3. QED
      BY <1>4, <1>5, <3>1, <3>2
  <2>3. CASE ~(u >= folded)
    <3>1. Target = u
      BY <2>1, <2>3 DEF Unfolded
    <3>2. u \in Int
      BY <1>1, <1>2
    <3>3. QED
      BY <1>7, <2>3, <3>1, <3>2
  <2>4. QED
    BY <2>2, <2>3
<1>8. QED
  BY <1>2, <1>5, <1>6, <1>7

-----------------------------------------------------------------------------
\* The ranges, by name.
Bits     == BOOLEAN
Marks    == Rows \cup {NoRow}
Held     == 0 .. Hold
Memories == Unset .. Hold
Levels   == Quietest .. Loudest
Peaks    == [1 .. Hold -> Levels]
Folds    == 0 .. FoldMemory
Ups      == 0 .. HeatWindow
Heats    == [Rows -> 0 .. HeatMax]
Decays   == 0 .. HeatDecay

Air    == real \in Tables /\ signal \in Signals
RowOK  == row \in Rows /\ own \in Rows

\* A core that is not at the row in force was lifted to Floor by a reset, and
\* has not judged a window since.
OwnOK == (own = row \/ (row < own /\ own = Floor)) /\ (settling => own = row)

FlagOK == settling \in Bits /\ fresh \in Bits /\ clipped \in Bits /\ sat \in Bits /\ far \in Bits /\ seen \in Bits
RunOK  == satFor \in 0 .. 1 /\ downAfter \in 0 .. 1 /\ upAfter \in Held
PeakOK == peaks \in Peaks /\ memory \in Memories
FoldOK == folded \in Marks /\ released \in Marks /\ foldedFor \in Folds /\ releasedFor \in Ups
HeatOK == heat \in Heats /\ heatIn \in Decays /\ (heatIn = 0 => heat = Cold)

\* The history of the last attack is what the code remembers of it.
HistOK ==
  /\ DOMAIN hist = {"left", "leftFor", "calm", "up", "upFor", "refolds"}
  /\ hist.left = folded /\ hist.leftFor = foldedFor

IInv == Air /\ RowOK /\ OwnOK /\ FlagOK /\ RunOK /\ PeakOK /\ FoldOK /\ HeatOK /\ HistOK

LEMMA Constants ==
  /\ Hold \in Nat \ {0} /\ FoldMemory \in Nat \ {0} /\ HeatWindow \in Nat \ {0} /\ HeatDecay \in Nat \ {0}
  /\ Hold < HeatWindow /\ HeatWindow < FoldMemory /\ FoldMemory < HeatDecay
  /\ UpGap \in Held /\ Hold \in Held /\ 0 \in Held /\ FoldMemory \in Folds /\ 0 \in Folds
  /\ HeatWindow \in Ups /\ 0 \in Ups /\ HeatDecay \in Decays /\ 0 \in Decays
  /\ 0 \in Memories /\ Unset \in Memories /\ Hold \in Memories
  /\ NoRow \in Marks /\ Rows \subseteq Marks /\ NoRow \in Int
  /\ TRUE \in Bits /\ FALSE \in Bits /\ Empty \in Peaks /\ Cold \in Heats /\ 1 \in 1 .. Hold
<1>1. {Hold, UpGap, HeatWindow, FoldMemory, HeatDecay} \subseteq Nat \ {0} /\ UpGap <= Hold
  BY TimeAssumption
<1>2. Empty \in Peaks
  BY <1>1 DEF Empty, Peaks, Levels, Quietest, Loudest
<1>3. Cold \in Heats
  BY DEF Cold, Heats, HeatMax
<1>4. NoRow \in Int
  <2>1. Rows # {} /\ Rows \in SUBSET Rows
    BY RowAssumption
  <2>2. Lowest(Rows) \in Int
    BY <2>1, Extremes, RowAssumption
  <2>3. QED
    BY <2>2 DEF NoRow
<1>5. Hold < HeatWindow /\ HeatWindow < FoldMemory /\ FoldMemory < HeatDecay
  BY TimeAssumption
<1>6. QED
  BY <1>1, <1>2, <1>3, <1>4, <1>5 DEF Held, Folds, Ups, Decays, Memories, Unset, Marks, Bits

LEMMA LevelType ==
  ASSUME Air, RowOK
  PROVE  /\ Level(row) \in Levels /\ PeakOf(row) \in Levels /\ ReleaseLevel(row) \in Levels
         /\ Clips(row) \in Bits /\ Saturated(row) \in Bits
<1>1. real[row] \in Int /\ Noise \in Int /\ signal \in Int
  BY LevelAssumption DEF Air, RowOK
<1>2. Max(signal, Noise) + real[row] \in Int
  BY <1>1 DEF Max
<1>3. \A x \in Int : Max(Quietest, Min(Loudest, x)) \in Levels
  BY DEF Max, Min, Quietest, Loudest, Levels
<1>4. Level(row) \in Levels
  BY <1>2, <1>3 DEF Level
<1>5. PeakOf(row) \in Levels
  BY <1>4 DEF PeakOf, Levels, Quietest, Loudest
<1>6. ReleaseLevel(row) \in Levels
  BY <1>5 DEF ReleaseLevel, Levels, Quietest, Loudest
<1>7. QED
  BY <1>4, <1>5, <1>6 DEF Clips, Saturated, Bits

LEMMA RememberedType ==
  ASSUME Air, RowOK, PeakOK
  PROVE  Remembered \in Peaks /\ Settled.memory \in Memories
<1>1. peaks \in Peaks /\ Empty \in Peaks /\ Hold \in Nat \ {0} /\ memory \in Unset .. Hold
  BY Constants DEF PeakOK, Memories
<1>2. Settled.peaks \in Peaks
  BY <1>1 DEF Settled
<1>3. Settled.memory \in Memories
  BY <1>1 DEF Settled, Max, Memories, Unset
<1>4. \A x, y \in Levels : Max(x, y) \in Levels
  BY DEF Max
<1>5. Settled.peaks[1] \in Levels
  BY <1>1, <1>2 DEF Peaks
<1>6. Max(Settled.peaks[1], ReleaseLevel(row)) \in Levels
  BY <1>4, <1>5, LevelType
<1>7. QED
  BY <1>2, <1>3, <1>6 DEF Remembered, Peaks

LEMMA HeatType ==
  ASSUME HeatOK
  PROVE  Heated \in Heats /\ Cooled \in Heats
<1>1. \A r \in Rows : heat[r] \in 0 .. HeatMax
  BY DEF HeatOK, Heats
<1>2. \A r \in Rows : Min(heat[r] + HeatStep, HeatMax) \in 0 .. HeatMax /\ Max(heat[r] - HeatLoss, 0) \in 0 .. HeatMax
  <2>1. \A x \in 0 .. HeatMax : Min(x + HeatStep, HeatMax) \in 0 .. HeatMax /\ Max(x - HeatLoss, 0) \in 0 .. HeatMax
    BY DEF Min, Max, HeatStep, HeatMax, HeatLoss
  <2>2. QED
    BY <1>1, <2>1
<1>3. Heated \in Heats
  BY <1>2 DEF Heated, HeatOK, Heats
<1>4. Cooled \in Heats
  BY <1>2 DEF Cooled, HeatOK, Heats
<1>5. QED
  BY <1>3, <1>4

LEMMA DecayType ==
  ASSUME HeatOK, Decaying
  PROVE  heatIn' \in Decays /\ (heatIn' = 0 => heat' = Cold)
<1>1. HeatDecay \in Nat \ {0}
  BY Constants
<1>2. QED
  BY <1>1 DEF Decaying, HeatOK, Decays

\* A write moves the row to where it aims, or leaves it, and the core with it.
LEMMA WrittenType ==
  ASSUME RowOK, FlagOK, NEW t \in Rows, Written(t)
  PROVE  /\ RowOK' /\ settling' \in Bits /\ fresh' \in Bits
         /\ own' = row' /\ (row' = row \/ row' = t)
  BY DEF Written, Applied, RefusedWrite, RowOK, FlagOK, Bits

\* A reset starts the core at the row in force or lifts it to Floor.
LEMMA RestartedType ==
  ASSUME RowOK
  PROVE  Restarted \in Rows /\ (Restarted = row \/ (row < Restarted /\ Restarted = Floor))
<1>1. row \in Int /\ Floor \in Rows /\ Floor \in Int
  BY RowAssumption, FloorAssumption DEF RowOK
<1>2. QED
  BY <1>1 DEF Restarted, Max, RowOK

LEMMA OwnStep ==
  ASSUME IInv, Next
  PROVE  RowOK' /\ OwnOK'
<1>1. RowOK /\ OwnOK /\ FlagOK
  BY DEF IInv
<1>2. CASE Judged
  <2>1. PICK t \in Rows : Written(t)
    <3>1. Attacked(AttackDelta) \in Rows /\ Target \in Rows /\ own \in Rows
      BY <1>1, AttackedType, TargetType DEF RowOK
    <3>2. Written(Attacked(AttackDelta)) \/ Written(Target) \/ Written(own)
      BY <1>2 DEF Judged, AttackWrite, AttackWaits, Raise, Stay
    <3>3. QED
      BY <3>1, <3>2
  <2>2. QED
    BY <1>1, <2>1, WrittenType DEF OwnOK
<1>3. CASE Guarded \/ Pass \/ Gap \/ Fade
  BY <1>1, <1>3 DEF Guarded, Pass, Countdown, Gap, Fade, core, RowOK, OwnOK
<1>4. CASE Rebind \/ Retune
  <2>1. own' = Restarted /\ row' = row /\ settling' = FALSE
    BY <1>4 DEF Rebind, Retune
  <2>2. Floor' = Floor /\ Rows' = Rows
    OBVIOUS
  <2>3. QED
    BY <1>1, <2>1, <2>2, RestartedType DEF RowOK, OwnOK
<1>5. QED
  BY <1>2, <1>3, <1>4 DEF Next, Window

LEMMA InitIInv == Init => IInv
<1> SUFFICES ASSUME Init PROVE IInv
  OBVIOUS
<1>1. Air /\ RowOK /\ OwnOK
  BY DEF Init, Air, RowOK, OwnOK
<1>2. FlagOK /\ PeakOK /\ HeatOK
  BY Constants DEF Init, FlagOK, PeakOK, HeatOK
<1>3. RunOK
  BY Constants DEF Init, RunOK
<1>4. FoldOK
  BY Constants DEF Init, FoldOK
<1>5. HistOK
  BY DEF Init, HistOK
<1>6. QED
  BY <1>1, <1>2, <1>3, <1>4, <1>5 DEF IInv

LEMMA WindowStep ==
  ASSUME IInv, Window
  PROVE  IInv'
<1>1. Air /\ RowOK /\ FlagOK /\ RunOK /\ PeakOK /\ FoldOK /\ HeatOK /\ HistOK
  BY DEF IInv
<1>2. Air' /\ RowOK' /\ OwnOK'
  BY <1>1, OwnStep DEF Next, Window, Guarded, Judged, Same, signals, Air
<1>3. CASE Guarded
  <2>1. FlagOK' /\ RunOK' /\ PeakOK' /\ FoldOK' /\ HeatOK'
    BY <1>1, <1>3, LevelType, Constants
    DEF Guarded, FlagOK, RunOK, PeakOK, FoldOK, HeatOK
  <2>2. HistOK'
    BY <1>1, <1>3 DEF Guarded, HistOK
  <2>3. QED
    BY <1>2, <2>1, <2>2 DEF IInv
<1>4. CASE Judged
  <2>1. PeakOK' /\ seen' \in Bits /\ clipped' \in Bits
        /\ heatIn' \in Decays /\ (heatIn' = 0 => heat' = Cold)
    BY <1>1, <1>4, LevelType, RememberedType, DecayType, Constants DEF Judged, PeakOK
  <2>2. Run => sat' \in Bits /\ satFor' \in 0 .. 1
    BY <1>1, LevelType DEF Run, RunOK
  <2>3. CASE AttackWrite
    <3> DEFINE t == Attacked(AttackDelta)
    <3>1. t \in Rows
      BY <1>1, AttackedType DEF RowOK
    <3> HIDE DEF t
    <3>2. Written(t)
      BY <2>3 DEF AttackWrite, t
    <3>3. settling' \in Bits /\ fresh' \in Bits
      BY <1>1, <3>1, <3>2, WrittenType DEF RowOK
    <3>4. sat' \in Bits /\ far' \in Bits /\ RunOK'
      <4>1. satFor' = 0 /\ downAfter' = 1 /\ upAfter' = Hold /\ sat' = FALSE /\ far' = FALSE
        BY <2>3 DEF AttackWrite
      <4>2. Hold \in Held /\ Hold' = Hold /\ FALSE \in Bits
        BY Constants
      <4>3. satFor' \in 0 .. 1 /\ downAfter' \in 0 .. 1
        BY <4>1
      <4>4. upAfter' \in Held
        BY <4>1, <4>2
      <4>5. QED
        BY <4>1, <4>2, <4>3, <4>4 DEF RunOK
    <3>5. FoldOK'
      BY <1>1, <2>3, Constants DEF AttackWrite, FoldOK, RowOK
    <3>6. HeatOK'
      BY <1>1, <2>1, <2>3, HeatType DEF AttackWrite, HeatOK
    <3>7. HistOK'
      BY <1>1, <2>3 DEF AttackWrite, HistOK
    <3>8. QED
      BY <1>2, <2>1, <3>3, <3>4, <3>5, <3>6, <3>7 DEF IInv, FlagOK
  <2>4. CASE AttackWaits
    <3>1. settling' \in Bits /\ fresh' \in Bits
      BY <1>1, <2>4, WrittenType DEF AttackWaits, RowOK
    <3>2. FlagOK' /\ RunOK' /\ FoldOK' /\ HeatOK'
      BY <1>1, <2>1, <2>2, <2>4, <3>1 DEF AttackWaits, FlagOK, RunOK, FoldOK, HeatOK
    <3>3. HistOK'
      BY <1>1, <2>4 DEF AttackWaits, HistOK
    <3>4. QED
      BY <1>2, <2>1, <3>2, <3>3 DEF IInv
  <2>5. CASE Raise
    <3>1. Target \in Rows /\ Written(Target)
      BY <1>1, <2>5, TargetType DEF Raise, RowOK
    <3>2. settling' \in Bits /\ fresh' \in Bits
      BY <1>1, <3>1, WrittenType DEF RowOK
    <3>3. RunOK' /\ FlagOK'
      BY <1>1, <2>1, <2>2, <2>5, <3>2, Constants DEF Raise, RunOK, FlagOK, Far, Bits
    <3>4. FoldOK' /\ HeatOK'
      BY <1>1, <2>1, <2>5, <3>1, Constants DEF Raise, FoldOK, HeatOK
    <3>5. HistOK'
      <4>1. hist' = [hist EXCEPT !.calm = Calm]
            \/ hist' = [hist EXCEPT !.calm = 0, !.up = row', !.upFor = HeatWindow]
        BY <2>5 DEF Raise
      <4>2. folded' = folded /\ foldedFor' = foldedFor
        BY <2>5 DEF Raise
      <4>3. CASE hist' = [hist EXCEPT !.calm = Calm]
        BY <1>1, <4>2, <4>3 DEF HistOK
      <4>4. CASE hist' = [hist EXCEPT !.calm = 0, !.up = row', !.upFor = HeatWindow]
        BY <1>1, <4>2, <4>4 DEF HistOK
      <4>5. QED
        BY <4>1, <4>3, <4>4
    <3>6. QED
      BY <1>2, <2>1, <3>2, <3>3, <3>4, <3>5 DEF IInv
  <2>6. CASE Stay
    <3>1. settling' \in Bits /\ fresh' \in Bits
      BY <1>1, <2>6, WrittenType DEF Stay, RowOK
    <3>2. RunOK' /\ FoldOK' /\ HeatOK' /\ FlagOK'
      BY <1>1, <2>1, <2>2, <2>6, <3>1, Constants DEF Stay, FlagOK, RunOK, FoldOK, HeatOK, Far, Bits
    <3>3. HistOK'
      BY <1>1, <2>6 DEF Stay, HistOK
    <3>4. QED
      BY <1>2, <2>1, <3>2, <3>3 DEF IInv
  <2>7. QED
    BY <1>4, <2>3, <2>4, <2>5, <2>6 DEF Judged
<1>5. QED
  BY <1>3, <1>4 DEF Window

\* What a countdown leaves of a time, and what a gap leaves of it.
LEMMA Counted ==
  ASSUME NEW m \in Nat, NEW n \in 0 .. m
  PROVE  Less(n) \in 0 .. m /\ Max(n - Hold - 1, 0) \in 0 .. m
  BY Constants DEF Less, Max

LEMMA PassStep ==
  ASSUME IInv, Pass
  PROVE  IInv'
<1>1. Air /\ RowOK /\ FlagOK /\ RunOK /\ PeakOK /\ FoldOK /\ HeatOK /\ HistOK
  BY DEF IInv
<1>2. Air' /\ RowOK' /\ OwnOK' /\ FlagOK'
  BY <1>1, OwnStep, Constants DEF Next, Pass, Countdown, signals, Air, FlagOK
<1>3. RunOK'
  <2>1. Less(upAfter) \in Held /\ Less(downAfter) \in 0 .. 1
    BY <1>1, Counted, Constants DEF RunOK, Held
  <2>2. (IF sat THEN More(satFor, 1) ELSE 0) \in 0 .. 1
    BY <1>1 DEF RunOK, More, Min
  <2>3. QED
    BY <2>1, <2>2 DEF Pass, Countdown, RunOK
<1>4. PeakOK'
  <2>1. Hold \in Nat \ {0} /\ Quietest \in Levels /\ peaks \in [1 .. Hold -> Levels] /\ memory \in Unset .. Hold
    BY <1>1, Constants DEF PeakOK, Peaks, Memories, Levels, Quietest, Loudest
  <2>2. \A k \in 1 .. Hold : k # 1 => peaks[k - 1] \in Levels
    BY <2>1
  <2>3. peaks' \in [1 .. Hold -> Levels]
    BY <2>1, <2>2 DEF Pass
  <2>4. memory' \in Memories
    BY <2>1 DEF Pass, More, Min, Memories, Unset
  <2>5. QED
    BY <2>3, <2>4 DEF PeakOK, Peaks
<1>5. FoldOK'
  <2>1. Less(foldedFor) \in Folds /\ Less(releasedFor) \in Ups
    BY <1>1, Counted, Constants DEF FoldOK, Folds, Ups
  <2>2. QED
    BY <1>1, <2>1 DEF Pass, Countdown, FoldOK
<1>6. HeatOK'
  <2>1. heat' \in Heats
    BY <1>1, HeatType DEF Pass, Countdown
  <2>2. heatIn' \in Decays /\ (heatIn' = 0 => heat' = Cold)
    <3>1. heatIn \in 0 .. HeatDecay /\ HeatDecay \in Nat \ {0}
      BY <1>1, Constants DEF HeatOK, Decays
    <3>2. (heatIn' = 0 /\ heat' = Cold) \/ (heatIn = 1 /\ heatIn' = HeatDecay)
          \/ (heatIn # 1 /\ heat' # Cold /\ heatIn' = heatIn - 1)
      BY DEF Pass, Countdown
    <3>3. heatIn = 0 => heat' = Cold
      BY <1>1 DEF HeatOK, Pass, Countdown, Cooled
    <3>4. CASE heatIn' = 0 /\ heat' = Cold
      BY <3>4, Constants
    <3>5. CASE heatIn = 1 /\ heatIn' = HeatDecay
      BY <3>1, <3>5, Constants
    <3>6. CASE heatIn # 1 /\ heat' # Cold /\ heatIn' = heatIn - 1
      <4>1. heatIn \in 2 .. HeatDecay
        BY <3>1, <3>3, <3>6
      <4>2. QED
        BY <3>1, <3>6, <4>1 DEF Decays
    <3>7. QED
      BY <3>2, <3>4, <3>5, <3>6
  <2>3. QED
    BY <2>1, <2>2 DEF HeatOK
<1>7. HistOK'
  <2>1. folded' = folded /\ foldedFor' = Less(foldedFor)
    BY DEF Pass, Countdown
  <2>2. QED
    BY <1>1, <2>1 DEF Pass, HistOK
<1>8. QED
  BY <1>2, <1>3, <1>4, <1>5, <1>6, <1>7 DEF IInv

LEMMA GapStep ==
  ASSUME IInv, Gap
  PROVE  IInv'
<1>1. Air /\ RowOK /\ FlagOK /\ RunOK /\ PeakOK /\ FoldOK /\ HeatOK /\ HistOK
  BY DEF IInv
<1>2. Air' /\ RowOK' /\ OwnOK' /\ FlagOK'
  BY <1>1, OwnStep, Constants DEF Next, Gap, signals, Air, FlagOK
<1>3. RunOK' /\ PeakOK'
  BY <1>1, Constants DEF Gap, RunOK, PeakOK
<1>4. FoldOK'
  <2>1. Max(foldedFor - Hold - 1, 0) \in Folds /\ Max(releasedFor - Hold - 1, 0) \in Ups
    BY <1>1, Counted, Constants DEF FoldOK, Folds, Ups
  <2>2. QED
    BY <1>1, <2>1 DEF Gap, FoldOK
<1>5. HeatOK'
  <2>1. heatIn \in 0 .. HeatDecay /\ Hold \in Nat /\ HeatDecay \in Nat \ {0}
    BY <1>1, Constants DEF HeatOK, Decays
  <2>2. Max(heatIn - Hold - 1, 1) \in 1 .. HeatDecay /\ 0 \in Decays
    BY <2>1 DEF Max, Decays
  <2>3. heatIn' \in Decays /\ (heatIn' = 0 => heat = Cold)
    BY <2>1, <2>2 DEF Gap, Decays
  <2>4. heat' = heat
    BY DEF Gap
  <2>5. QED
    BY <1>1, <2>3, <2>4 DEF HeatOK
<1>6. HistOK'
  <2>1. folded' = folded /\ foldedFor' = Max(foldedFor - Hold - 1, 0)
    BY DEF Gap
  <2>2. QED
    BY <1>1, <2>1 DEF Gap, HistOK
<1>7. QED
  BY <1>2, <1>3, <1>4, <1>5, <1>6 DEF IInv

LEMMA OutsideStep ==
  ASSUME IInv, Rebind \/ Retune \/ Fade
  PROVE  IInv'
<1>1. Air /\ RowOK /\ FlagOK /\ RunOK /\ PeakOK /\ FoldOK /\ HeatOK /\ HistOK
  BY DEF IInv
<1>0. RowOK' /\ OwnOK'
  BY OwnStep DEF Next
<1>2. CASE Rebind
  <2>1. Air' /\ FlagOK' /\ RunOK' /\ PeakOK' /\ FoldOK' /\ HeatOK'
    BY <1>1, <1>2, Constants DEF Rebind, signals, Air, FlagOK, RunOK, PeakOK, FoldOK, HeatOK
  <2>2. HistOK'
    BY <1>1, <1>2 DEF Rebind, HistOK
  <2>3. QED
    BY <1>0, <2>1, <2>2 DEF IInv
<1>3. CASE Retune
  <2>1. Air' /\ FlagOK' /\ PeakOK' /\ HeatOK'
    BY <1>1, <1>3, Constants DEF Retune, Air, FlagOK, PeakOK, HeatOK
  <2>2. RunOK'
    <3>1. satFor' = 0 /\ downAfter' = 0 /\ upAfter' = 0
      BY <1>3 DEF Retune
    <3>2. QED
      BY <3>1, Constants DEF RunOK
  <2>3. FoldOK'
    BY <1>3, Constants DEF Retune, FoldOK
  <2>4. HistOK'
    BY <1>1, <1>3 DEF Retune, HistOK
  <2>5. QED
    BY <1>0, <2>1, <2>2, <2>3, <2>4 DEF IInv
<1>4. CASE Fade
  <2>1. Air' /\ FlagOK' /\ RunOK' /\ PeakOK' /\ FoldOK' /\ HeatOK'
    BY <1>1, <1>4 DEF Fade, core, folds, Air, FlagOK, RunOK, PeakOK, FoldOK, HeatOK
  <2>2. HistOK'
    BY <1>1, <1>4 DEF Fade, folds, HistOK
  <2>3. QED
    BY <1>0, <2>1, <2>2 DEF IInv
<1>5. QED
  BY <1>2, <1>3, <1>4

LEMMA StepIInv == IInv /\ [Next]_vars => IInv'
<1> SUFFICES ASSUME IInv, [Next]_vars PROVE IInv'
  OBVIOUS
<1>1. CASE UNCHANGED vars
  BY <1>1 DEF vars, signals, core, folds, IInv, Air, RowOK, OwnOK, FlagOK, RunOK, PeakOK, FoldOK, HeatOK, HistOK
<1>2. QED
  BY <1>1, WindowStep, PassStep, GapStep, OutsideStep DEF Next

\* The core keeps its types through windows, time, gaps, resets and fades: the
\* row is one of the table, every learned headroom within DG7_HEAT_MAX, no
\* memory longer than its time.
THEOREM TypeCorrect == Spec => []TypeOK
<1>1. IInv => TypeOK
  BY DEF IInv, TypeOK, Air, RowOK, FlagOK, RunOK, PeakOK, FoldOK, HeatOK, Bits, Held, Marks,
     Memories, Levels, Peaks, Folds, Ups, Heats, Decays
<1>2. QED
  BY <1>1, InitIInv, StepIInv, PTL DEF Spec

\* Within the attack memory the gain stays below the row that folded, whatever
\* is reset on the same receiver or refused in between, unless the carrier went
\* far below; a core that a reset lifted to Floor (gain.c:468) takes the gain
\* along, but only as far as Floor.
THEOREM NoReturn == Spec => NoQuickReturn
<1>1. IInv /\ [Next]_vars =>
        (row' > row /\ hist.leftFor > 0 /\ row' >= hist.left => Far \/ (Lifted /\ row' <= Floor))
  <2> SUFFICES ASSUME IInv, [Next]_vars, row' > row, hist.leftFor > 0, row' >= hist.left, ~Far
               PROVE Lifted /\ row' <= Floor
    OBVIOUS
  <2>1. row \in Rows /\ row \in Int /\ Rows \subseteq Int /\ row' # row /\ own \in Rows /\ Floor \in Int
    BY RowAssumption, FloorAssumption DEF IInv, RowOK
  <2>2. hist.left = folded /\ hist.leftFor = foldedFor /\ folded \in Int
    BY RowAssumption, Constants DEF IInv, HistOK, FoldOK, Marks
  <2>3. own = row \/ (row < own /\ own = Floor)
    BY DEF IInv, OwnOK
  <2>4. CASE AttackWrite
    <3> DEFINE t == Attacked(AttackDelta)
    <3>1. t \in Rows /\ t <= own
      BY <2>1, AttackedType
    <3> HIDE DEF t
    <3>2. row' = t
      BY <2>1, <2>4 DEF AttackWrite, Written, Applied, RefusedWrite, t
    <3>3. t \in Int
      BY <2>1, <3>1
    <3>4. QED
      BY <2>1, <2>3, <3>1, <3>2, <3>3 DEF Lifted
  <2>5. CASE Raise
    <3>1. row' = Target
      BY <2>1, <2>5 DEF Raise, Written, Applied, RefusedWrite
    <3>2. Target < folded /\ Target \in Int
      BY <2>1, <2>2, <2>5, TargetType DEF Raise
    <3>3. QED
      BY <2>2, <3>1, <3>2
  <2>6. CASE AttackWaits \/ Stay
    <3>1. row' = own
      BY <2>1, <2>6 DEF AttackWaits, Stay, Written, Applied, RefusedWrite
    <3>2. QED
      BY <2>1, <2>3, <3>1 DEF Lifted
  <2>7. QED
    BY <2>1, <2>4, <2>5, <2>6 DEF Next, Window, Guarded, Judged, Pass, Gap, Rebind, Retune, Fade, vars
<1>2. QED
  BY <1>1, InitIInv, StepIInv, PTL DEF Spec, NoQuickReturn

-----------------------------------------------------------------------------
(* Nulls.  A release at normal speed needs Hold calm units.  Whatever cut    *)
(* the calm short is still in the way: the settle, a peak memory that began  *)
(* since, the release pause of an attack, or the peak itself, as far back in *)
(* the memory as the calm is long.                                           *)

CalmOK == hist.calm \in Held
BudgetOK == /\ DOMAIN budget = {"fade", "refusal", "rebind", "gap"}
            /\ budget.gap \in Nat /\ budget.rebind \in Nat
DownOK == downAfter > 0 => upAfter = Hold

\* Why a release waits while fewer than Hold units were calm.
Barred ==
  \/ settling
  \/ hist.calm >= memory
  \/ hist.calm + upAfter >= Hold
  \/ hist.calm < Hold /\ peaks[hist.calm + 1] >= Release

NullOK == budget.gap = 0 /\ budget.rebind = 0 => Barred

\* Only a reset takes the core off the row in force.
EvenOK == budget.rebind = 0 => own = row

NullInv == CalmOK /\ BudgetOK /\ DownOK /\ NullOK /\ EvenOK

LEMMA Loudness ==
  ASSUME NEW T \in SUBSET Levels, T # {}
  PROVE  Highest(T) \in T /\ \A x \in T : Highest(T) >= x
<1> DEFINE U == {Loudest - x : x \in T}
<1>1. \A x \in T : x \in Int /\ Loudest - x \in Nat
  BY DEF Levels, Quietest, Loudest
<1>2. U \in SUBSET Nat /\ U # {}
  BY <1>1
<1> HIDE DEF U
<1>3. PICK u \in U : \A v \in U : ~(<<v, u>> \in OpToRel(<, Nat))
  BY <1>2, NatLessThanWellFounded, WFMin
<1>4. \A v \in U : ~(v < u)
  BY <1>2, <1>3 DEF OpToRel
<1>5. PICK y \in T : u = Loudest - y
  BY DEF U
<1>6. ASSUME NEW x \in T PROVE y >= x
  <2>1. Loudest - x \in U
    BY DEF U
  <2>2. ~(Loudest - x < Loudest - y)
    BY <1>4, <1>5, <2>1
  <2>3. x \in Int /\ y \in Int
    BY <1>1
  <2>4. QED
    BY <2>2, <2>3 DEF Loudest
<1>7. QED
  BY <1>6 DEF Highest

\* The peak is no lower than the window's level and than any peak remembered.
LEMMA PeakHolds ==
  ASSUME IInv
  PROVE  /\ Peak \in Int /\ ReleaseLevel(row) \in Int /\ Peak >= ReleaseLevel(row)
         /\ \A k \in 1 .. Hold : ~settling => peaks[k] \in Int /\ Peak >= peaks[k]
         /\ Remembered[1] \in Int /\ Remembered[1] >= ReleaseLevel(row)
         /\ \A k \in 1 .. Hold : ~settling => Remembered[k] \in Int /\ Remembered[k] >= peaks[k]
<1> DEFINE p == Remembered
           T == {p[k] : k \in 1 .. Hold}
<1>1. Air /\ RowOK /\ PeakOK
  BY DEF IInv
<1>2. p \in [1 .. Hold -> Levels] /\ ReleaseLevel(row) \in Levels /\ 1 \in 1 .. Hold
  BY <1>1, RememberedType, LevelType, Constants DEF Peaks
<1>3. Levels \subseteq Int
  BY DEF Levels, Quietest, Loudest
<1>4. Settled.peaks \in [1 .. Hold -> Levels] /\ (~settling => Settled.peaks = peaks)
  BY <1>1, Constants DEF Settled, PeakOK, Peaks
<1>5. p[1] = Max(Settled.peaks[1], ReleaseLevel(row)) /\ \A k \in 1 .. Hold : k # 1 => p[k] = Settled.peaks[k]
  BY <1>2, <1>4 DEF Remembered
<1>6. \A a, b \in Int : Max(a, b) >= a /\ Max(a, b) >= b
  BY DEF Max
<1>7. Settled.peaks[1] \in Int /\ ReleaseLevel(row) \in Int
  BY <1>2, <1>3, <1>4
<1>8. p[1] >= Settled.peaks[1] /\ p[1] >= ReleaseLevel(row)
  BY <1>5, <1>6, <1>7
<1> HIDE DEF p
<1>9. \A k \in 1 .. Hold : p[k] \in Int /\ Settled.peaks[k] \in Int /\ p[k] >= Settled.peaks[k]
  <2>1. \A k \in 1 .. Hold : p[k] \in Int /\ Settled.peaks[k] \in Int
    BY <1>2, <1>3, <1>4
  <2>2. \A k \in 1 .. Hold : k # 1 => p[k] >= Settled.peaks[k]
    BY <1>5, <2>1
  <2>3. QED
    BY <1>8, <2>1, <2>2
<1>10. T \in SUBSET Levels /\ T # {}
  BY <1>2
<1>11. \A k \in 1 .. Hold : p[k] \in T
  OBVIOUS
<1>12. Peak = Highest(T)
  BY DEF Peak, p
<1> HIDE DEF T
<1>13. Peak \in Int /\ \A k \in 1 .. Hold : Peak >= p[k]
  BY <1>3, <1>10, <1>11, <1>12, Loudness
<1>14. \A k \in 1 .. Hold : ~settling => peaks[k] \in Int /\ p[k] >= peaks[k] /\ Peak >= peaks[k]
  BY <1>4, <1>9, <1>13
<1>15. Peak >= ReleaseLevel(row)
  BY <1>2, <1>7, <1>8, <1>9, <1>13
<1>16. QED
  BY <1>2, <1>7, <1>8, <1>9, <1>13, <1>14, <1>15 DEF p

LEMMA NullInit == Init => NullInv
<1> SUFFICES ASSUME Init PROVE NullInv
  OBVIOUS
<1>1. CalmOK /\ BudgetOK /\ DownOK
  BY Constants DEF Init, CalmOK, BudgetOK, DownOK
<1>2. Barred /\ EvenOK
  BY DEF Init, Barred, Unset, EvenOK
<1>3. QED
  BY <1>1, <1>2 DEF NullInv, NullOK

\* A release at normal speed, with no gap and no reset before, had its calm.
LEMMA ReleaseEarned ==
  ASSUME IInv, NullInv, Target > own, budget.gap = 0, budget.rebind = 0
  PROVE  (Far /\ far) \/ (hist.calm >= Hold /\ ~settling)
<1> SUFFICES ASSUME ~(Far /\ far) PROVE hist.calm >= Hold /\ ~settling
  OBVIOUS
<1>1. Hold \in Nat \ {0} /\ memory \in Unset .. Hold /\ own \in Int /\ hist.calm \in 0 .. Hold
  BY Constants, RowAssumption DEF IInv, PeakOK, RowOK, Memories, NullInv, CalmOK, Held
<1>2. Ripe
  BY <1>1 DEF Target
<1>3. upAfter = 0 /\ Settled.memory >= Hold /\ Peak < Release
  BY <1>2 DEF Ripe, Need
<1>4. ~settling /\ memory = Hold
  BY <1>1, <1>3 DEF Settled, Max, Unset
<1>5. Barred
  BY DEF NullInv, NullOK
<1>6. ASSUME hist.calm < Hold PROVE ~(peaks[hist.calm + 1] >= Release)
  <2>1. hist.calm + 1 \in 1 .. Hold
    BY <1>1, <1>6
  <2>2. Peak \in Int /\ peaks[hist.calm + 1] \in Int /\ Peak >= peaks[hist.calm + 1]
    BY <1>4, <2>1, PeakHolds
  <2>3. QED
    BY <1>3, <2>2 DEF Release
<1>7. QED
  BY <1>1, <1>3, <1>4, <1>5, <1>6 DEF Barred

\* A window that lets the calm go on, or cuts it at its own level.
LEMMA CalmGoesOn ==
  ASSUME IInv, NullInv, NEW c, c = Calm,
         ~settling => (hist.calm >= memory \/ hist.calm + upAfter >= Hold
                       \/ (hist.calm < Hold /\ peaks[hist.calm + 1] >= Release))
  PROVE  /\ c \in Held
         /\ \/ c >= Settled.memory
            \/ c + upAfter >= Hold
            \/ c < Hold /\ Remembered[c + 1] >= Release
<1>1. Hold \in Nat \ {0} /\ memory \in Unset .. Hold /\ hist.calm \in 0 .. Hold /\ upAfter \in 0 .. Hold
  BY Constants DEF IInv, PeakOK, Memories, NullInv, CalmOK, Held, RunOK
<1>2. CASE ~(ReleaseLevel(row) < Release)
  <2>1. c = 0
    BY <1>2 DEF Calm
  <2>2. Remembered[1] \in Int /\ ReleaseLevel(row) \in Int /\ Remembered[1] >= ReleaseLevel(row)
    BY PeakHolds
  <2>3. Remembered[1] >= Release
    BY <1>2, <2>2 DEF Release
  <2>4. QED
    BY <1>1, <2>1, <2>3, Constants
<1>3. CASE ReleaseLevel(row) < Release
  <2>1. c = hist.calm
    BY <1>3 DEF Calm
  <2>2. CASE settling
    <3>1. Settled.memory = 0
      BY <2>2 DEF Settled
    <3>2. QED
      BY <1>1, <2>1, <3>1 DEF Held
  <2>3. CASE ~settling
    <3>1. Settled.memory = Max(memory, 0)
      BY <2>3 DEF Settled
    <3>2. hist.calm >= memory => c >= Settled.memory
      BY <1>1, <2>1, <3>1 DEF Max, Unset
    <3>3. ASSUME hist.calm < Hold, peaks[hist.calm + 1] >= Release
          PROVE  Remembered[hist.calm + 1] >= Release
      <4> DEFINE k == hist.calm + 1
      <4>1. k \in 1 .. Hold
        BY <1>1, <3>3
      <4> HIDE DEF k
      <4>2. peaks[k] \in Int /\ Remembered[k] \in Int /\ Remembered[k] >= peaks[k]
        BY <2>3, <4>1, PeakHolds
      <4>3. peaks[k] >= Release
        BY <3>3 DEF k
      <4>4. Remembered[k] >= Release
        BY <4>2, <4>3 DEF Release
      <4>5. QED
        BY <4>4 DEF k
    <3>4. QED
      BY <1>1, <2>1, <2>3, <3>2, <3>3 DEF Held
  <2>4. QED
    BY <2>2, <2>3
<1>4. QED
  BY <1>2, <1>3

LEMMA NullJudged ==
  ASSUME IInv, NullInv, Judged
  PROVE  NullInv'
<1>1. /\ Hold \in Nat \ {0} /\ memory \in Unset .. Hold /\ hist.calm \in 0 .. Hold /\ upAfter \in 0 .. Hold
      /\ downAfter \in 0 .. 1 /\ row \in Int /\ own \in Int /\ UpGap \in 0 .. Hold
      /\ DOMAIN hist = {"left", "leftFor", "calm", "up", "upFor", "refolds"}
  BY Constants, RowAssumption DEF IInv, PeakOK, Memories, NullInv, CalmOK, Held, RunOK, RowOK, HistOK
<1>2. BudgetOK /\ DownOK /\ NullOK /\ EvenOK /\ Air /\ RowOK /\ PeakOK
  BY DEF NullInv, IInv
<1>3. peaks' = Remembered /\ memory' = Settled.memory
  BY DEF Judged
<1>4. memory' \in 0 .. Hold
  BY <1>1, <1>3 DEF Settled, Max, Unset
<1>5. \A t : Written(t) => BudgetOK' /\ budget'.gap = budget.gap /\ budget'.rebind = budget.rebind /\ EvenOK'
  BY <1>2 DEF Written, Applied, RefusedWrite, BudgetOK, EvenOK
<1>6. CASE AttackWrite
  <2>1. hist'.calm = 0 /\ upAfter' = Hold /\ downAfter' = 1
    BY <1>1, <1>6 DEF AttackWrite
  <2>2. BudgetOK' /\ EvenOK'
    BY <1>5, <1>6 DEF AttackWrite
  <2>3. Barred'
    BY <1>1, <2>1 DEF Barred
  <2>4. QED
    BY <1>1, <2>1, <2>2, <2>3 DEF NullInv, CalmOK, DownOK, NullOK, Held
<1>7. CASE AttackWaits
  <2>1. hist'.calm = 0 /\ upAfter' = upAfter /\ downAfter' = downAfter /\ BudgetOK' /\ EvenOK'
    BY <1>1, <1>5, <1>7 DEF AttackWaits
  <2>2. upAfter = Hold
    BY <1>2, <1>7 DEF AttackWaits, DownOK
  <2>3. Barred'
    BY <1>1, <2>1, <2>2 DEF Barred
  <2>4. QED
    BY <1>1, <1>2, <2>1, <2>2, <2>3 DEF NullInv, CalmOK, DownOK, NullOK, Held
<1>8. CASE Stay
  <2>1. Written(own) /\ upAfter' = upAfter /\ downAfter' = downAfter
        /\ hist'.calm = IF row' = row THEN Calm ELSE 0
    BY <1>1, <1>8 DEF Stay
  <2>2. hist'.calm \in Held
    BY <1>1, <2>1 DEF Calm, Held
  <2>3. BudgetOK' /\ EvenOK' /\ budget'.gap = budget.gap /\ budget'.rebind = budget.rebind
    BY <1>5, <2>1
  <2>4. ASSUME budget.gap = 0, budget.rebind = 0 PROVE Barred'
    <3> DEFINE c == Calm
    <3>1. row' = row
      BY <1>2, <2>1, <2>4 DEF EvenOK, Written, Applied, RefusedWrite
    <3>2. hist'.calm = c
      BY <2>1, <3>1
    <3> HIDE DEF c
    <3>3. Barred
      BY <1>2, <2>4 DEF NullOK
    <3>4. c >= Settled.memory \/ c + upAfter >= Hold \/ (c < Hold /\ Remembered[c + 1] >= Release)
      BY <3>3, CalmGoesOn DEF Barred, c
    <3>5. QED
      BY <1>3, <2>1, <3>2, <3>4 DEF Barred
  <2>5. QED
    BY <1>2, <2>1, <2>2, <2>3, <2>4 DEF NullInv, CalmOK, DownOK, NullOK, Held
<1>9. CASE Raise
  <2>1. Target > own /\ Written(Target) /\ upAfter' = UpGap /\ downAfter' = downAfter
    BY <1>9 DEF Raise
  <2>2. Ripe /\ upAfter = 0
    BY <1>1, <2>1 DEF Target, Ripe
  <2>3. downAfter = 0
    BY <1>1, <1>2, <2>2 DEF DownOK
  <2>4. hist'.calm = IF row' = row THEN Calm ELSE 0
    BY <1>1, <1>9 DEF Raise
  <2>5. hist'.calm \in Held
    BY <1>1, <2>4 DEF Calm, Held
  <2>6. row' # row => settling'
    BY <2>1 DEF Written, Applied, RefusedWrite
  <2>7. ASSUME budget.gap = 0, budget.rebind = 0, row' = row PROVE Barred'
    <3> DEFINE c == Calm
    <3>1. hist'.calm = c
      BY <2>4, <2>7
    <3> HIDE DEF c
    <3>2. c \in Held
      BY <2>5, <3>1
    <3>3. Barred
      BY <1>2, <2>7 DEF NullOK
    <3>4. c >= Settled.memory \/ c + upAfter >= Hold \/ (c < Hold /\ Remembered[c + 1] >= Release)
      BY <3>3, CalmGoesOn DEF Barred, c
    <3>5. c + upAfter >= Hold => c + UpGap >= Hold
      BY <1>1, <2>2, <3>2 DEF Held
    <3>6. QED
      BY <1>3, <2>1, <3>1, <3>4, <3>5 DEF Barred
  <2>8. BudgetOK' /\ EvenOK' /\ budget'.gap = budget.gap /\ budget'.rebind = budget.rebind
    BY <1>5, <2>1
  <2>9. Barred' \/ ~(budget'.gap = 0 /\ budget'.rebind = 0)
    BY <2>6, <2>7, <2>8 DEF Barred
  <2>10. QED
    BY <1>1, <2>1, <2>3, <2>5, <2>8, <2>9 DEF NullInv, CalmOK, DownOK, NullOK, Held
<1>10. QED
  BY <1>6, <1>7, <1>8, <1>9 DEF Judged

LEMMA NullPass ==
  ASSUME IInv, NullInv, Pass
  PROVE  NullInv'
<1>1. /\ Hold \in Nat \ {0} /\ memory \in Unset .. Hold /\ hist.calm \in 0 .. Hold /\ upAfter \in 0 .. Hold
      /\ downAfter \in 0 .. 1 /\ peaks \in [1 .. Hold -> Levels]
      /\ DOMAIN hist = {"left", "leftFor", "calm", "up", "upFor", "refolds"}
  BY Constants DEF IInv, PeakOK, Peaks, Memories, NullInv, CalmOK, Held, RunOK, HistOK
<1>2. BudgetOK /\ DownOK /\ NullOK /\ EvenOK
  BY DEF NullInv
<1>3. /\ hist'.calm = More(hist.calm, Hold) /\ upAfter' = Less(upAfter) /\ downAfter' = Less(downAfter)
      /\ memory' = (IF memory = Unset THEN Unset ELSE More(memory, Hold))
      /\ peaks' = [k \in 1 .. Hold |-> IF k = 1 THEN Quietest ELSE peaks[k - 1]]
      /\ budget' = budget /\ settling' = settling /\ own' = own /\ row' = row
  BY <1>1 DEF Pass, Countdown
<1>4. hist'.calm \in Held /\ downAfter' = 0
  BY <1>1, <1>3 DEF More, Less, Max, Min, Held
<1>5. ASSUME Barred PROVE Barred'
  <2>1. CASE settling
    BY <1>3, <2>1 DEF Barred
  <2>2. CASE hist.calm >= memory
    <3>1. hist'.calm >= memory'
      BY <1>1, <1>3, <2>2 DEF More, Min, Unset
    <3>2. QED
      BY <3>1 DEF Barred
  <2>3. CASE hist.calm + upAfter >= Hold
    <3>1. hist'.calm + upAfter' >= Hold
      BY <1>1, <1>3, <2>3 DEF More, Less, Max, Min
    <3>2. QED
      BY <3>1 DEF Barred
  <2>4. CASE hist.calm < Hold /\ peaks[hist.calm + 1] >= Release
    <3>1. PICK c \in 0 .. Hold : c = hist.calm
      BY <1>1
    <3>2. c < Hold /\ hist'.calm = c + 1
      BY <1>1, <1>3, <2>4, <3>1 DEF More, Min
    <3>3. CASE c + 1 = Hold
      BY <1>1, <1>3, <3>2, <3>3 DEF Barred, Less, Max
    <3>4. CASE c + 1 < Hold
      <4>1. c + 2 \in 1 .. Hold /\ c + 2 # 1 /\ c + 2 - 1 = c + 1
        BY <1>1, <3>4
      <4>2. peaks'[c + 2] = peaks[c + 1]
        BY <1>3, <4>1
      <4>3. peaks'[c + 2] >= Release /\ c + 1 + 1 = c + 2
        BY <2>4, <3>1, <4>2
      <4>4. QED
        BY <1>1, <3>2, <3>4, <4>3 DEF Barred
    <3>5. QED
      BY <1>1, <3>2, <3>3, <3>4
  <2>5. QED
    BY <1>5, <2>1, <2>2, <2>3, <2>4 DEF Barred
<1>6. QED
  BY <1>2, <1>3, <1>4, <1>5 DEF NullInv, CalmOK, BudgetOK, DownOK, NullOK, EvenOK, Held

LEMMA NullOutside ==
  ASSUME IInv, NullInv, Guarded \/ Gap \/ Rebind \/ Retune \/ Fade \/ UNCHANGED vars
  PROVE  NullInv'
<1>1. /\ Hold \in Nat \ {0} /\ hist.calm \in 0 .. Hold
      /\ DOMAIN hist = {"left", "leftFor", "calm", "up", "upFor", "refolds"}
      /\ DOMAIN budget = {"fade", "refusal", "rebind", "gap"} /\ budget.gap \in Nat /\ budget.rebind \in Nat
  BY Constants DEF IInv, NullInv, CalmOK, Held, HistOK, BudgetOK
<1>2. DownOK /\ NullOK /\ EvenOK
  BY DEF NullInv
<1>3. CASE Guarded
  <2>1. hist'.calm = 0 /\ settling' /\ upAfter' = upAfter /\ downAfter' = downAfter /\ budget' = budget
        /\ own' = own /\ row' = row
    BY <1>1, <1>3 DEF Guarded
  <2>2. QED
    BY <1>1, <1>2, <2>1 DEF NullInv, CalmOK, BudgetOK, DownOK, NullOK, EvenOK, Barred, Held
<1>4. CASE Gap
  <2>1. hist'.calm = 0 /\ downAfter' = 0 /\ DOMAIN budget' = DOMAIN budget
        /\ budget'.gap = budget.gap + 1 /\ budget'.rebind = budget.rebind /\ own' = own /\ row' = row
    BY <1>1, <1>4 DEF Gap
  <2>2. QED
    BY <1>1, <1>2, <2>1 DEF NullInv, CalmOK, BudgetOK, DownOK, NullOK, EvenOK, Held
<1>5. CASE Rebind
  <2>1. hist' = hist /\ upAfter' = upAfter /\ downAfter' = downAfter /\ DOMAIN budget' = DOMAIN budget
        /\ budget'.gap = budget.gap /\ budget'.rebind = budget.rebind + 1
    BY <1>1, <1>5 DEF Rebind
  <2>2. QED
    BY <1>1, <1>2, <2>1 DEF NullInv, CalmOK, BudgetOK, DownOK, NullOK, EvenOK, Held
<1>6. CASE Retune
  <2>1. hist'.calm = 0 /\ downAfter' = 0 /\ DOMAIN budget' = DOMAIN budget
        /\ budget'.gap = budget.gap /\ budget'.rebind = budget.rebind + 1
    BY <1>1, <1>6 DEF Retune
  <2>2. QED
    BY <1>1, <2>1 DEF NullInv, CalmOK, BudgetOK, DownOK, NullOK, EvenOK, Held
<1>7. CASE Fade \/ UNCHANGED vars
  <2>1. /\ hist' = hist /\ upAfter' = upAfter /\ downAfter' = downAfter /\ DOMAIN budget' = DOMAIN budget
        /\ settling' = settling /\ memory' = memory /\ peaks' = peaks
        /\ budget'.gap = budget.gap /\ budget'.rebind = budget.rebind /\ own' = own /\ row' = row
    BY <1>1, <1>7 DEF Fade, vars, core, folds
  <2>2. QED
    BY <1>1, <1>2, <2>1 DEF NullInv, CalmOK, BudgetOK, DownOK, NullOK, EvenOK, Barred, Held
<1>8. QED
  BY <1>3, <1>4, <1>5, <1>6, <1>7

LEMMA NullStep == IInv /\ NullInv /\ [Next]_vars => NullInv'
<1> SUFFICES ASSUME IInv, NullInv, [Next]_vars PROVE NullInv'
  OBVIOUS
<1> QED
  BY NullJudged, NullPass, NullOutside DEF Next, Window

\* A multipath null never raises the gain: without a gap in the windows and a
\* reset, a release at this row has seen the peaks below the release level for
\* the whole peak memory, refused writes, attacks and fades included
\* (gain.c:723-725).
THEOREM NullsStayDown == Spec => NullsDoNotRaise
<1>1. IInv /\ NullInv /\ [Next]_vars => (row' > row /\ budget.gap = 0 /\ budget.rebind = 0 => Earned)
  <2> SUFFICES ASSUME IInv, NullInv, [Next]_vars, row' > row, budget.gap = 0, budget.rebind = 0
               PROVE Earned
    OBVIOUS
  <2>1. row \in Rows /\ row \in Int /\ Rows \subseteq Int /\ row' # row /\ own = row
    BY RowAssumption DEF IInv, RowOK, NullInv, EvenOK
  <2>2. CASE AttackWrite
    <3> DEFINE t == Attacked(AttackDelta)
    <3>1. t \in Rows /\ t <= row
      BY <2>1, AttackedType
    <3> HIDE DEF t
    <3>2. row' = row \/ row' = t
      BY <2>2 DEF AttackWrite, Written, Applied, RefusedWrite, t
    <3>3. t \in Int
      BY <2>1, <3>1
    <3>4. QED
      BY <2>1, <3>1, <3>2, <3>3
  <2>3. CASE Raise
    <3>1. Target > own
      BY <2>3 DEF Raise
    <3>2. QED
      BY <3>1, ReleaseEarned DEF Earned
  <2>4. QED
    BY <2>1, <2>2, <2>3 DEF Next, Window, Guarded, Judged, AttackWaits, Stay, Written, Applied, RefusedWrite,
       Pass, Gap, Rebind, Retune, Fade, vars
<1>2. QED
  BY <1>1, InitIInv, StepIInv, NullInit, NullStep, PTL DEF Spec, NullsDoNotRaise

-----------------------------------------------------------------------------
(* Headroom.  A release into the top row that folds is learned; as wrong as  *)
(* Believable lets the table be, none folds that was believed with a learned *)
(* step.  What upset the release meanwhile has been counted.                 *)

Upset == budget.fade + budget.refusal + budget.rebind
Warm == IF heat[Top] >= HeatStep THEN 1 ELSE 0

\* If the row released into last folds, then it is the top row, and the fold
\* is learned from cold.
Expected ==
  hist.upFor > 0 /\ hist.up \in Rows =>
    /\ released = hist.up /\ releasedFor = hist.upFor
    /\ Clips(hist.up) => hist.up = Top /\ heat[Top] < HeatStep

\* A release that was not expected, or one judged from a row that is not in force.
Surprise == IF Expected /\ own = row THEN 0 ELSE 1

CountsOK ==
  /\ DOMAIN budget = {"fade", "refusal", "rebind", "gap"}
  /\ budget.fade \in Nat /\ budget.refusal \in Nat /\ budget.rebind \in Nat
  /\ hist.refolds \in Nat /\ hist.upFor \in Ups

HeadInv ==
  /\ CountsOK
  /\ hist.refolds + Surprise <= Upset + Warm
  /\ Surprise <= Upset

\* The top row is the highest.
LEMMA TopIs == Top \in Rows /\ \A r \in Rows : Top >= r
<1>1. Rows \in SUBSET Rows /\ Rows # {}
  BY RowAssumption
<1>2. QED
  BY <1>1, Extremes DEF Top

\* Where a release aims: up from the row, into a row that fits with its learned
\* headroom, or below one that does and below the row that folded.
LEMMA Aimed ==
  ASSUME IInv, Target > own
  PROVE  /\ Target \in Rows
         /\ Ripe
         /\ \E u \in Rows :
              /\ Model[u] + heat[u] <= Model[own] + StepUp + Slack /\ own <= u
              /\ Target = u \/ (Target <= u /\ Target # Top)
<1>1. own \in Rows /\ own \in Int /\ Rows \subseteq Int /\ Home \subseteq Rows
  BY RowAssumption DEF IInv, RowOK
<1>2. Target \in Rows
  BY <1>1, TargetType
<1>3. Ripe
  BY <1>1 DEF Target
<1> DEFINE C == {own} \cup {r \in Home : r > own /\ Model[r] + heat[r] <= Model[own] + StepUp + Slack}
           S == {own} \cup {r \in Home : own < r /\ r < folded}
           u == Highest(C)
<1>4. u \in C /\ u \in Rows
  <2>1. C \in SUBSET Rows /\ C # {}
    BY <1>1
  <2> HIDE DEF C
  <2>2. QED
    BY <2>1, Extremes
<1>5. u = own \/ (own < u /\ Model[u] + heat[u] <= Model[own] + StepUp + Slack)
  BY <1>1, <1>4
<1>6. Highest(S) = own \/ (Highest(S) < folded /\ Highest(S) \in Rows)
  <2>1. S \in SUBSET Rows /\ S # {}
    BY <1>1
  <2>2. \A x \in S : x = own \/ x < folded
    OBVIOUS
  <2> HIDE DEF S
  <2>3. QED
    BY <2>1, <2>2, Extremes
<1>7. Target = Unfolded(u, Far)
  BY <1>3 DEF Target, Upward, u, C
<1> HIDE DEF u, S, C
<1>8. Target = u \/ (Target = Highest(S) /\ u >= folded)
  BY <1>7 DEF Unfolded, S
<1>9. CASE Target = u
  BY <1>1, <1>2, <1>3, <1>4, <1>5, <1>9
<1>10. CASE Target = Highest(S) /\ u >= folded
  <2>1. Target < folded /\ folded \in Int
    BY <1>1, <1>6, <1>10, Constants DEF IInv, FoldOK, Marks
  <2>2. Target < u /\ own < u /\ Target \in Int /\ u \in Int /\ Top \in Int /\ Top >= u
    BY <1>1, <1>2, <1>4, <1>10, <2>1, TopIs
  <2>3. Target # Top /\ Target <= u /\ own <= u
    BY <1>1, <2>2
  <2>4. QED
    BY <1>1, <1>2, <1>3, <1>4, <1>5, <2>2, <2>3
<1>11. QED
  BY <1>8, <1>9, <1>10

\* A release folds only in the top row, believed without a learned step.
LEMMA ReleasedFits ==
  ASSUME IInv, Believable, own = row, Target > own, Clips(Target)
  PROVE  Target = Top /\ heat[Top] < HeatStep
<1> DEFINE t == Target
<1>1. t \in Rows /\ row \in Rows /\ row \in Int /\ Rows \subseteq Int /\ row <= t
  <2>1. t \in Rows /\ row \in Rows /\ Rows \subseteq Int
    BY Aimed, RowAssumption DEF IInv, RowOK
  <2>2. row <= t
    <3>1. t > row /\ t \in Int /\ row \in Int
      BY <2>1
    <3> HIDE DEF t
    <3>2. QED
      BY <3>1
  <2>3. QED
    BY <2>1, <2>2
<1>2. Peak \in Int /\ Peak < Release /\ ReleaseLevel(row) \in Int /\ Peak >= ReleaseLevel(row)
  BY Aimed, PeakHolds DEF Ripe
<1>3. PICK u \in Rows : /\ Model[u] + heat[u] <= Model[row] + StepUp + Slack /\ row <= u
                        /\ t = u \/ (t <= u /\ t # Top)
  BY Aimed
<1>4. /\ signal \in Int /\ Noise \in Int /\ FoldAt \in Int /\ Quietest < FoldAt
      /\ real \in Tables /\ \A r \in Rows : real[r] \in Int /\ Model[r] \in Int /\ heat[r] \in 0 .. HeatMax
  BY LevelAssumption DEF IInv, Air, HeatOK, Heats, Believable
<1>5. ~NoCarrier
  <2>1. SUFFICES ASSUME NoCarrier PROVE FALSE
    OBVIOUS
  <2>2. Level(t) = Max(Quietest, Min(Loudest, Noise + real[t]))
    BY <1>4, <2>1 DEF Level, Max, NoCarrier
  <2>3. Noise + real[t] < FoldAt
    BY <1>1, <1>4 DEF Believable
  <2>4. Level(t) < FoldAt
    BY <1>1, <1>4, <2>2, <2>3 DEF Max, Min, Quietest, Loudest
  <2>5. Level(t) >= FoldAt
    BY DEF Clips
  <2>6. QED
    BY <1>1, <1>4, <2>2, <2>4, <2>5 DEF Max, Min, Quietest, Loudest
<1>6. /\ Level(t) = Max(Quietest, Min(Loudest, signal + real[t]))
      /\ ReleaseLevel(row) = Max(Quietest, Min(Loudest, signal + real[row]))
  BY <1>4, <1>5 DEF ReleaseLevel, PeakOf, Level, Max, NoCarrier
<1>7. signal + real[row] <= Peak
  BY <1>1, <1>2, <1>4, <1>6 DEF Max, Min, Quietest, Loudest, Release
<1>8. signal + real[t] >= FoldAt
  BY <1>1, <1>4, <1>6 DEF Clips, Max, Min, Quietest, Loudest
<1>9. StepUp \in Int /\ Peak + StepUp <= 0
  BY <1>2 DEF StepUp, Release
<1>10. /\ real[t] - real[row] <= Model[t] - Model[row] + Error(t)
       /\ Model[t] <= Model[u] /\ Error(t) \in Int
  BY <1>1, <1>3, <1>4 DEF Believable, Error, Slack, HeatStep
<1> HIDE DEF t
<1>11. FoldAt <= 1 - heat[u] + Error(t)
  <2>1. heat[u] \in Int /\ Model[u] \in Int /\ Model[t] \in Int /\ Model[row] \in Int
        /\ real[t] \in Int /\ real[row] \in Int
    BY <1>1, <1>4
  <2>2. QED
    BY <1>2, <1>3, <1>4, <1>7, <1>8, <1>9, <1>10, <2>1 DEF Slack
<1>12. t = Top
  BY <1>4, <1>11 DEF Error, Slack, HeatMax
<1>13. u = Top
  BY <1>3, <1>12
<1>14. heat[Top] < HeatStep
  BY <1>4, <1>11, <1>12, <1>13 DEF Error, Slack, HeatStep, HeatMax
<1>15. QED
  BY <1>12, <1>14 DEF t

\* Nothing has folded yet.
LEMMA HeadInit == Init => HeadInv
  BY Constants DEF Init, HeadInv, CountsOK, Upset, Warm, Surprise, Expected, Cold, TopIs, HeatStep

\* A step that counts a fade, a refusal or a reset pays for a surprise.
LEMMA Paid ==
  ASSUME IInv, HeadInv, CountsOK', Upset' = Upset + 1, hist'.refolds = hist.refolds, heat' = heat
  PROVE  HeadInv'
<1>1. Upset \in Nat /\ Warm \in 0 .. 1 /\ Surprise \in 0 .. 1 /\ Surprise' \in 0 .. 1 /\ hist.refolds \in Nat
  BY DEF HeadInv, CountsOK, Upset, Warm, Surprise
<1>2. Warm' = Warm
  BY DEF Warm
<1>3. QED
  BY <1>1, <1>2 DEF HeadInv

\* A step that changes neither count keeps what was expected of the release.
LEMMA Unmoved ==
  ASSUME IInv, HeadInv, CountsOK', Upset' = Upset, hist'.refolds = hist.refolds, heat' = heat,
         Expected /\ own = row => Expected' /\ own' = row'
  PROVE  HeadInv'
<1>1. Upset \in Nat /\ Warm \in 0 .. 1 /\ hist.refolds \in Nat
  BY DEF HeadInv, CountsOK, Upset, Warm
<1>2. Warm' = Warm /\ Surprise \in 0 .. 1 /\ Surprise' \in 0 .. 1 /\ Surprise' <= Surprise
  BY DEF Warm, Surprise
<1>3. QED
  BY <1>1, <1>2 DEF HeadInv

\* An attack: if it undoes a release, the fold is learned or was paid for.
LEMMA HeadAttack ==
  ASSUME IInv, HeadInv, Judged, AttackWrite
  PROVE  HeadInv'
<1>1. /\ DOMAIN hist = {"left", "leftFor", "calm", "up", "upFor", "refolds"} /\ CountsOK
      /\ row \in Rows /\ own \in Rows /\ Top \in Rows /\ heat \in [Rows -> 0 .. HeatMax]
  BY TopIs DEF IInv, RowOK, HistOK, HeadInv, HeatOK, Heats
<1>2. /\ hist'.up = NoRow /\ hist'.upFor = 0 /\ heat' = Heated
      /\ hist'.refolds = hist.refolds + (IF hist.up = row /\ hist.upFor > 0 THEN 1 ELSE 0)
  BY <1>1 DEF AttackWrite
<1>3. CountsOK' /\ Upset' >= Upset /\ Upset \in Nat /\ Upset' \in Nat
  <2>1. \/ budget' = budget
        \/ budget' = [budget EXCEPT !.refusal = @ + 1]
    BY DEF AttackWrite, Written, Applied, RefusedWrite
  <2>2. hist'.refolds \in Nat /\ hist'.upFor \in Ups
    BY <1>1, <1>2, Constants DEF CountsOK
  <2>3. CASE budget' = budget
    BY <1>1, <2>2, <2>3 DEF CountsOK, Upset
  <2>4. CASE budget' = [budget EXCEPT !.refusal = @ + 1]
    BY <1>1, <2>2, <2>4 DEF CountsOK, Upset
  <2>5. QED
    BY <2>1, <2>3, <2>4
<1>4. Surprise' = 0
  BY <1>2 DEF Surprise, Expected, AttackWrite, Written, Applied, RefusedWrite
<1>5. Warm \in 0 .. 1 /\ Warm' \in 0 .. 1 /\ Surprise \in 0 .. 1
  BY DEF Warm, Surprise
<1>6. heat'[Top] >= heat[Top] /\ heat'[Top] \in Int /\ heat[Top] \in 0 .. HeatMax
  BY <1>1, <1>2 DEF Heated, Min, HeatStep, HeatMax
<1>7. Warm' >= Warm
  BY <1>6 DEF Warm, HeatStep
<1>8. CASE ~(hist.up = row /\ hist.upFor > 0)
  BY <1>1, <1>2, <1>3, <1>4, <1>5, <1>7, <1>8 DEF HeadInv, CountsOK
<1>9. CASE hist.up = row /\ hist.upFor > 0 /\ ~(Expected /\ own = row)
  <2>1. Surprise = 1
    BY <1>9 DEF Surprise
  <2>2. QED
    BY <1>1, <1>2, <1>3, <1>4, <1>5, <1>7, <1>9, <2>1 DEF HeadInv, CountsOK
<1>10. CASE hist.up = row /\ hist.upFor > 0 /\ Expected /\ own = row
  <2>1. Clips(row)
    <3>1. Level(row) \in Int /\ FoldAt \in Int /\ SatAt \in Int /\ FoldAt <= SatAt
      BY LevelType, LevelAssumption DEF IInv, Levels
    <3>2. QED
      BY <3>1 DEF AttackWrite, Attacks, Overload, Fold, Saturated, Clips
  <2>2. released = row /\ releasedFor > 0 /\ row = Top /\ heat[Top] < HeatStep
    BY <1>1, <1>10, <2>1 DEF Expected
  <2>3. heat'[Top] = Min(heat[Top] + HeatStep, HeatMax)
    BY <1>1, <1>2, <1>10, <2>2 DEF Heated
  <2>4. Warm = 0 /\ Warm' = 1
    BY <1>6, <2>2, <2>3 DEF Warm, Min, HeatStep, HeatMax
  <2>5. QED
    BY <1>1, <1>2, <1>3, <1>4, <1>5, <1>10, <2>4 DEF HeadInv, CountsOK
<1>11. QED
  BY <1>8, <1>9, <1>10

\* A release is expected to hold, or to fold in the cold top row.  A refused one
\* may overwrite what was noted of the last.
LEMMA HeadRaise ==
  ASSUME IInv, HeadInv, Believable, Judged, Raise
  PROVE  HeadInv'
<1>1. /\ DOMAIN hist = {"left", "leftFor", "calm", "up", "upFor", "refolds"} /\ CountsOK
      /\ row \in Int /\ own \in Int /\ row <= own /\ Target \in Rows /\ Target \in Int /\ Target > own
  <2>1. row \in Int /\ own \in Int /\ row <= own /\ Target \in Rows /\ Target > own
    BY Aimed, RowAssumption DEF IInv, RowOK, OwnOK, Raise
  <2>2. QED
    BY <2>1, RowAssumption DEF IInv, HistOK, HeadInv
<1>2. heat' = heat /\ released' = Target /\ releasedFor' = HeatWindow /\ signal' = signal /\ real' = real
  BY DEF Raise, Judged, Same, signals
<1>3. hist'.refolds = hist.refolds
  BY <1>1 DEF Raise
<1>4. CASE Applied(Target)
  <2>1. row' = Target /\ own' = Target /\ row' # row /\ budget' = budget
    BY <1>1, <1>4 DEF Applied
  <2>2. hist'.up = Target /\ hist'.upFor = HeatWindow
    BY <1>1, <2>1 DEF Raise
  <2>3. ASSUME own = row PROVE Expected'
    <3> DEFINE t == Target
    <3>1. hist'.up = t /\ hist'.upFor = HeatWindow /\ released' = t /\ releasedFor' = HeatWindow
      BY <1>2, <2>2
    <3>2. Clips(t) => t = Top /\ heat[Top] < HeatStep
      BY <1>1, <2>3, ReleasedFits
    <3> HIDE DEF t
    <3>3. Clips(hist.up)' => Clips(t)
      BY <1>2, <3>1 DEF Clips, Level, Max, Min
    <3>4. QED
      BY <1>2, <3>1, <3>2, <3>3 DEF Expected, Top
  <2>4. CountsOK' /\ Upset' = Upset
    BY <1>1, <1>3, <2>1, <2>2, Constants DEF CountsOK, Upset
  <2>5. QED
    BY <1>2, <1>3, <2>1, <2>3, <2>4, Unmoved
<1>5. CASE RefusedWrite(Target)
  <2>1. row' = row /\ budget' = [budget EXCEPT !.refusal = @ + 1]
    BY <1>5 DEF RefusedWrite
  <2>2. hist'.upFor = hist.upFor
    BY <1>1, <2>1 DEF Raise
  <2>3. CountsOK' /\ Upset' = Upset + 1
    BY <1>1, <1>3, <2>1, <2>2 DEF CountsOK, Upset
  <2>4. QED
    BY <1>2, <1>3, <2>3, Paid
<1>6. QED
  BY <1>4, <1>5 DEF Raise, Written

\* The other windows leave release and headroom alone.
LEMMA HeadWindow ==
  ASSUME IInv, HeadInv, Believable, Window
  PROVE  HeadInv'
<1>1. /\ DOMAIN hist = {"left", "leftFor", "calm", "up", "upFor", "refolds"} /\ CountsOK
  BY DEF IInv, HistOK, HeadInv
<1>2. CASE Guarded \/ (Judged /\ (AttackWaits \/ Stay))
  <2>1. \E c : hist' = [hist EXCEPT !.calm = c]
    BY <1>2 DEF Guarded, AttackWaits, Stay
  <2>2. hist'.up = hist.up /\ hist'.upFor = hist.upFor /\ hist'.refolds = hist.refolds
    BY <1>1, <2>1
  <2>3. UNCHANGED <<signal, real, heat, released, releasedFor>>
    BY <1>2 DEF Guarded, Judged, AttackWaits, Stay, Same, signals
  <2>4. Expected => Expected'
    BY <2>2, <2>3 DEF Expected, Clips, Level, Max, Min, Top
  <2>5. \/ UNCHANGED <<row, own, budget>>
        \/ row' = own' /\ budget' = budget
        \/ budget' = [budget EXCEPT !.refusal = @ + 1]
    BY <1>2 DEF Guarded, AttackWaits, Stay, Written, Applied, RefusedWrite
  <2>6. CASE budget' = budget
    <3>1. CountsOK' /\ Upset' = Upset
      BY <1>1, <2>2, <2>6 DEF CountsOK, Upset
    <3>2. own = row => own' = row'
      BY <1>2 DEF Guarded, AttackWaits, Stay, Written, Applied, RefusedWrite
    <3>3. QED
      BY <2>2, <2>3, <2>4, <3>1, <3>2, Unmoved
  <2>7. CASE budget' = [budget EXCEPT !.refusal = @ + 1]
    <3>1. CountsOK' /\ Upset' = Upset + 1
      BY <1>1, <2>2, <2>7 DEF CountsOK, Upset
    <3>2. QED
      BY <2>2, <2>3, <3>1, Paid
  <2>8. QED
    BY <2>5, <2>6, <2>7
<1>3. QED
  BY <1>2, HeadAttack, HeadRaise DEF Window, Judged

\* Time runs for the code's note of the release as for the history; the decay
\* that makes the top row cold again starts a new count.
LEMMA HeadPass ==
  ASSUME IInv, HeadInv, Pass
  PROVE  HeadInv'
<1>1. /\ DOMAIN hist = {"left", "leftFor", "calm", "up", "upFor", "refolds"} /\ CountsOK
      /\ Top \in Rows /\ heat \in [Rows -> 0 .. HeatMax] /\ HeatOK
  BY TopIs DEF IInv, HistOK, HeadInv, HeatOK, Heats
<1>2. /\ hist'.up = hist.up /\ hist'.upFor = Less(hist.upFor)
      /\ hist'.refolds = (IF heatIn = 1 THEN 0 ELSE hist.refolds)
      /\ released' = released /\ releasedFor' = Less(releasedFor)
      /\ heat' = Cooled /\ signal' = signal /\ real' = real /\ budget' = budget
  BY <1>1 DEF Pass, Countdown, signals
<1>3. hist.upFor \in Ups /\ hist'.upFor \in Ups /\ (hist'.upFor > 0 => hist.upFor > 0)
  BY <1>1, <1>2, Constants DEF CountsOK, Ups, Less, Max
<1>4. CountsOK' /\ Upset' = Upset /\ Upset \in Nat
  BY <1>1, <1>2, <1>3 DEF CountsOK, Upset
<1>5. heat'[Top] \in Int /\ heat'[Top] <= heat[Top] /\ heat[Top] \in Int
  BY <1>1, <1>2 DEF Cooled, Max, HeatLoss, HeatMax
<1>6. Expected => Expected'
  <2>1. SUFFICES ASSUME Expected, hist'.upFor > 0, hist'.up \in Rows
                 PROVE  /\ released' = hist'.up /\ releasedFor' = hist'.upFor
                        /\ Clips(hist.up)' => hist'.up = Top /\ heat'[Top] < HeatStep
    BY DEF Expected, Top
  <2>2. released = hist.up /\ releasedFor = hist.upFor /\ (Clips(hist.up) => hist.up = Top /\ heat[Top] < HeatStep)
    BY <1>2, <1>3, <2>1 DEF Expected
  <2>3. Clips(hist.up)' => Clips(hist.up)
    BY <1>2 DEF Clips, Level, Max, Min
  <2>4. QED
    BY <1>2, <1>5, <2>2, <2>3 DEF HeatStep
<1>7. Surprise \in 0 .. 1 /\ Surprise' \in 0 .. 1 /\ Surprise' <= Surprise
  BY <1>6 DEF Surprise, Pass
<1>8. CASE heatIn = 1
  <2>1. Warm' \in 0 .. 1
    BY DEF Warm
  <2>2. QED
    BY <1>2, <1>4, <1>7, <1>8, <2>1 DEF HeadInv
<1>9. CASE heatIn # 1
  BY <1>2, <1>4, <1>6, <1>9, Unmoved DEF Cooled, Pass
<1>10. QED
  BY <1>8, <1>9

\* Gaps run the same clocks, what upsets the loop is counted, a retune forgets.
LEMMA HeadOutside ==
  ASSUME IInv, HeadInv, Gap \/ Rebind \/ Retune \/ Fade
  PROVE  HeadInv'
<1>1. /\ DOMAIN hist = {"left", "leftFor", "calm", "up", "upFor", "refolds"} /\ CountsOK
      /\ Hold \in Nat /\ HeatWindow \in Nat
  BY Constants DEF IInv, HistOK, HeadInv
<1>2. CASE Gap
  <2>1. /\ hist'.up = hist.up /\ hist'.upFor = Max(hist.upFor - Hold - 1, 0) /\ hist'.refolds = hist.refolds
        /\ releasedFor' = Max(releasedFor - Hold - 1, 0)
        /\ UNCHANGED <<signal, real, heat, released, row, own>>
    BY <1>1, <1>2 DEF Gap, signals
  <2>2. budget' = [budget EXCEPT !.gap = @ + 1]
    BY <1>2 DEF Gap
  <2>3. hist.upFor \in Ups /\ hist'.upFor \in Ups /\ (hist'.upFor > 0 => hist.upFor > 0)
    BY <1>1, <2>1 DEF CountsOK, Ups, Max
  <2>4. CountsOK' /\ Upset' = Upset
    BY <1>1, <2>1, <2>2, <2>3 DEF CountsOK, Upset
  <2>5. Expected => Expected'
    BY <2>1, <2>3 DEF Expected, Clips, Level, Max, Min, Top
  <2>6. QED
    BY <2>1, <2>4, <2>5, Unmoved
<1>3. CASE Rebind
  <2>1. hist' = hist /\ heat' = heat /\ budget' = [budget EXCEPT !.rebind = @ + 1]
    BY <1>3 DEF Rebind
  <2>2. CountsOK' /\ Upset' = Upset + 1
    BY <1>1, <2>1 DEF CountsOK, Upset
  <2>3. QED
    BY <2>1, <2>2, Paid
<1>4. CASE Retune
  <2>1. hist'.upFor = 0 /\ hist'.refolds = 0 /\ budget' = [budget EXCEPT !.rebind = @ + 1]
    BY <1>1, <1>4 DEF Retune
  <2>2. CountsOK' /\ Upset' \in Nat /\ Upset' >= 1
    BY <1>1, <2>1, Constants DEF CountsOK, Upset
  <2>3. Surprise' \in 0 .. 1 /\ Warm' \in 0 .. 1
    BY DEF Surprise, Warm
  <2>4. QED
    BY <2>1, <2>2, <2>3 DEF HeadInv
<1>5. CASE Fade
  <2>1. hist' = hist /\ heat' = heat /\ budget' = [budget EXCEPT !.fade = @ + 1]
    BY <1>5 DEF Fade, folds
  <2>2. CountsOK' /\ Upset' = Upset + 1
    BY <1>1, <2>1 DEF CountsOK, Upset
  <2>3. QED
    BY <2>1, <2>2, Paid
<1>6. QED
  BY <1>2, <1>3, <1>4, <1>5

\* With a table no wronger than one learned step covers, a carrier folds at
\* most once in a decay by the gain's own doing; each fade, refused write or
\* reset can add one.
THEOREM FoldsRare ==
  ASSUME Believable
  PROVE  Spec => []RareFolds
<1>1. IInv /\ HeadInv /\ [Next]_vars => HeadInv'
  <2> SUFFICES ASSUME IInv, HeadInv, [Next]_vars PROVE HeadInv'
    OBVIOUS
  <2>1. CASE UNCHANGED vars
    BY <2>1 DEF vars, signals, folds, HeadInv, CountsOK, Upset, Warm, Surprise, Expected, Clips, Level, Max, Min, Top
  <2>2. QED
    BY <2>1, HeadWindow, HeadPass, HeadOutside DEF Next
<1>2. HeadInv => RareFolds
  <2> SUFFICES ASSUME HeadInv PROVE RareFolds
    OBVIOUS
  <2>1. Upset \in Nat /\ Warm \in 0 .. 1 /\ Surprise \in 0 .. 1 /\ hist.refolds \in Nat
    BY DEF HeadInv, CountsOK, Upset, Warm, Surprise
  <2>2. hist.refolds <= 1 + Upset
    BY <2>1 DEF HeadInv
  <2>3. Upset = budget.fade + budget.refusal + budget.rebind
    BY DEF Upset
  <2>4. budget.fade \in Nat /\ budget.refusal \in Nat /\ budget.rebind \in Nat
    BY DEF HeadInv, CountsOK
  <2>5. QED
    BY <2>1, <2>2, <2>3, <2>4 DEF RareFolds
<1>3. QED
  BY <1>1, <1>2, HeadInit, InitIInv, StepIInv, PTL DEF Spec

-----------------------------------------------------------------------------
(* The automatic frequency control.  First the median of a sequence.         *)

LEMMA Least ==
  ASSUME NEW S \in SUBSET Nat, S # {}
  PROVE  \E m \in S : \A x \in S : m <= x
<1>1. PICK m \in S : \A x \in S : <<x, m>> \notin OpToRel(<, Nat)
  BY NatLessThanWellFounded, WFMin
<1>2. \A x \in S : ~(x < m)
  BY <1>1 DEF OpToRel
<1>3. QED
  BY <1>2

LEMMA UpTo ==
  ASSUME NEW n \in Nat
  PROVE  IsFiniteSet(1 .. n) /\ Cardinality(1 .. n) = n
<1>1. 1 \in Int /\ n \in Int
  OBVIOUS
<1>2. Cardinality(1 .. n) = IF 1 > n THEN 0 ELSE n - 1 + 1
  BY <1>1, FS_Interval
<1>3. IsFiniteSet(1 .. n)
  BY <1>1, FS_Interval
<1>4. QED
  BY <1>2, <1>3

LEMMA AfcCounted ==
  ASSUME NEW n \in Nat, NEW S \in SUBSET (1 .. n)
  PROVE  /\ IsFiniteSet(S) /\ Cardinality(S) \in Nat /\ Cardinality(S) <= n
         /\ \A T \in SUBSET S : /\ IsFiniteSet(T) /\ Cardinality(T) \in Nat
                                /\ Cardinality(T) <= Cardinality(S)
                                /\ T # S => Cardinality(T) < Cardinality(S)
<1>1. IsFiniteSet(1 .. n) /\ Cardinality(1 .. n) = n
  BY UpTo
<1>2. IsFiniteSet(S) /\ Cardinality(S) \in Nat /\ Cardinality(S) <= n
  BY <1>1, FS_Subset, FS_CardinalityType
<1>3. ASSUME NEW T \in SUBSET S
      PROVE  /\ IsFiniteSet(T) /\ Cardinality(T) \in Nat /\ Cardinality(T) <= Cardinality(S)
             /\ T # S => Cardinality(T) < Cardinality(S)
  <2>1. IsFiniteSet(T) /\ Cardinality(T) <= Cardinality(S) /\ (Cardinality(S) = Cardinality(T) => S = T)
    BY <1>2, FS_Subset
  <2>2. Cardinality(T) \in Nat
    BY <2>1, FS_CardinalityType
  <2>3. QED
    BY <1>2, <2>1, <2>2
<1>4. QED
  BY <1>2, <1>3

\* Where a sequence of integers is smallest among some places.
LEMMA Smallest ==
  ASSUME NEW s \in Seq(Int), NEW I \in SUBSET DOMAIN s, I # {}
  PROVE  \E i \in I : \A j \in I : s[i] <= s[j]
<1> DEFINE Under(i) == {l \in I : s[l] < s[i]}
           Counts == {Cardinality(Under(i)) : i \in I}
<1>1. DOMAIN s = 1 .. Len(s) /\ Len(s) \in Nat /\ \A i \in DOMAIN s : s[i] \in Int
  BY LenProperties, ElementOfSeq
<1>2. \A i \in I : Under(i) \in SUBSET (1 .. Len(s)) /\ Cardinality(Under(i)) \in Nat
  BY <1>1, AfcCounted
<1>3. Counts \in SUBSET Nat /\ Counts # {}
  BY <1>2
<1>4. PICK c \in Counts : \A x \in Counts : c <= x
  BY <1>3, Least
<1>5. PICK i \in I : c = Cardinality(Under(i))
  BY <1>4
<1>6. ASSUME NEW j \in I, s[j] < s[i] PROVE FALSE
  <2>1. Under(j) \in SUBSET Under(i) /\ j \in Under(i) /\ j \notin Under(j)
    BY <1>1, <1>6
  <2>2. Cardinality(Under(j)) < Cardinality(Under(i))
    BY <1>1, <1>2, <2>1, AfcCounted
  <2>3. Cardinality(Under(j)) \in Counts
    OBVIOUS
  <2>4. Cardinality(Under(i)) <= Cardinality(Under(j))
    BY <1>4, <1>5, <2>3
  <2>5. Cardinality(Under(i)) \in Nat /\ Cardinality(Under(j)) \in Nat
    BY <1>2
  <2> HIDE DEF Under
  <2>6. QED
    BY <2>2, <2>4, <2>5
<1>7. QED
  BY <1>1, <1>6

LEMMA Largest ==
  ASSUME NEW s \in Seq(Int), NEW I \in SUBSET DOMAIN s, I # {}
  PROVE  \E i \in I : \A j \in I : s[j] <= s[i]
<1> DEFINE t == [i \in 1 .. Len(s) |-> -s[i]]
<1>1. DOMAIN s = 1 .. Len(s) /\ Len(s) \in Nat /\ \A i \in DOMAIN s : s[i] \in Int
  BY LenProperties, ElementOfSeq
<1>2. t \in Seq(Int) /\ DOMAIN t = DOMAIN s /\ \A i \in DOMAIN s : t[i] = -s[i]
  BY <1>1, IsASeq
<1> HIDE DEF t
<1>3. PICK i \in I : \A j \in I : t[i] <= t[j]
  BY <1>2, Smallest
<1>4. QED
  BY <1>1, <1>2, <1>3

Below(s, v)  == {i \in DOMAIN s : s[i] < v}
AtMost(s, v) == {i \in DOMAIN s : s[i] <= v}
RankIs(s, k, v) == Cardinality(Below(s, v)) < k /\ Cardinality(AtMost(s, v)) >= k

\* Every rank is taken by an element.
LEMMA RankedIs ==
  ASSUME NEW s \in Seq(Int), NEW k \in 1 .. Len(s)
  PROVE  Ranked(s, k) \in Int /\ RankIs(s, k, Ranked(s, k))
<1>1. DOMAIN s = 1 .. Len(s) /\ Len(s) \in Nat /\ \A i \in DOMAIN s : s[i] \in Int
  BY LenProperties, ElementOfSeq
<1> DEFINE Up == {i \in DOMAIN s : Cardinality(AtMost(s, s[i])) >= k}
<1>2. Up # {}
  <2>1. DOMAIN s # {}
    BY <1>1
  <2>2. PICK i \in DOMAIN s : \A j \in DOMAIN s : s[j] <= s[i]
    BY <2>1, Largest
  <2>3. AtMost(s, s[i]) = 1 .. Len(s)
    BY <1>1, <2>2 DEF AtMost
  <2>4. Cardinality(1 .. Len(s)) = Len(s)
    BY <1>1, UpTo
  <2>5. QED
    BY <2>2, <2>3, <2>4
<1>3. PICK i \in Up : \A j \in Up : s[i] <= s[j]
  BY <1>2, Smallest
<1>4. Below(s, s[i]) \in SUBSET (1 .. Len(s)) /\ Cardinality(Below(s, s[i])) \in Nat
  BY <1>1, AfcCounted DEF Below
<1>5. Cardinality(Below(s, s[i])) < k
  <2> SUFFICES ASSUME Cardinality(Below(s, s[i])) >= k PROVE FALSE
    BY <1>4
  <2>1. Below(s, s[i]) # {}
    <3>1. Cardinality({}) = 0
      BY FS_EmptySet
    <3>2. Cardinality(Below(s, s[i])) # 0
      BY <1>1, <1>4
    <3>3. QED
      BY <3>1, <3>2
  <2>2. PICK j \in Below(s, s[i]) : \A l \in Below(s, s[i]) : s[l] <= s[j]
    BY <1>1, <1>4, <2>1, Largest
  <2>3. j \in DOMAIN s /\ s[j] < s[i] /\ s[j] \in Int /\ s[i] \in Int
    BY <1>1, <1>3, <2>2 DEF Below
  <2>4. Below(s, s[i]) \in SUBSET AtMost(s, s[j]) /\ AtMost(s, s[j]) \in SUBSET (1 .. Len(s))
    BY <1>1, <2>2 DEF Below, AtMost
  <2>5. Cardinality(AtMost(s, s[j])) >= k
    <3>1. Cardinality(Below(s, s[i])) <= Cardinality(AtMost(s, s[j])) /\ Cardinality(AtMost(s, s[j])) \in Nat
      BY <1>1, <2>4, AfcCounted
    <3>2. k >= 1
      BY <1>1
    <3>3. QED
      BY <1>4, <3>1, <3>2
  <2>6. j \in Up
    BY <2>3, <2>5
  <2>7. s[i] <= s[j]
    BY <1>3, <2>6
  <2>8. QED
    BY <2>3, <2>7
<1>6. RankIs(s, k, s[i]) /\ s[i] \in {s[j] : j \in DOMAIN s}
  BY <1>3, <1>5 DEF RankIs
<1>7. Ranked(s, k) = CHOOSE v \in {s[j] : j \in DOMAIN s} : RankIs(s, k, v)
  BY DEF Ranked, RankIs, Below, AtMost
<1>8. Ranked(s, k) \in {s[j] : j \in DOMAIN s} /\ RankIs(s, k, Ranked(s, k))
  BY <1>6, <1>7
<1>9. QED
  BY <1>1, <1>8

Beyond(s, lo, hi) == {i \in DOMAIN s : ~(lo <= s[i] /\ s[i] <= hi)}

\* An element of a middle rank lies where most elements do.
LEMMA RankedWithin ==
  ASSUME NEW s \in Seq(Int), NEW k \in 1 .. Len(s), NEW lo \in Int, NEW hi \in Int,
         Cardinality(Beyond(s, lo, hi)) < k, Cardinality(Beyond(s, lo, hi)) <= Len(s) - k
  PROVE  lo <= Ranked(s, k) /\ Ranked(s, k) <= hi
<1> DEFINE v == Ranked(s, k)
           n == Len(s)
           B == Beyond(s, lo, hi)
<1>1. DOMAIN s = 1 .. n /\ n \in Nat /\ \A i \in DOMAIN s : s[i] \in Int
  BY LenProperties, ElementOfSeq
<1>2. v \in Int /\ RankIs(s, k, v)
  BY RankedIs
<1>3. B \in SUBSET (1 .. n) /\ Cardinality(B) \in Nat
  BY <1>1, AfcCounted DEF Beyond
<1> HIDE DEF v
<1>4. ASSUME v < lo PROVE FALSE
  <2>1. AtMost(s, v) \in SUBSET B
    BY <1>1, <1>2, <1>4 DEF AtMost, Beyond
  <2>2. Cardinality(AtMost(s, v)) <= Cardinality(B) /\ Cardinality(AtMost(s, v)) \in Nat
    BY <1>1, <1>3, <2>1, AfcCounted
  <2>3. QED
    BY <1>2, <1>3, <2>2 DEF RankIs
<1>5. ASSUME v > hi PROVE FALSE
  <2> DEFINE L == Below(s, v)
  <2>1. L \in SUBSET (1 .. n) /\ (1 .. n) \ L \in SUBSET B
    BY <1>1, <1>2, <1>5 DEF Below, Beyond
  <2>2. Cardinality(L) \in Nat /\ IsFiniteSet(L) /\ IsFiniteSet(1 .. n) /\ Cardinality(1 .. n) = n
    BY <1>1, <2>1, AfcCounted, UpTo
  <2>3. Cardinality((1 .. n) \ L) = n - Cardinality(L)
    <3>1. (1 .. n) \cap L = L
      BY <2>1
    <3>2. Cardinality((1 .. n) \ L) = Cardinality(1 .. n) - Cardinality((1 .. n) \cap L)
      BY <2>2, FS_Difference
    <3>3. QED
      BY <2>2, <3>1, <3>2
  <2>4. Cardinality((1 .. n) \ L) <= Cardinality(B)
    BY <1>1, <1>3, <2>1, AfcCounted
  <2>5. Cardinality(L) < k
    BY <1>2 DEF RankIs
  <2> HIDE DEF L, B
  <2>6. QED
    BY <1>1, <1>3, <2>2, <2>3, <2>4, <2>5 DEF B
<1>6. QED
  BY <1>2, <1>4, <1>5 DEF v

LEMMA HalfFacts ==
  ASSUME NEW x \in Int
  PROVE  /\ Half(x) \in Int
         /\ \A lo, hi \in Int : 2 * lo <= x /\ x <= 2 * hi => lo <= Half(x) /\ Half(x) <= hi
  BY DEF Half

\* The median is an integer, and lies where more than half of the elements do.
LEMMA MedianWithin ==
  ASSUME NEW s \in Seq(Int)
  PROVE  /\ Median(s) \in Int
         /\ \A lo, hi \in Int :
              2 * Cardinality(Beyond(s, lo, hi)) < Len(s) => lo <= Median(s) /\ Median(s) <= hi
<1> DEFINE n == Len(s)
           h == n \div 2
<1>1. n \in Nat /\ h \in Nat /\ (n % 2 = 1 => n = 2 * h + 1) /\ (n % 2 # 1 => n = 2 * h)
  BY LenProperties
<1>2. Median(s) = IF n = 0 THEN 0 ELSE IF n % 2 = 1 THEN Ranked(s, h + 1)
                  ELSE Half(Ranked(s, h) + Ranked(s, h + 1))
  BY DEF Median
<1> HIDE DEF n, h
<1>3. ASSUME NEW lo \in Int, NEW hi \in Int PROVE Cardinality(Beyond(s, lo, hi)) \in Nat
  <2>1. Beyond(s, lo, hi) \in SUBSET (1 .. Len(s)) /\ Len(s) \in Nat
    BY LenProperties DEF Beyond
  <2>2. QED
    BY <2>1, AfcCounted
<1>4. CASE n = 0
  <2>1. Median(s) = 0
    BY <1>2, <1>4
  <2>2. ASSUME NEW lo \in Int, NEW hi \in Int, 2 * Cardinality(Beyond(s, lo, hi)) < Len(s)
        PROVE  FALSE
    <3>1. Cardinality(Beyond(s, lo, hi)) \in Nat
      BY <1>3
    <3>2. Len(s) = 0
      BY <1>4 DEF n
    <3>3. QED
      BY <2>2, <3>1, <3>2
  <2>3. QED
    BY <2>1, <2>2
<1>5. CASE n # 0 /\ n % 2 = 1
  <2>1. h + 1 \in 1 .. Len(s) /\ h = n - (h + 1)
    BY <1>1, <1>5 DEF n
  <2>2. Ranked(s, h + 1) \in Int
    BY <2>1, RankedIs
  <2>3. ASSUME NEW lo \in Int, NEW hi \in Int, 2 * Cardinality(Beyond(s, lo, hi)) < n
        PROVE  lo <= Ranked(s, h + 1) /\ Ranked(s, h + 1) <= hi
    <3> DEFINE c == Cardinality(Beyond(s, lo, hi))
    <3>0. c \in Nat /\ 2 * c < n
      BY <1>3, <2>3
    <3> HIDE DEF c
    <3>1. c < h + 1 /\ c <= n - (h + 1)
      BY <1>1, <1>5, <3>0
    <3> USE DEF c, n
    <3>2. QED
      BY <2>1, <3>1, RankedWithin
  <2>4. QED
    BY <1>2, <1>5, <2>2, <2>3 DEF n
<1>6. CASE n # 0 /\ n % 2 # 1
  <2>1. h \in 1 .. Len(s) /\ h + 1 \in 1 .. Len(s)
    BY <1>1, <1>6 DEF n
  <2>2. Ranked(s, h) \in Int /\ Ranked(s, h + 1) \in Int
    BY <2>1, RankedIs
  <2> DEFINE x == Ranked(s, h) + Ranked(s, h + 1)
  <2>3. x \in Int /\ Median(s) = Half(x) /\ Half(x) \in Int
    BY <1>2, <1>6, <2>2, HalfFacts
  <2>4. ASSUME NEW lo \in Int, NEW hi \in Int, 2 * Cardinality(Beyond(s, lo, hi)) < n
        PROVE  lo <= Median(s) /\ Median(s) <= hi
    <3> DEFINE c == Cardinality(Beyond(s, lo, hi))
    <3>0. c \in Nat /\ 2 * c < n
      BY <1>3, <2>4
    <3> HIDE DEF c
    <3>1. c < h /\ c <= n - h /\ c < h + 1 /\ c <= n - (h + 1)
      BY <1>1, <1>6, <3>0
    <3> USE DEF c, n
    <3>2. lo <= Ranked(s, h) /\ Ranked(s, h) <= hi
      BY <2>1, <3>1, RankedWithin
    <3>3. lo <= Ranked(s, h + 1) /\ Ranked(s, h + 1) <= hi
      BY <2>1, <3>1, RankedWithin
    <3>4. 2 * lo <= x /\ x <= 2 * hi
      BY <2>2, <3>2, <3>3
    <3>5. QED
      BY <2>3, <3>4, HalfFacts
  <2>5. QED
    BY <2>3, <2>4 DEF n
<1>7. QED
  BY <1>4, <1>5, <1>6

-----------------------------------------------------------------------------
(* Types. *)

Offsets   == -OffsetMax .. OffsetMax
Standards == {"same", "other"}
Estimates == [v : Int, at : Channels \X Offsets, std : Standards]
Histories == {e \in Seq(Estimates) : Len(e) <= Samples}
Checks    == [med : Int, step : Int, chan : Channels]
Missing   == 0 .. MaxMisses
Budgets   == 0 .. MaxCorrections
Since     == 0 .. RearmWindows
Signs     == {1, -1}
Judgements == {"unverified", "confirmed", "flipped"}
AfcRec == [est : Histories, misses : Missing, corrections : Budgets, since : Since,
           sign : Signs, judged : Judgements, check : Checks]

AfcIInv ==
  /\ chan \in Channels /\ offset \in Offsets
  /\ enabled \in BOOLEAN /\ locked \in BOOLEAN
  /\ hold \in {"none", "scan", "screen"}
  /\ original \in Channels \X Offsets
  /\ unseen \in BOOLEAN /\ moved \in BOOLEAN /\ ownWrite \in BOOLEAN
  /\ settle \in 0 .. RetuneSettle /\ lost \in 0 .. LostWindows
  /\ Old \in AfcRec
  /\ events \in 0 .. MaxEvents /\ faults \in 0 .. MaxFaults

LEMMA Limits ==
  /\ Samples \in Nat \ {0} /\ MaxMisses \in Nat /\ MaxMad \in Nat /\ Deadband \in Nat
  /\ MaxStep \in Nat /\ MaxCorrections \in Nat /\ RearmWindows \in Nat /\ SignCheckMin \in Nat
  /\ LostWindows \in Nat /\ OffsetMax \in Nat /\ MaxEvents \in Nat /\ MaxFaults \in Nat
  /\ RetuneSettle \in Nat /\ RetuneSettle >= 2
  BY LimitsAssumption

LEMMA Zeros ==
  /\ 0 \in Offsets /\ 0 \in Missing /\ 0 \in Budgets /\ 0 \in Since /\ << >> \in Histories
<1>1. << >> \in Seq(Estimates) /\ Len(<< >>) = 0
  BY EmptySeq
<1>2. QED
  BY <1>1, Limits DEF Offsets, Missing, Budgets, Since, Histories

LEMMA Admitted ==
  ASSUME NEW e \in Histories, NEW x \in Estimates
  PROVE  /\ Admit(e, x) \in Histories /\ <<x>> \in Histories
         /\ \A i \in DOMAIN Admit(e, x) :
              Admit(e, x)[i] = x \/ \E j \in DOMAIN e : Admit(e, x)[i] = e[j]
<1>1. e \in Seq(Estimates) /\ Len(e) \in Nat /\ Len(e) <= Samples /\ DOMAIN e = 1 .. Len(e)
  BY LenProperties DEF Histories
<1>2. <<x>> \in Histories
  BY Limits DEF Histories
<1>3. CASE Len(e) < Samples
  <2>1. Admit(e, x) = Append(e, x)
    BY <1>3 DEF Admit
  <2>2. /\ Append(e, x) \in Seq(Estimates) /\ Len(Append(e, x)) = Len(e) + 1
        /\ \A i \in 1 .. Len(e) : Append(e, x)[i] = e[i]
        /\ Append(e, x)[Len(e) + 1] = x /\ DOMAIN Append(e, x) = 1 .. Len(e) + 1
    BY <1>1, AppendProperties, LenProperties
  <2>3. \A i \in 1 .. Len(e) + 1 : i = Len(e) + 1 \/ i \in 1 .. Len(e)
    BY <1>1
  <2>4. QED
    BY <1>1, <1>2, <1>3, <2>1, <2>2, <2>3, Limits DEF Histories
<1>4. CASE Len(e) = Samples
  <2>1. Admit(e, x) = Append(Tail(e), x)
    BY <1>4, Limits DEF Admit
  <2>2. e # << >>
    BY <1>4, Limits
  <2>3. /\ Tail(e) \in Seq(Estimates) /\ Len(Tail(e)) = Len(e) - 1 /\ Len(Tail(e)) \in Nat
        /\ \A i \in 1 .. Len(Tail(e)) : Tail(e)[i] = e[i + 1] /\ i + 1 \in 1 .. Len(e)
    BY <1>1, <2>2, HeadTailProperties, LenProperties
  <2> DEFINE t == Tail(e)
  <2> HIDE DEF t
  <2>4. /\ Append(t, x) \in Seq(Estimates) /\ Len(Append(t, x)) = Len(t) + 1
        /\ \A i \in 1 .. Len(t) : Append(t, x)[i] = t[i]
        /\ Append(t, x)[Len(t) + 1] = x /\ DOMAIN Append(t, x) = 1 .. Len(t) + 1
    BY <2>3, AppendProperties, LenProperties DEF t
  <2>5. \A i \in 1 .. Len(t) + 1 : i = Len(t) + 1 \/ i \in 1 .. Len(t)
    <3>1. Len(t) \in Nat
      BY <2>3 DEF t
    <3>2. QED
      BY <3>1
  <2>6. \A i \in 1 .. Len(t) : t[i] = e[i + 1] /\ i + 1 \in DOMAIN e
    BY <1>1, <2>3 DEF t
  <2>7. Append(t, x) \in Histories
    BY <1>1, <2>3, <2>4 DEF Histories, t
  <2>8. \A i \in DOMAIN Append(t, x) : Append(t, x)[i] = x \/ \E j \in DOMAIN e : Append(t, x)[i] = e[j]
    BY <2>4, <2>5, <2>6
  <2>9. QED
    BY <1>2, <2>1, <2>7, <2>8 DEF t
<1>5. Len(e) < Samples \/ Len(e) = Samples
  <2>1. Samples \in Int
    BY Limits
  <2>2. Len(e) \in Int /\ Len(e) <= Samples
    BY <1>1
  <2> DEFINE n == Len(e)
  <2>3. n \in Int /\ n <= Samples
    BY <2>2
  <2> HIDE DEF n
  <2>4. n < Samples \/ n = Samples
    BY <2>1, <2>3
  <2>5. QED
    BY <2>4 DEF n
<1>6. QED
  BY <1>3, <1>4, <1>5

\* The parts of an admitted estimate, and the history as it was.
LEMMA ValuesType ==
  ASSUME NEW e \in Histories
  PROVE  /\ Values(e) \in Seq(Int) /\ Len(Values(e)) = Len(e) /\ DOMAIN Values(e) = DOMAIN e
         /\ \A i \in DOMAIN e : Values(e)[i] = e[i].v /\ e[i] \in Estimates
         /\ MedianOf(e) \in Int /\ Len(e) \in Nat /\ DOMAIN e = 1 .. Len(e) /\ Len(e) <= Samples
<1>1. e \in Seq(Estimates) /\ Len(e) \in Nat /\ Len(e) <= Samples /\ DOMAIN e = 1 .. Len(e)
  BY LenProperties DEF Histories
<1>2. \A i \in DOMAIN e : e[i] \in Estimates
  BY <1>1, ElementOfSeq
<1>3. \A i \in DOMAIN e : e[i].v \in Int
  BY <1>2 DEF Estimates
<1>4. Values(e) = [i \in 1 .. Len(e) |-> e[i].v]
  BY <1>1 DEF Values
<1>5. Values(e) \in Seq(Int) /\ Len(Values(e)) = Len(e)
  BY <1>1, <1>3, <1>4, IsASeq, LenProperties
<1>6. MedianOf(e) \in Int
  BY <1>5, MedianWithin DEF MedianOf
<1>7. QED
  BY <1>1, <1>2, <1>4, <1>5, <1>6

-----------------------------------------------------------------------------
(* What the operations on the controller keep. *)

Kept(e, f) == f = e \/ f = << >>

LEMMA NoCheckType ==
  ASSUME NEW c \in Channels
  PROVE  NoCheck \in Checks
<1>1. (CHOOSE x \in Channels : TRUE) \in Channels
  OBVIOUS
<1>2. QED
  BY <1>1 DEF NoCheck, Checks

LEMMA MissedType ==
  ASSUME NEW a \in AfcRec
  PROVE  Missed(a) \in AfcRec /\ Kept(a.est, Missed(a).est) /\ Missed(a).sign = a.sign
<1>1. CASE a.misses + 1 > MaxMisses
  BY <1>1, Zeros DEF Missed, AfcRec, Kept
<1>2. CASE ~(a.misses + 1 > MaxMisses)
  <2>1. a.misses + 1 \in Missing
    BY <1>2, Limits DEF AfcRec, Missing
  <2>2. QED
    BY <1>2, <2>1 DEF Missed, AfcRec, Kept
<1>3. QED
  BY <1>1, <1>2

LEMMA SyncedType ==
  ASSUME NEW a \in AfcRec, NEW mine, NEW c \in Channels
  PROVE  Synced(a, mine) \in AfcRec /\ Synced(a, mine).est = << >>
<1>1. NoCheck \in Checks
  BY NoCheckType
<1>2. QED
  BY <1>1, Zeros DEF Synced, AfcRec

LEMMA InvalidatedType ==
  ASSUME NEW a \in AfcRec
  PROVE  Invalidated(a) \in AfcRec /\ Invalidated(a).est = << >>
  BY Zeros DEF Invalidated, AfcRec

LEMMA ReacquiredType ==
  ASSUME NEW a \in AfcRec
  PROVE  Reacquired(a) \in AfcRec /\ Reacquired(a).est = a.est
  BY Zeros DEF Reacquired, AfcRec

LEMMA RearmedType ==
  ASSUME NEW a \in AfcRec
  PROVE  Rearmed(a) \in AfcRec /\ Rearmed(a).est = a.est
  BY Zeros DEF Rearmed, AfcRec

LEMMA ObservedType ==
  ASSUME NEW a \in AfcRec, NEW x \in Estimates, NEW p \in BOOLEAN
  PROVE  /\ Observed(a, x, p) \in AfcRec
         /\ \/ Kept(a.est, Observed(a, x, p).est)
            \/ Observed(a, x, p).est \in {<<x>>, Admit(a.est, x)}
<1> DEFINE b == [a EXCEPT !.since = IF @ < RearmWindows THEN @ + 1 ELSE @]
           f == IF \E i \in DOMAIN a.est : a.est[i].std # x.std THEN <<x>> ELSE Admit(a.est, x)
<1>1. a.since \in Since /\ (a.since < RearmWindows => a.since + 1 \in Since)
  BY Limits DEF AfcRec, Since
<1>2. b \in AfcRec /\ b.est = a.est
  BY <1>1 DEF AfcRec
<1>3. a.est \in Histories
  BY DEF AfcRec
<1>4. f \in Histories /\ f \in {<<x>>, Admit(a.est, x)}
  BY <1>3, Admitted
<1>5. Observed(a, x, p) = IF p THEN [b EXCEPT !.misses = 0, !.est = IF \E i \in DOMAIN a.est : a.est[i].std # x.std
                                                                     THEN <<x>> ELSE Admit(@, x)]
                          ELSE Missed(b)
  BY DEF Observed
<1>6. [b EXCEPT !.misses = 0, !.est = IF \E i \in DOMAIN a.est : a.est[i].std # x.std THEN <<x>> ELSE Admit(@, x)]
        = [b EXCEPT !.misses = 0, !.est = f]
  BY <1>2 DEF AfcRec
<1> HIDE DEF b, f
<1>7. [b EXCEPT !.misses = 0, !.est = f] \in AfcRec /\ [b EXCEPT !.misses = 0, !.est = f].est = f
  BY <1>2, <1>4, Zeros DEF AfcRec
<1>8. Missed(b) \in AfcRec /\ Kept(a.est, Missed(b).est)
  BY <1>2, MissedType
<1>9. CASE p
  BY <1>4, <1>5, <1>6, <1>7, <1>9
<1>10. CASE ~p
  BY <1>5, <1>8, <1>10
<1>11. QED
  BY <1>9, <1>10

LEMMA JudgedType ==
  ASSUME NEW a \in AfcRec, NEW c \in Channels
  PROVE  JudgeIfStable(a) \in AfcRec /\ JudgeIfStable(a).est = a.est
<1> DEFINE b == [a EXCEPT !.check = NoCheck]
           yes == [b EXCEPT !.judged = "confirmed"]
           no  == [b EXCEPT !.sign = -@, !.judged = "flipped", !.corrections = 0]
<1>1. NoCheck \in Checks
  BY NoCheckType
<1>2. b \in AfcRec /\ b.est = a.est
  BY <1>1 DEF AfcRec
<1>3. JudgeIfStable(a) \in {a, b, yes, no}
  BY DEF JudgeIfStable, Judge
<1> HIDE DEF b
<1>4. yes \in AfcRec /\ yes.est = b.est
  BY <1>2 DEF AfcRec, Judgements
<1>5. no \in AfcRec /\ no.est = b.est
  <2>1. b.sign \in Signs /\ -b.sign \in Signs
    BY <1>2 DEF AfcRec, Signs
  <2>2. QED
    BY <1>2, <2>1, Zeros DEF AfcRec, Judgements
<1>6. QED
  BY <1>2, <1>3, <1>4, <1>5

LEMMA StepForFacts ==
  ASSUME NEW x \in Int
  PROVE  /\ StepFor(x) \in Int /\ Abs(StepFor(x)) <= Abs(x)
         /\ x >= 0 => StepFor(x) >= 0
         /\ x <= 0 => StepFor(x) <= 0
  BY Limits DEF StepFor, Abs

LEMMA SteppedType ==
  ASSUME NEW a \in AfcRec, chan \in Channels, a.corrections < MaxCorrections
  PROVE  Stepped(a) \in AfcRec /\ Stepped(a).est = << >> /\ Stepped(a).sign = a.sign
<1> DEFINE med == MedianOf(a.est)
           step == StepFor(med)
           k == IF Abs(step) >= SignCheckMin THEN [med |-> med, step |-> step, chan |-> chan] ELSE NoCheck
<1>1. a.est \in Histories
  BY DEF AfcRec
<1>2. med \in Int /\ step \in Int
  BY <1>1, ValuesType, StepForFacts
<1>3. k \in Checks
  <2>1. NoCheck \in Checks
    BY NoCheckType
  <2>2. [med |-> med, step |-> step, chan |-> chan] \in Checks
    BY <1>2 DEF Checks
  <2>3. QED
    BY <2>1, <2>2
<1>4. a.corrections + 1 \in Budgets
  BY Limits DEF AfcRec, Budgets
<1>5. Stepped(a) = [a EXCEPT !.check = k, !.corrections = @ + 1, !.since = 0, !.est = << >>]
  BY DEF Stepped
<1> HIDE DEF k
<1>6. QED
  BY <1>3, <1>4, <1>5, Zeros DEF AfcRec

-----------------------------------------------------------------------------
(* The stages of a tick. *)

Seen(w, x)         == AfterWindow(Synchronised, w, x)
Ruled(w, x)        == IF Valid(w) THEN JudgeIfStable(Seen(w, x)) ELSE Seen(w, x)
Locks(w, x)        == LockNow(w, Ruled(w, x))
Decides(w, x, m)   == enabled /\ ~Locks(w, x) /\ Valid(w) /\ m
Ready(w, x, m)     == AfterLock(Ruled(w, x), Locks(w, x), Decides(w, x, m))
StepsNow(w, x, m, s) == Decides(w, x, m) /\ Steps(Ready(w, x, m), s)

Ended(w, l, d, s) ==
  /\ locked' = l /\ lost' = LostNow(w)
  /\ SetAfc(IF s THEN Stepped(d) ELSE d)
  /\ ownWrite' = s
  /\ SetOffset(IF s THEN offset + d.sign * StepFor(MedianOf(d.est)) ELSE IF ~enabled THEN 0 ELSE offset)

LEMMA Stages ==
  ASSUME NEW w, NEW x, NEW m, NEW s, Tick(w, x, m, s)
  PROVE  /\ hold = "none"
         /\ Ended(w, Locks(w, x), Ready(w, x, m), StepsNow(w, x, m, s))
         /\ settle' = IF Settling = 0 THEN 0 ELSE Settling - 1
         /\ UNCHANGED <<chan, enabled, hold, original>>
<1> DEFINE AfterL(l, c) == \E decides \in {enabled /\ ~l /\ Valid(w) /\ m} :
                           \E d \in {AfterLock(c, l, decides)} :
                           \E steps \in {decides /\ Steps(d, s)} : Ended(w, l, d, steps)
           AfterC(c) == \E l \in {LockNow(w, c)} : AfterL(l, c)
           AfterB(b) == \E c \in {IF Valid(w) THEN JudgeIfStable(b) ELSE b} : AfterC(c)
           AfterA(a) == \E b \in {AfterWindow(a, w, x)} : AfterB(b)
<1>1. /\ hold = "none" /\ \E a \in {Synchronised} : AfterA(a)
      /\ settle' = IF Settling = 0 THEN 0 ELSE Settling - 1
      /\ UNCHANGED <<chan, enabled, hold, original>>
  BY DEF Tick, Ended
<1> HIDE DEF AfterA
<1>2. AfterA(Synchronised)
  BY <1>1
<1> USE DEF AfterA
<1> HIDE DEF AfterB
<1>3. AfterB(Seen(w, x))
  BY <1>2 DEF Seen
<1> USE DEF AfterB
<1> HIDE DEF AfterC
<1>4. AfterC(Ruled(w, x))
  BY <1>3 DEF Ruled
<1> USE DEF AfterC
<1> HIDE DEF AfterL
<1>5. AfterL(Locks(w, x), Ruled(w, x))
  BY <1>4 DEF Locks
<1> USE DEF AfterL
<1>6. \E d \in {Ready(w, x, m)} : \E steps \in {Decides(w, x, m) /\ Steps(d, s)} : Ended(w, Locks(w, x), d, steps)
  BY <1>5 DEF Decides, Ready
<1>7. Ended(w, Locks(w, x), Ready(w, x, m), StepsNow(w, x, m, s))
  BY <1>6 DEF StepsNow
<1>8. QED
  BY <1>1, <1>7

\* What may be in the history after a window: the estimate of the window, and
\* what was in it while the context stayed.
Fresh(w, x, e) ==
  \/ e = << >> \/ e = <<Estimate(w, x)>>
  \/ ~moved /\ e \in {est, Admit(est, Estimate(w, x))}
  \/ e = Admit(<< >>, Estimate(w, x))

LEMMA EstimateType ==
  ASSUME AfcIInv, NEW w, NEW x \in Int
  PROVE  Estimate(w, x) \in Estimates /\ Estimate(w, x).at = tuning /\ Residuals \in Int
<1>1. Carrier[chan] \in Int /\ OffsetSign \in Int /\ offset \in Int
  BY CarrierAssumption, SignAssumption, Limits DEF AfcIInv, Offsets
<1>2. Residuals \in Int
  BY <1>1 DEF Residuals, Residual
<1>3. Estimate(w, x).v \in Int
  BY <1>2, Limits DEF Estimate
<1>4. QED
  BY <1>2, <1>3 DEF Estimate, Estimates, Standards, tuning, AfcIInv

LEMMA ReadyType ==
  ASSUME AfcIInv, NEW w, NEW x \in Int, NEW m
  PROVE  /\ Ruled(w, x) \in AfcRec /\ Ready(w, x, m) \in AfcRec
         /\ Ready(w, x, m).est = Ruled(w, x).est /\ Fresh(w, x, Ready(w, x, m).est)
<1> DEFINE y == Estimate(w, x)
           a == Synchronised
           i == IF unseen THEN Invalidated(Old) ELSE Old
<1>1. Old \in AfcRec /\ Old.est = est /\ y \in Estimates
  BY EstimateType DEF AfcIInv, Old
<1>2. i \in AfcRec /\ Kept(est, i.est)
  BY <1>1, InvalidatedType DEF Kept
<1>3. a \in AfcRec /\ (a.est = << >> \/ (~moved /\ a.est = est))
  <2>1. Synced(i, ownWrite) \in AfcRec /\ Synced(i, ownWrite).est = << >>
    BY <1>2, SyncedType DEF AfcIInv
  <2>2. a = IF moved THEN Synced(i, ownWrite) ELSE i
    BY DEF Synchronised
  <2> HIDE DEF a, i
  <2>3. CASE moved
    BY <2>1, <2>2, <2>3
  <2>4. CASE ~moved
    <3>1. a = i
      BY <2>2, <2>4
    <3>2. a \in AfcRec /\ (a.est = est \/ a.est = << >>)
      BY <1>2, <3>1 DEF Kept
    <3>3. QED
      BY <2>4, <3>2
  <2>5. QED
    BY <2>3, <2>4
<1> HIDE DEF a, y
<1>4. Seen(w, x) \in AfcRec /\ Fresh(w, x, Seen(w, x).est)
  <2>1. Valid(w) \in BOOLEAN
    BY DEF Valid, Shows
  <2>2. /\ Observed(a, y, Valid(w)) \in AfcRec
        /\ \/ Kept(a.est, Observed(a, y, Valid(w)).est)
           \/ Observed(a, y, Valid(w)).est \in {<<y>>, Admit(a.est, y)}
    BY <1>1, <1>3, <2>1, ObservedType
  <2>3. Missed(a) \in AfcRec /\ Kept(a.est, Missed(a).est)
    BY <1>3, MissedType
  <2>4. Seen(w, x) = IF Measured(w) THEN Observed(a, y, Valid(w)) ELSE Missed(a)
    BY DEF Seen, AfterWindow, a, y
  <2>5. QED
    BY <1>3, <2>2, <2>3, <2>4 DEF Fresh, Kept, y
<1>5. Ruled(w, x) \in AfcRec /\ Ruled(w, x).est = Seen(w, x).est
  BY <1>4, JudgedType DEF Ruled, AfcIInv
<1>6. Ready(w, x, m) \in AfcRec /\ Ready(w, x, m).est = Ruled(w, x).est
  <2> DEFINE c == Ruled(w, x)
             l == Locks(w, x)
             b == IF WasLocked /\ ~l THEN Reacquired(c) ELSE c
  <2>1. b \in AfcRec /\ b.est = c.est
    BY <1>5, ReacquiredType
  <2>2. Ready(w, x, m) = IF Decides(w, x, m) THEN Rearmed(b) ELSE b
    BY DEF Ready, AfterLock
  <2> HIDE DEF b, c
  <2>3. Rearmed(b) \in AfcRec /\ Rearmed(b).est = b.est
    BY <2>1, RearmedType
  <2>4. QED
    BY <2>1, <2>2, <2>3 DEF c
<1>7. QED
  BY <1>4, <1>5, <1>6

LEMMA ClampIs ==
  ASSUME NEW o \in Int
  PROVE  /\ Clamp(o) \in Offsets
         /\ o \in Offsets => Clamp(o) = o
         /\ \A p \in Offsets : /\ p <= o => (p <= Clamp(o) /\ Clamp(o) <= o)
                               /\ o <= p => (o <= Clamp(o) /\ Clamp(o) <= p)
  BY Limits DEF Clamp, Offsets

LEMMA SettlingType ==
  ASSUME AfcIInv
  PROVE  Settling \in 0 .. RetuneSettle
  BY Limits DEF Settling, AfcIInv

LEMMA AfcIs ==
  ASSUME NEW a \in AfcRec, SetAfc(a)
  PROVE  Old' \in AfcRec /\ est' = a.est /\ sign' = a.sign
  BY DEF SetAfc, Old, AfcRec

LEMMA TickType ==
  ASSUME AfcIInv, NEW w, NEW x \in Int, NEW m, NEW s, Tick(w, x, m, s)
  PROVE  /\ chan' = chan /\ offset' \in Offsets /\ enabled' = enabled
         /\ locked' \in BOOLEAN /\ hold' = hold /\ original' = original
         /\ unseen' \in BOOLEAN /\ moved' \in BOOLEAN /\ ownWrite' \in BOOLEAN
         /\ settle' \in 0 .. RetuneSettle /\ lost' \in 0 .. LostWindows /\ Old' \in AfcRec
         /\ (moved' <=> offset' # offset)
         /\ (est' = << >> \/ est' = Ready(w, x, m).est)
<1> DEFINE d == Ready(w, x, m)
           o == IF StepsNow(w, x, m, s) THEN offset + d.sign * StepFor(MedianOf(d.est))
                ELSE IF ~enabled THEN 0 ELSE offset
           a == IF StepsNow(w, x, m, s) THEN Stepped(d) ELSE d
<1>1. /\ locked' = Locks(w, x) /\ lost' = LostNow(w) /\ SetAfc(a)
      /\ ownWrite' = StepsNow(w, x, m, s) /\ SetOffset(o)
      /\ settle' = IF Settling = 0 THEN 0 ELSE Settling - 1
      /\ UNCHANGED <<chan, enabled, hold, original>>
  BY Stages DEF Ended
<1>2. d \in AfcRec
  BY ReadyType
<1>3. o \in Int
  <2>1. d.est \in Histories /\ d.sign \in Int
    BY <1>2 DEF AfcRec, Signs
  <2>2. StepFor(MedianOf(d.est)) \in Int
    BY <2>1, ValuesType, StepForFacts
  <2>3. offset \in Int
    BY Limits DEF AfcIInv, Offsets
  <2> HIDE DEF d
  <2>4. d.sign * StepFor(MedianOf(d.est)) \in Int
    BY <2>1, <2>2
  <2>5. QED
    BY <2>3, <2>4
<1>4. a \in AfcRec /\ (a.est = << >> \/ a.est = d.est)
  <2>1. CASE StepsNow(w, x, m, s)
    <3>1. d.corrections < MaxCorrections
      BY <2>1 DEF StepsNow, Steps
    <3>2. QED
      BY <1>2, <2>1, <3>1, SteppedType DEF AfcIInv
  <2>2. CASE ~StepsNow(w, x, m, s)
    BY <1>2, <2>2
  <2>3. QED
    BY <2>1, <2>2
<1> HIDE DEF a, o, d
<1>5. Old' \in AfcRec /\ est' = a.est
  BY <1>1, <1>4, AfcIs
<1>6. offset' \in Offsets /\ unseen' \in BOOLEAN /\ moved' \in BOOLEAN /\ (moved' <=> offset' # offset)
  BY <1>1, <1>3, ClampIs DEF SetOffset
<1>7. settle' \in 0 .. RetuneSettle
  BY <1>1, SettlingType, Limits
<1>8. locked' \in BOOLEAN /\ ownWrite' \in BOOLEAN
  BY <1>1 DEF Locks, LockNow, StepsNow, Decides
<1>9. lost' \in 0 .. LostWindows
  <2>1. lost \in 0 .. LostWindows /\ LostWindows \in Nat
    BY Limits DEF AfcIInv
  <2>2. QED
    BY <1>1, <2>1 DEF LostNow
<1>10. QED
  BY <1>1, <1>4, <1>5, <1>6, <1>7, <1>8, <1>9 DEF d

-----------------------------------------------------------------------------
(* Every step, by what it is: a tick, or a change that moves the context. *)

TickBy(w, x) == \E m \in BOOLEAN, s \in BOOLEAN : Tick(w, x, m, s)

LEMMA TickOf ==
  ASSUME GoodTick \/ BadTick
  PROVE  \E w \in Windows, x \in Int : TickBy(w, x)
<1>1. CASE GoodTick
  <2>1. PICK x \in PorchNoise : Tick("video", x, TRUE, TRUE)
    BY <1>1 DEF GoodTick
  <2>2. x \in Int /\ "video" \in Windows
    BY NoiseAssumption DEF Windows
  <2>3. TickBy("video", x)
    BY <2>1 DEF TickBy
  <2>4. QED
    BY <2>2, <2>3
<1>2. CASE BadTick
  <2>1. \/ \E w \in Windows \ {"video"} : Tick(w, 0, TRUE, TRUE)
        \/ Tick("video", 0, FALSE, TRUE) \/ Tick("video", 0, TRUE, FALSE)
    BY <1>2 DEF BadTick
  <2>2. \E w \in Windows : TickBy(w, 0)
    BY <2>1 DEF TickBy, Windows
  <2>3. QED
    BY <2>2
<1>3. QED
  BY <1>1, <1>2

\* A change from outside the loop leaves its history, and when it touches the
\* tuning it moves the context.
AfcOutsideStep ==
  /\ UNCHANGED afc /\ UNCHANGED <<settle, ownWrite, lost, faults>>
  /\ chan' \in Channels /\ offset' \in Offsets /\ original' \in Channels \X Offsets
  /\ enabled' \in BOOLEAN /\ hold' \in {"none", "scan", "screen"}
  /\ events' \in 0 .. MaxEvents /\ unseen' \in BOOLEAN /\ locked' \in {locked, FALSE}
  /\ \/ moved' = TRUE
     \/ moved' = moved /\ UNCHANGED tuning

LEMMA Outside ==
  ASSUME AfcIInv, \/ \E c \in Channels : TuneTo(c)
               \/ Toggle \/ Restore \/ (\E h \in {"scan", "screen"} : TakeHold(h))
               \/ Cover \/ EndHold
  PROVE  AfcOutsideStep
<1>0. /\ events < MaxEvents => events + 1 \in 0 .. MaxEvents
      /\ original[1] \in Channels /\ original[2] \in Offsets /\ 0 \in Offsets /\ FALSE \in BOOLEAN
  BY Limits, Zeros DEF AfcIInv
<1>1. ASSUME NEW c \in Channels, TuneTo(c) PROVE AfcOutsideStep
  BY <1>0, <1>1 DEF TuneTo, Event, AfcOutsideStep, AfcIInv
<1>2. CASE Toggle
  BY <1>0, <1>2 DEF Toggle, Event, AfcOutsideStep, AfcIInv
<1>3. CASE Restore
  BY <1>0, <1>3 DEF Restore, Event, AfcOutsideStep, AfcIInv, tuning
<1>4. ASSUME NEW h \in {"scan", "screen"}, TakeHold(h) PROVE AfcOutsideStep
  BY <1>0, <1>4 DEF TakeHold, Event, AfcOutsideStep, AfcIInv, tuning
<1>5. CASE Cover
  BY <1>0, <1>5 DEF Cover, AfcOutsideStep, AfcIInv, tuning
<1>6. CASE EndHold
  BY <1>0, <1>6 DEF EndHold, AfcOutsideStep, AfcIInv
<1>7. QED
  BY <1>1, <1>2, <1>3, <1>4, <1>5, <1>6

LEMMA Cases ==
  ASSUME [AfcNext]_afcVars
  PROVE  \/ GoodTick \/ BadTick \/ ScanTick
         \/ \/ \E c \in Channels : TuneTo(c)
            \/ Toggle \/ Restore \/ (\E h \in {"scan", "screen"} : TakeHold(h))
            \/ Cover \/ EndHold
         \/ UNCHANGED afcVars
  BY DEF AfcNext

LEMMA AfcInitIInv == AfcInit => AfcIInv
<1> SUFFICES ASSUME AfcInit PROVE AfcIInv
  OBVIOUS
<1>1. NoCheck \in Checks
  BY NoCheckType DEF AfcInit
<1>2. Old \in AfcRec
  BY <1>1, Zeros DEF AfcInit, Old, AfcRec, Signs, Judgements
<1>3. 0 \in Offsets /\ original \in Channels \X Offsets
  BY Zeros DEF AfcInit, tuning
<1>4. settle \in 0 .. RetuneSettle /\ lost \in 0 .. LostWindows
      /\ events \in 0 .. MaxEvents /\ faults \in 0 .. MaxFaults
  <2>1. settle = RetuneSettle /\ lost = 0 /\ events = 0 /\ faults = 0
    BY DEF AfcInit
  <2>2. QED
    BY <2>1, Limits
<1>5. QED
  BY <1>2, <1>3, <1>4 DEF AfcInit, AfcIInv

LEMMA AfcStepIInv == AfcIInv /\ [AfcNext]_afcVars => AfcIInv'
<1> SUFFICES ASSUME AfcIInv, [AfcNext]_afcVars PROVE AfcIInv'
  OBVIOUS
<1>1. CASE GoodTick \/ BadTick
  <2>1. PICK w \in Windows, x \in Int : TickBy(w, x)
    BY <1>1, TickOf
  <2>2. PICK m \in BOOLEAN, s \in BOOLEAN : Tick(w, x, m, s)
    BY <2>1 DEF TickBy
  <2>3. events' = events /\ faults' \in 0 .. MaxFaults
    <3>1. faults \in 0 .. MaxFaults /\ MaxFaults \in Nat
      BY Limits DEF AfcIInv
    <3>2. CASE GoodTick
      BY <3>1, <3>2 DEF GoodTick
    <3>3. CASE BadTick
      <4>1. faults < MaxFaults /\ faults' = faults + 1 /\ events' = events
        BY <3>3 DEF BadTick
      <4>2. QED
        BY <3>1, <4>1
    <3>4. QED
      BY <1>1, <3>2, <3>3
  <2>4. /\ chan' = chan /\ offset' \in Offsets /\ enabled' = enabled
        /\ locked' \in BOOLEAN /\ hold' = hold /\ original' = original
        /\ unseen' \in BOOLEAN /\ moved' \in BOOLEAN /\ ownWrite' \in BOOLEAN
        /\ settle' \in 0 .. RetuneSettle /\ lost' \in 0 .. LostWindows /\ Old' \in AfcRec
    BY <2>2, TickType
  <2>5. QED
    BY <2>3, <2>4 DEF AfcIInv
<1>2. CASE ScanTick
  <2>1. Invalidated(Old) \in AfcRec
    BY InvalidatedType DEF AfcIInv
  <2>2. Old' \in AfcRec
    BY <1>2, <2>1, AfcIs DEF ScanTick
  <2>3. settle' \in 0 .. RetuneSettle
    BY <1>2, SettlingType DEF ScanTick
  <2>4. QED
    BY <1>2, <2>2, <2>3 DEF ScanTick, AfcIInv, tuning
<1>3. CASE \/ \E c \in Channels : TuneTo(c)
           \/ Toggle \/ Restore \/ (\E h \in {"scan", "screen"} : TakeHold(h))
           \/ Cover \/ EndHold
  <2>1. AfcOutsideStep
    BY <1>3, Outside
  <2>2. Old' = Old
    BY <2>1 DEF AfcOutsideStep, afc, Old
  <2>3. QED
    BY <2>1, <2>2 DEF AfcOutsideStep, AfcIInv, tuning
<1>4. CASE UNCHANGED afcVars
  BY <1>4 DEF afcVars, tuning, control, afc, AfcIInv, Old
<1>5. QED
  BY <1>1, <1>2, <1>3, <1>4, Cases

\* Whatever is received and commanded, the offset stays within its clamp, the
\* history within the window, the budget and the counters within their limits.
THEOREM AfcTypes == AfcSpec => []AfcTypeOK
<1>1. AfcIInv => AfcTypeOK
  <2> SUFFICES ASSUME AfcIInv PROVE AfcTypeOK
    OBVIOUS
  <2>1. /\ est \in Histories /\ misses \in Missing /\ corrections \in Budgets
        /\ since \in Since /\ sign \in Signs /\ judged \in Judgements
    BY DEF AfcIInv, Old, AfcRec
  <2>2. QED
    BY <2>1 DEF AfcIInv, AfcTypeOK, Offsets, Histories, Missing, Budgets, Since, Signs, Judgements
<1>2. QED
  BY <1>1, AfcInitIInv, AfcStepIInv, PTL DEF AfcSpec

-----------------------------------------------------------------------------
(* The history is of the present tuning. *)

LEMMA FreshHere ==
  ASSUME AfcIInv, EvidenceOfTuning, NEW w, NEW x \in Int, NEW e, Fresh(w, x, e)
  PROVE  e \in Histories /\ \A i \in DOMAIN e : e[i] \in Estimates /\ e[i].at = tuning
<1> DEFINE y == Estimate(w, x)
<1>1. y \in Estimates /\ y.at = tuning
  BY EstimateType
<1>2. est \in Histories /\ << >> \in Histories
  BY Zeros DEF AfcIInv, Old, AfcRec
<1>3. e \in Histories
  BY <1>1, <1>2, Admitted DEF Fresh
<1>4. \A i \in DOMAIN e : e[i] \in Estimates
  BY <1>3, ValuesType
<1> HIDE DEF y
<1>5. ASSUME NEW i \in DOMAIN e PROVE e[i].at = tuning
  <2>1. CASE e = << >>
    BY <2>1
  <2>2. CASE e = <<y>>
    BY <1>1, <2>2
  <2>3. CASE e = est /\ ~moved
    BY <2>3 DEF EvidenceOfTuning
  <2>4. CASE e = Admit(est, y) /\ ~moved
    <3>1. e[i] = y \/ \E j \in DOMAIN est : e[i] = est[j]
      BY <1>1, <1>2, <2>4, Admitted
    <3>2. QED
      BY <1>1, <2>4, <3>1 DEF EvidenceOfTuning
  <2>5. CASE e = Admit(<< >>, y)
    <3>1. e[i] = y \/ \E j \in DOMAIN << >> : e[i] = << >>[j]
      BY <1>1, <1>2, <2>5, Admitted
    <3>2. QED
      BY <1>1, <3>1
  <2>6. QED
    BY <2>1, <2>2, <2>3, <2>4, <2>5 DEF Fresh, y
<1>6. QED
  BY <1>3, <1>4, <1>5

LEMMA EvidenceStep == AfcIInv /\ EvidenceOfTuning /\ [AfcNext]_afcVars => EvidenceOfTuning'
<1> SUFFICES ASSUME AfcIInv, EvidenceOfTuning, [AfcNext]_afcVars, moved' = FALSE PROVE EvidenceOfTuning'
  <2>1. AfcIInv /\ [AfcNext]_afcVars => moved' \in BOOLEAN
    BY AfcStepIInv DEF AfcIInv
  <2>2. QED
    BY <2>1 DEF EvidenceOfTuning
<1>1. CASE GoodTick \/ BadTick
  <2>1. PICK w \in Windows, x \in Int : TickBy(w, x)
    BY <1>1, TickOf
  <2>2. PICK m \in BOOLEAN, s \in BOOLEAN : Tick(w, x, m, s)
    BY <2>1 DEF TickBy
  <2>3. tuning' = tuning /\ (est' = << >> \/ est' = Ready(w, x, m).est)
    BY <2>2, TickType DEF tuning
  <2>4. \A i \in DOMAIN Ready(w, x, m).est : Ready(w, x, m).est[i].at = tuning
    <3> DEFINE e == Ready(w, x, m).est
    <3>1. Fresh(w, x, e)
      BY ReadyType
    <3>2. QED
      BY <3>1, FreshHere
  <2>5. QED
    BY <2>3, <2>4 DEF EvidenceOfTuning
<1>2. CASE ScanTick
  <2>1. est' = << >>
    <3>1. Invalidated(Old) \in AfcRec /\ Invalidated(Old).est = << >>
      BY InvalidatedType DEF AfcIInv
    <3>2. QED
      BY <1>2, <3>1, AfcIs DEF ScanTick
  <2>2. QED
    BY <2>1 DEF EvidenceOfTuning
<1>3. CASE \/ \E c \in Channels : TuneTo(c)
           \/ Toggle \/ Restore \/ (\E h \in {"scan", "screen"} : TakeHold(h))
           \/ Cover \/ EndHold
  <2>1. AfcOutsideStep
    BY <1>3, Outside
  <2>2. moved' = moved /\ tuning' = tuning /\ est' = est
    BY <2>1 DEF AfcOutsideStep, afc
  <2>3. QED
    BY <2>2 DEF EvidenceOfTuning
<1>4. CASE UNCHANGED afcVars
  BY <1>4 DEF afcVars, control, afc, EvidenceOfTuning
<1>5. QED
  BY <1>1, <1>2, <1>3, <1>4, Cases

\* Only fresh measurements count: whoever retuned last, the control itself, a
\* command, a calibration or the end of one, the history the next decision is
\* taken from was measured at the present channel and offset.
THEOREM FreshEvidence == AfcSpec => []EvidenceOfTuning
<1>1. AfcInit => EvidenceOfTuning
  BY DEF AfcInit, EvidenceOfTuning
<1>2. QED
  BY <1>1, AfcInitIInv, AfcStepIInv, EvidenceStep, PTL DEF AfcSpec

-----------------------------------------------------------------------------
(* Where a lock is taken and where a correction leads: the median of a        *)
(* history lies where most of its estimates do.                              *)

\* An estimate is astray when its error is larger than that of the porch
\* frequency of a picture: another station, noise taken for sync.
Astray(x)  == Abs(x.v - Residual(x.at[1], x.at[2])) > NoiseMax
Astrays(e) == {i \in DOMAIN e : Astray(e[i])}

\* The history would outvote n more of them.
Outvoted(n) == 2 * (Cardinality(Astrays(est)) + n) < Samples

LEMMA NoiseIs == NoiseMax \in Nat
<1>1. PICK x \in PorchNoise : \A y \in PorchNoise : Abs(y) <= Abs(x)
  BY NoiseAssumption
<1>2. \E n \in {Abs(y) : y \in PorchNoise} : \A y \in PorchNoise : Abs(y) <= n
  BY <1>1
<1>3. NoiseMax \in {Abs(y) : y \in PorchNoise}
  BY <1>2 DEF NoiseMax
<1>4. PICK y \in PorchNoise : NoiseMax = Abs(y)
  BY <1>3
<1>5. y \in Int
  BY NoiseAssumption
<1>6. QED
  BY <1>4, <1>5 DEF Abs

LEMMA ResidualType ==
  ASSUME NEW c \in Channels, NEW o \in Int
  PROVE  Residual(c, o) \in Int
<1>1. Carrier[c] \in Int /\ (OffsetSign = 1 \/ OffsetSign = -1)
  BY CarrierAssumption, SignAssumption
<1>2. QED
  BY <1>1 DEF Residual

LEMMA MedianNear ==
  ASSUME NEW c \in Channels, NEW o \in Int, NEW e \in Histories,
         \A i \in DOMAIN e : e[i].at = <<c, o>>,
         2 * Cardinality(Astrays(e)) < Len(e)
  PROVE  MedianOf(e) \in Int /\ Abs(MedianOf(e) - Residual(c, o)) <= NoiseMax
<1> DEFINE s == Values(e)
           r == Residual(c, o)
           lo == r - NoiseMax
           hi == r + NoiseMax
<1>1. /\ s \in Seq(Int) /\ Len(s) = Len(e) /\ DOMAIN s = DOMAIN e
      /\ \A i \in DOMAIN e : s[i] = e[i].v /\ e[i].v \in Int
      /\ MedianOf(e) \in Int
  <2>1. \A i \in DOMAIN e : e[i].v \in Int
    BY ValuesType DEF Estimates
  <2>2. QED
    BY <2>1, ValuesType
<1>2. r \in Int /\ NoiseMax \in Nat /\ lo \in Int /\ hi \in Int
  <2>1. r \in Int /\ NoiseMax \in Nat
    BY ResidualType, NoiseIs
  <2> HIDE DEF r
  <2>2. QED
    BY <2>1
<1>3. Beyond(s, lo, hi) = Astrays(e)
  <2>1. ASSUME NEW i \in DOMAIN e PROVE Astray(e[i]) <=> ~(lo <= s[i] /\ s[i] <= hi)
    <3>1. Astray(e[i]) <=> Abs(s[i] - r) > NoiseMax
      BY <1>1 DEF Astray
    <3>2. s[i] \in Int
      BY <1>1
    <3> HIDE DEF s, r
    <3>3. QED
      BY <1>2, <3>1, <3>2 DEF Abs
  <2> HIDE DEF s, lo, hi
  <2>2. QED
    BY <1>1, <2>1 DEF Beyond, Astrays
<1> HIDE DEF lo, hi, s, r
<1>4. lo <= Median(s) /\ Median(s) <= hi
  BY <1>1, <1>2, <1>3, MedianWithin
<1>5. MedianOf(e) = Median(s)
  BY DEF MedianOf, s
<1>6. QED
  BY <1>1, <1>2, <1>4, <1>5 DEF Abs, lo, hi, r

LEMMA AstraysCounted ==
  ASSUME NEW e \in Histories
  PROVE  /\ Astrays(e) \in SUBSET (1 .. Len(e)) /\ Len(e) \in Nat
         /\ IsFiniteSet(Astrays(e)) /\ Cardinality(Astrays(e)) \in Nat
         /\ Cardinality(Astrays(e)) <= Len(e)
<1>1. Astrays(e) \in SUBSET (1 .. Len(e)) /\ Len(e) \in Nat
  BY ValuesType DEF Astrays
<1>2. QED
  BY <1>1, AfcCounted

\* One more estimate is at most one more astray.
LEMMA OneMore ==
  ASSUME NEW e \in Histories, NEW x \in Estimates
  PROVE  Cardinality(Astrays(Admit(e, x))) <= Cardinality(Astrays(e)) + 1
<1> DEFINE n == Len(e)
           f == Admit(e, x)
           A == Astrays(e)
           B == Astrays(f)
           U == A \cup {n + 1}
<1>1. e \in Seq(Estimates) /\ n \in Nat /\ DOMAIN e = 1 .. n /\ A \in SUBSET (1 .. n) /\ IsFiniteSet(A)
      /\ Cardinality(A) \in Nat /\ f \in Histories
  BY AstraysCounted, ValuesType, Admitted DEF Histories
<1>2. n + 1 \notin A
  BY <1>1
<1>3. IsFiniteSet(U) /\ Cardinality(U) = Cardinality(A) + 1
  BY <1>1, <1>2, FS_AddElement
<1>4. CASE Len(e) < Samples
  <2>1. f = Append(e, x)
    BY <1>4 DEF Admit
  <2>2. /\ \A i \in 1 .. n : f[i] = e[i]
        /\ DOMAIN f = 1 .. n + 1
    BY <1>1, <2>1, AppendProperties, LenProperties
  <2> HIDE DEF f, n
  <2>3. \A i \in 1 .. n + 1 : i = n + 1 \/ i \in 1 .. n
    BY <1>1
  <2>4. B \in SUBSET U
    BY <1>1, <2>2, <2>3 DEF Astrays
  <2>5. Cardinality(B) <= Cardinality(U)
    BY <1>3, <2>4, FS_Subset
  <2>6. QED
    BY <1>3, <2>5 DEF f
<1>5. CASE ~(Len(e) < Samples)
  <2>1. f = Append(Tail(e), x)
    BY <1>5 DEF Admit
  <2>2. n # 0 /\ e # << >>
    BY <1>1, <1>5, Limits
  <2>3. /\ Tail(e) \in Seq(Estimates) /\ Len(Tail(e)) = n - 1 /\ n - 1 \in Nat
        /\ \A i \in 1 .. n - 1 : Tail(e)[i] = e[i + 1]
    BY <1>1, <2>2, HeadTailProperties, LenProperties
  <2> DEFINE t == Tail(e)
  <2> HIDE DEF t
  <2>4. /\ \A i \in 1 .. n - 1 : f[i] = t[i]
        /\ DOMAIN f = 1 .. (n - 1) + 1
    <3>1. t \in Seq(Estimates) /\ Len(t) = n - 1
      BY <2>3 DEF t
    <3>2. /\ \A i \in 1 .. Len(t) : Append(t, x)[i] = t[i]
          /\ Len(Append(t, x)) = Len(t) + 1 /\ DOMAIN Append(t, x) = 1 .. Len(Append(t, x))
      BY <3>1, AppendProperties, LenProperties
    <3>3. QED
      BY <2>1, <3>1, <3>2 DEF t
  <2>5. DOMAIN f = 1 .. n /\ \A i \in 1 .. n : i # n => f[i] = e[i + 1] /\ i + 1 \in 1 .. n
    <3> HIDE DEF n
    <3>1. \A i \in 1 .. n : i # n => i \in 1 .. n - 1 /\ i + 1 \in 1 .. n
      BY <1>1
    <3>2. \A i \in 1 .. n - 1 : f[i] = e[i + 1]
      BY <2>3, <2>4 DEF t
    <3>3. 1 .. (n - 1) + 1 = 1 .. n
      BY <1>1
    <3>4. QED
      BY <2>4, <3>1, <3>2, <3>3
  <2> DEFINE g == [i \in B |-> i + 1]
  <2>6. g \in Injection(B, U)
    <3>1. ASSUME NEW i \in B PROVE i + 1 \in U /\ i \in Int
      <4>1. i \in 1 .. n /\ Astray(f[i])
        BY <2>5 DEF Astrays
      <4>2. i # n => i + 1 \in A
        BY <1>1, <2>5, <4>1 DEF Astrays
      <4> HIDE DEF n
      <4>3. i \in Int /\ (i = n => i + 1 = n + 1)
        BY <1>1, <4>1
      <4>4. QED
        BY <4>2, <4>3
    <3>2. g \in [B -> U]
      BY <3>1
    <3>3. \A i, j \in B : g[i] = g[j] => i = j
      BY <3>1
    <3> HIDE DEF g
    <3>4. QED
      BY <3>2, <3>3 DEF Injection, IsInjective
  <2>7. Cardinality(B) <= Cardinality(U)
    BY <1>3, <2>6, FS_Injection
  <2>8. QED
    BY <1>3, <2>7
<1>6. QED
  BY <1>4, <1>5

\* A tick that takes the lock or steps, and what it goes by.
LEMMA TickLocks ==
  ASSUME AfcIInv, EvidenceOfTuning, NEW w, NEW x \in Int, NEW m, NEW s, Tick(w, x, m, s), ~locked, locked'
  PROVE  /\ UNCHANGED tuning /\ est' \in Histories /\ \A i \in DOMAIN est' : est'[i].at = <<chan, offset>>
         /\ Len(est') >= Samples /\ Abs(MedianOf(est')) <= Deadband
<1> DEFINE e == Ready(w, x, m).est
<1>1. /\ locked' = Locks(w, x)
      /\ SetAfc(IF StepsNow(w, x, m, s) THEN Stepped(Ready(w, x, m)) ELSE Ready(w, x, m))
      /\ SetOffset(IF StepsNow(w, x, m, s)
                   THEN offset + Ready(w, x, m).sign * StepFor(MedianOf(e))
                   ELSE IF ~enabled THEN 0 ELSE offset)
      /\ chan' = chan
  BY Stages DEF Ended
<1>2. Locks(w, x)
  BY <1>1
<1>3. enabled /\ Valid(w) /\ CanLock(Ruled(w, x).est)
  <2>1. ~WasLocked
    BY DEF WasLocked
  <2>2. QED
    BY <1>2, <2>1 DEF Locks, LockNow
<1>4. ~StepsNow(w, x, m, s)
  BY <1>2 DEF StepsNow, Decides
<1>5. SetAfc(Ready(w, x, m)) /\ SetOffset(offset)
  BY <1>1, <1>3, <1>4
<1>6. Ready(w, x, m) \in AfcRec /\ e = Ruled(w, x).est /\ Fresh(w, x, e)
  BY ReadyType
<1>7. est' = e
  BY <1>5, <1>6, AfcIs
<1>8. offset' = offset
  <2>1. offset \in Offsets /\ offset \in Int
    BY Limits DEF AfcIInv, Offsets
  <2>2. Clamp(offset) = offset
    BY <2>1, ClampIs
  <2>3. QED
    BY <1>5, <2>2 DEF SetOffset
<1>9. e \in Histories /\ \A i \in DOMAIN e : e[i].at = tuning
  BY <1>6, FreshHere
<1>10. Len(e) >= Samples /\ Abs(MedianOf(e)) <= Deadband
  BY <1>3, <1>6 DEF CanLock, Stable
<1> HIDE DEF e
<1>11. QED
  BY <1>1, <1>7, <1>8, <1>9, <1>10 DEF tuning

LEMMA TickSteps ==
  ASSUME AfcIInv, EvidenceOfTuning, NEW w, NEW x \in Int, NEW m, NEW s, Tick(w, x, m, s), ownWrite'
  PROVE  \E e \in Histories :
           /\ \A i \in DOMAIN e : e[i].at = <<chan, offset>>
           /\ Cardinality(Astrays(e)) <= Cardinality(Astrays(est)) + 1
           /\ Len(e) >= Samples /\ Abs(MedianOf(e)) > Deadband
           /\ chan' = chan /\ offset' = Clamp(offset + sign' * StepFor(MedianOf(e)))
<1> DEFINE d == Ready(w, x, m)
           e == d.est
           y == Estimate(w, x)
<1>1. /\ ownWrite' = StepsNow(w, x, m, s)
      /\ SetAfc(IF StepsNow(w, x, m, s) THEN Stepped(d) ELSE d)
      /\ SetOffset(IF StepsNow(w, x, m, s) THEN offset + d.sign * StepFor(MedianOf(e))
                   ELSE IF ~enabled THEN 0 ELSE offset)
      /\ chan' = chan
  BY Stages DEF Ended
<1>2. d \in AfcRec /\ Fresh(w, x, e)
  BY ReadyType
<1>3. e \in Histories /\ \A i \in DOMAIN e : e[i].at = tuning
  BY <1>2, FreshHere
<1>4. StepsNow(w, x, m, s) /\ Steps(d, s)
  BY <1>1 DEF StepsNow
<1>5. Len(e) >= Samples /\ Abs(MedianOf(e)) > Deadband /\ d.corrections < MaxCorrections
  BY <1>4 DEF Steps, Stable
<1>6. sign' = d.sign
  <2>1. Stepped(d) \in AfcRec /\ Stepped(d).sign = d.sign
    BY <1>2, <1>5, SteppedType DEF AfcIInv
  <2>2. SetAfc(Stepped(d))
    BY <1>1, <1>4
  <2>3. QED
    BY <2>1, <2>2, AfcIs
<1>7. offset' = Clamp(offset + d.sign * StepFor(MedianOf(e)))
  BY <1>1, <1>4 DEF SetOffset
<1>8. Cardinality(Astrays(e)) <= Cardinality(Astrays(est)) + 1
  <2>1. est \in Histories /\ << >> \in Histories /\ y \in Estimates
    BY EstimateType, Zeros DEF AfcIInv, Old, AfcRec
  <2>2. Cardinality(Astrays(est)) \in Nat /\ Cardinality(Astrays(<< >>)) = 0
    <3>1. Cardinality(Astrays(<< >>)) \in Nat /\ Cardinality(Astrays(<< >>)) <= Len(<< >>) /\ Len(<< >>) = 0
      BY <2>1, AstraysCounted
    <3>2. Cardinality(Astrays(est)) \in Nat
      BY <2>1, AstraysCounted
    <3>3. QED
      BY <3>1, <3>2
  <2>3. Cardinality(Astrays(Admit(est, y))) <= Cardinality(Astrays(est)) + 1
    BY <2>1, OneMore
  <2>4. Cardinality(Astrays(Admit(<< >>, y))) <= 1
    BY <2>1, <2>2, OneMore
  <2>5. <<y>> = Admit(<< >>, y)
    <3>1. Append(<< >>, y) = <<y>>
      OBVIOUS
    <3>2. Len(<< >>) < Samples
      BY Limits
    <3>3. QED
      BY <3>1, <3>2 DEF Admit
  <2> HIDE DEF d, y
  <2>6. e \in {<< >>, est, Admit(est, y), Admit(<< >>, y)}
    BY <1>2, <2>5 DEF Fresh, y
  <2> HIDE DEF e
  <2>7. CASE e = << >>
    BY <2>2, <2>7
  <2>8. CASE e = est
    BY <2>2, <2>8
  <2>9. CASE e = Admit(est, y)
    BY <2>3, <2>9
  <2>10. CASE e = Admit(<< >>, y)
    <3>1. Admit(<< >>, y) \in Histories
      BY <2>1, <2>5, Admitted
    <3>2. Cardinality(Astrays(e)) \in Nat
      BY <2>10, <3>1, AstraysCounted
    <3>3. Cardinality(Astrays(e)) <= 1
      BY <2>4, <2>10
    <3>4. QED
      BY <2>2, <3>2, <3>3
  <2>11. QED
    BY <2>6, <2>7, <2>8, <2>9, <2>10
<1> HIDE DEF d
<1>9. QED
  BY <1>1, <1>3, <1>5, <1>6, <1>7, <1>8 DEF tuning

\* Only a tick takes the lock or steps.
LEMMA OnlyTicks ==
  ASSUME AfcIInv, [AfcNext]_afcVars, ~(GoodTick \/ BadTick)
  PROVE  locked' \in {locked, FALSE} /\ ownWrite' = ownWrite
<1>1. CASE ScanTick
  BY <1>1 DEF ScanTick
<1>2. CASE \/ \E c \in Channels : TuneTo(c)
           \/ Toggle \/ Restore \/ (\E h \in {"scan", "screen"} : TakeHold(h))
           \/ Cover \/ EndHold
  BY <1>2, Outside DEF AfcOutsideStep
<1>3. CASE UNCHANGED afcVars
  BY <1>3 DEF afcVars, control
<1>4. QED
  BY <1>1, <1>2, <1>3, Cases

\* Over a median close to the residual, a correction in the right direction
\* takes the receiver no further off.
LEMMA Closer ==
  ASSUME NEW r \in Int, NEW med \in Int, NEW n \in Nat, NEW u \in Int,
         Abs(med - r) <= n, 2 * n <= Deadband + 1, Abs(med) > Deadband,
         \/ 0 <= u /\ u <= StepFor(med)
         \/ u <= 0 /\ StepFor(med) <= u
  PROVE  Abs(r - u) <= Abs(r)
<1> DEFINE v == StepFor(med)
<1>1. v \in Int /\ Abs(v) <= Abs(med) /\ (med >= 0 => v >= 0) /\ (med <= 0 => v <= 0)
  BY StepForFacts
<1>2. (0 <= u /\ u <= v) \/ (u <= 0 /\ v <= u)
  OBVIOUS
<1> HIDE DEF v
<1>3. Deadband \in Nat
  BY Limits
<1>4. CASE med > 0
  BY <1>1, <1>2, <1>3, <1>4 DEF Abs
<1>5. CASE med <= 0
  BY <1>1, <1>2, <1>3, <1>5 DEF Abs
<1>6. QED
  BY <1>4, <1>5

\* As long as fewer than half of the estimates in the history are astray, the
\* lock is only taken with the receiver on the carrier, whatever retunes,
\* calibrations and fades came before.
THEOREM LocksCentred == AfcSpec /\ []Outvoted(0) => LockIsCentred
<1>1. AfcIInv /\ EvidenceOfTuning /\ Outvoted(0)' /\ [AfcNext]_afcVars
        => [~locked /\ locked' => Centred(NoiseMax)']_afcVars
  <2> SUFFICES ASSUME AfcIInv, EvidenceOfTuning, Outvoted(0)', [AfcNext]_afcVars, ~locked, locked'
               PROVE  Centred(NoiseMax)'
    OBVIOUS
  <2>1. GoodTick \/ BadTick
    BY OnlyTicks
  <2>2. PICK w \in Windows, x \in Int : TickBy(w, x)
    BY <2>1, TickOf
  <2>3. PICK m \in BOOLEAN, s \in BOOLEAN : Tick(w, x, m, s)
    BY <2>2 DEF TickBy
  <2> DEFINE e == est'
  <2>4. /\ UNCHANGED tuning /\ e \in Histories /\ \A i \in DOMAIN e : e[i].at = <<chan, offset>>
        /\ Len(e) >= Samples /\ Abs(MedianOf(e)) <= Deadband
    BY <2>3, TickLocks
  <2>5. 2 * Cardinality(Astrays(e)) < Len(e)
    <3>1. 2 * (Cardinality(Astrays(e)) + 0) < Samples
      BY DEF Outvoted, Astrays, Astray, Residual
    <3>2. Cardinality(Astrays(e)) \in Nat /\ Len(e) \in Nat /\ Samples \in Nat
      BY <2>4, AstraysCounted, Limits
    <3> HIDE DEF e
    <3>3. QED
      BY <2>4, <3>1, <3>2
  <2>6. chan \in Channels /\ offset \in Int
    BY Limits DEF AfcIInv, Offsets
  <2> HIDE DEF e
  <2>7. MedianOf(e) \in Int /\ Abs(MedianOf(e) - Residuals) <= NoiseMax
    BY <2>4, <2>5, <2>6, MedianNear DEF Residuals
  <2>8. Residuals' = Residuals
    BY <2>4 DEF Residuals, Residual, tuning
  <2>9. Abs(Residuals) <= Deadband + NoiseMax
    <3>1. Residuals \in Int /\ NoiseMax \in Nat /\ Deadband \in Nat
      BY <2>6, ResidualType, NoiseIs, Limits DEF Residuals
    <3>2. QED
      BY <2>4, <2>7, <3>1 DEF Abs
  <2>10. QED
    BY <2>8, <2>9 DEF Centred, Abs
<1>2. QED
  BY <1>1, AfcInitIInv, AfcStepIInv, FreshEvidence, PTL DEF AfcSpec, LockIsCentred

\* With estimates no worse than half the deadband, and one astray more than the
\* history holds still outvoted, a correction with the right sign never takes
\* the receiver further from the carrier, clamped or not.
THEOREM StepsCloser ==
  ASSUME 2 * NoiseMax <= Deadband + 1
  PROVE  AfcSpec /\ []Outvoted(1) => StepsConverge
<1>1. AfcIInv /\ EvidenceOfTuning /\ Outvoted(1) /\ [AfcNext]_afcVars
        => [~ownWrite /\ ownWrite' /\ sign' = OffsetSign => Abs(Residuals') <= Abs(Residuals)]_afcVars
  <2> SUFFICES ASSUME AfcIInv, EvidenceOfTuning, Outvoted(1), [AfcNext]_afcVars,
                      ~ownWrite, ownWrite', sign' = OffsetSign
               PROVE  Abs(Residuals') <= Abs(Residuals)
    OBVIOUS
  <2>1. GoodTick \/ BadTick
    BY OnlyTicks
  <2>2. PICK w \in Windows, x \in Int : TickBy(w, x)
    BY <2>1, TickOf
  <2>3. PICK m \in BOOLEAN, s \in BOOLEAN : Tick(w, x, m, s)
    BY <2>2 DEF TickBy
  <2>4. PICK e \in Histories :
           /\ \A i \in DOMAIN e : e[i].at = <<chan, offset>>
           /\ Cardinality(Astrays(e)) <= Cardinality(Astrays(est)) + 1
           /\ Len(e) >= Samples /\ Abs(MedianOf(e)) > Deadband
           /\ chan' = chan /\ offset' = Clamp(offset + sign' * StepFor(MedianOf(e)))
    BY <2>3, TickSteps
  <2>5. 2 * Cardinality(Astrays(e)) < Len(e)
    <3>1. 2 * (Cardinality(Astrays(est)) + 1) < Samples
      BY DEF Outvoted
    <3>2. est \in Histories
      BY DEF AfcIInv, Old, AfcRec
    <3>3. Cardinality(Astrays(e)) \in Nat /\ Cardinality(Astrays(est)) \in Nat /\ Len(e) \in Nat /\ Samples \in Nat
      BY <3>2, AstraysCounted, Limits
    <3>4. QED
      BY <2>4, <3>1, <3>3
  <2>6. chan \in Channels /\ offset \in Offsets /\ offset \in Int
    BY Limits DEF AfcIInv, Offsets
  <2> DEFINE med == MedianOf(e)
             v == StepFor(med)
             r == Residuals
             n == NoiseMax
             u == OffsetSign * (offset' - offset)
  <2>7. med \in Int /\ Abs(med - r) <= n
    BY <2>4, <2>5, <2>6, MedianNear DEF Residuals
  <2>8. v \in Int /\ r \in Int /\ n \in Nat /\ Carrier[chan] \in Int
    BY <2>6, <2>7, StepForFacts, ResidualType, NoiseIs, CarrierAssumption DEF Residuals
  <2>9. offset' = Clamp(offset + OffsetSign * v) /\ chan' = chan /\ Abs(med) > Deadband
    BY <2>4
  <2> HIDE DEF med, v, n
  <2>10. /\ OffsetSign = 1 => u = Clamp(offset + v) - offset /\ u \in Int
         /\ OffsetSign = -1 => u = offset - Clamp(offset - v) /\ u \in Int
    <3>1. offset + v \in Int /\ offset - v \in Int
      BY <2>6, <2>8
    <3>2. Clamp(offset + v) \in Int /\ Clamp(offset - v) \in Int
      BY <3>1, ClampIs, Limits DEF Offsets
    <3>3. OffsetSign = 1 => offset' = Clamp(offset + v)
      BY <2>6, <2>8, <2>9
    <3>4. OffsetSign = -1 => offset' = Clamp(offset - v)
      <4>1. offset + (-1) * v = offset - v
        BY <2>6, <2>8
      <4>2. QED
        BY <2>9, <4>1
    <3>5. QED
      BY <2>6, <3>2, <3>3, <3>4
  <2>11. /\ offset <= offset + v => (offset <= Clamp(offset + v) /\ Clamp(offset + v) <= offset + v)
         /\ offset + v <= offset => (offset + v <= Clamp(offset + v) /\ Clamp(offset + v) <= offset)
         /\ offset <= offset - v => (offset <= Clamp(offset - v) /\ Clamp(offset - v) <= offset - v)
         /\ offset - v <= offset => (offset - v <= Clamp(offset - v) /\ Clamp(offset - v) <= offset)
         /\ Clamp(offset + v) \in Offsets /\ Clamp(offset - v) \in Offsets
    <3>1. offset + v \in Int /\ offset - v \in Int
      BY <2>6, <2>8
    <3>2. QED
      BY <2>6, <3>1, ClampIs
  <2>12. u \in Int /\ ((0 <= u /\ u <= v) \/ (u <= 0 /\ v <= u))
    <3>1. Clamp(offset + v) \in Int /\ Clamp(offset - v) \in Int
      BY <2>11, Limits DEF Offsets
    <3>2. OffsetSign = 1 \/ OffsetSign = -1
      BY SignAssumption
    <3> HIDE DEF u
    <3>3. QED
      BY <2>6, <2>8, <2>10, <2>11, <3>1, <3>2
  <2>13. Residuals' = r - u
    <3>1. offset' \in Int
      BY <2>9, <2>10, <2>11, <2>6, <2>8, SignAssumption, Limits DEF Offsets
    <3>2. Residuals' = Carrier[chan] - OffsetSign * offset'
      BY <2>9 DEF Residuals, Residual
    <3>3. r = Carrier[chan] - OffsetSign * offset
      BY DEF Residuals, Residual
    <3>4. OffsetSign = 1 \/ OffsetSign = -1
      BY SignAssumption
    <3>5. QED
      BY <2>6, <2>8, <3>1, <3>2, <3>3, <3>4
  <2> HIDE DEF u, r
  <2>14. Abs(r - u) <= Abs(r)
    BY <2>7, <2>8, <2>9, <2>12, Closer DEF v, n
  <2>15. QED
    BY <2>13, <2>14 DEF r
<1>2. QED
  BY <1>1, AfcInitIInv, AfcStepIInv, FreshEvidence, PTL DEF AfcSpec, StepsConverge
=============================================================================
