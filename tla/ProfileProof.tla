---------------------------- MODULE ProfileProof ----------------------------
(***************************************************************************)
(* The receive profile for any channels, transmitters and calibrated       *)
(* filters: types, the filter is that of the profile, and a deviation      *)
(* belongs to its channel.  The last two rest on the calibration not being *)
(* overtaken by a command between a test and what rests on it (Mishaps     *)
(* without "gap").                                                         *)
(***************************************************************************)
EXTENDS Profile, NaturalsInduction, WellFoundedInduction, TLAPS

-----------------------------------------------------------------------------
(* The filter of the profile. *)

\* A place of the calibration task is inside the startup phase or not.
InStartup == {"owner", "sweep", "swept", "measure", "measuring", "commit", "end"}
PhaseOK == "pc" \in DOMAIN cal /\ (startup <=> cal.pc \in InStartup)

\* A switch in its restart has set the new filter and not yet the profile.
SwitchOK == switch # NoSwitch => filter = switch.to /\ active = switch.before

\* A sweep sets NORMAL under the profile that was left for it.
SweepOK == cal.pc = "sweep" => switch = NoSwitch /\ active = "default"

FilterInv == PhaseOK /\ FilterOfProfile /\ SwitchOK /\ SweepOK

LEMMA FilterInit == Init => FilterInv
  BY DEF Init, FilterInv, PhaseOK, FilterOfProfile, SwitchOK, SweepOK, InStartup, CalIdle

\* A live switch starts only outside the startup phase, from the filter of the profile.
LEMMA LiveApplyFilter ==
  ASSUME NEW p, NEW choose, LiveApply(p, choose), FilterOfProfile, switch = NoSwitch
  PROVE  \/ UNCHANGED <<filter, switch>>
         \/ ~startup /\ filter' = switch'.to /\ switch'.before = active /\ switch' # NoSwitch
<1>1. CASE UNCHANGED <<filter, switch>>
  BY <1>1
<1>2. CASE /\ p \notin {None, active} /\ ~Waits(p, choose)
           /\ filter' = p /\ switch' = [to |-> p, before |-> filter]
  BY <1>2 DEF Waits, FilterOfProfile, NoSwitch
<1>3. QED
  BY <1>1, <1>2 DEF LiveApply, Keeps, Begins

LEMMA ControlFilter ==
  ASSUME FilterInv, Control
  PROVE  FilterInv'
<1> USE DEF FilterInv
<1>1. UNCHANGED <<startup, cal>>
  BY DEF Control, Retry, Cycle, Batch, Restarted, task
<1>2. CASE Restarted
  BY <1>1, <1>2 DEF Restarted, SwitchOK, FilterOfProfile, PhaseOK, SweepOK
<1>3. CASE Cycle
  BY <1>1, <1>3 DEF Cycle, applied, SwitchOK, FilterOfProfile, PhaseOK, SweepOK
<1>4. CASE Retry \/ Batch
  <2>1. active' = active /\ switch = NoSwitch
    BY <1>4 DEF Retry, Batch, Observing
  <2>2. \/ UNCHANGED <<filter, switch>>
        \/ ~startup /\ filter' = switch'.to /\ switch'.before = active /\ switch' # NoSwitch
    <3>1. CASE Retry
      <4>1. LiveApply(pending, sel) \/ UNCHANGED <<filter, switch>>
        BY <3>1 DEF Retry, LiveApply, Keeps
      <4>2. QED
        BY <2>1, <4>1, LiveApplyFilter
    <3>2. CASE Batch
      <4>1. (\E p : LiveApply(p, sel)) \/ UNCHANGED <<filter, switch>>
        BY <3>2 DEF Batch, Decided
      <4>2. QED
        BY <2>1, <4>1, LiveApplyFilter
    <3>3. QED
      BY <1>4, <3>1, <3>2
  <2>3. QED
    BY <1>1, <2>1, <2>2 DEF SwitchOK, FilterOfProfile, PhaseOK, SweepOK, InStartup
<1>5. QED
  BY <1>2, <1>3, <1>4 DEF Control

LEMMA OperatorFilter ==
  ASSUME "gap" \notin Mishaps, FilterInv, Operator
  PROVE  FilterInv'
<1> USE DEF FilterInv
<1>1. switch = NoSwitch /\ cal.pc # "sweep" /\ filter = active
  BY DEF Operator, Retune, Select, SetLiveMode, OpenMenu, Calibrate, Command, Gap, FilterOfProfile
<1>2. \A p : SetProfile(p) => filter' = active'
  BY DEF SetProfile
<1>3. CASE \E c \in Channels : Retune(c)
  <2>1. UNCHANGED <<startup, cal, switch>> /\ (filter' = active' \/ UNCHANGED <<filter, active>>)
    BY <1>2, <1>3 DEF Retune, task, applied
  <2>2. QED
    BY <1>1, <2>1 DEF SwitchOK, FilterOfProfile, PhaseOK, SweepOK
<1>4. CASE Select
  <2>1. UNCHANGED <<startup, cal>>
    BY <1>4 DEF Select, task
  <2>2. CASE filter' = active' /\ UNCHANGED switch
    BY <1>1, <2>1, <2>2 DEF SwitchOK, FilterOfProfile, PhaseOK, SweepOK
  <2>3. CASE (\E p, choose : LiveApply(p, choose)) /\ UNCHANGED active
    <3>1. \/ UNCHANGED <<filter, switch>>
          \/ ~startup /\ filter' = switch'.to /\ switch'.before = active /\ switch' # NoSwitch
      BY <1>1, <2>3, LiveApplyFilter
    <3>2. QED
      BY <1>1, <2>1, <2>3, <3>1 DEF SwitchOK, FilterOfProfile, PhaseOK, SweepOK
  <2>4. QED
    BY <1>2, <1>4, <2>2, <2>3 DEF Select
<1>5. CASE SetLiveMode \/ OpenMenu
  BY <1>5 DEF SetLiveMode, OpenMenu, applied, task, SwitchOK, FilterOfProfile, PhaseOK, SweepOK
<1>6. CASE \E full \in BOOLEAN : Calibrate(full)
  BY <1>6 DEF Calibrate, applied, SwitchOK, FilterOfProfile, PhaseOK, SweepOK, InStartup
<1>7. QED
  BY <1>3, <1>4, <1>5, <1>6 DEF Operator

LEMMA CalibrationFilter ==
  ASSUME FilterInv, Calibration
  PROVE  FilterInv'
<1> USE DEF FilterInv
<1>1. CASE Leave
  BY <1>1 DEF Leave, Goto, SwitchOK, FilterOfProfile, PhaseOK, SweepOK, InStartup
<1>2. CASE Sweep
  BY <1>2 DEF Sweep, Goto, SwitchOK, FilterOfProfile, PhaseOK, SweepOK, InStartup
<1>3. CASE StartupBegin \/ OwnerBusy \/ Swept \/ MeasureSkip \/ Measure
  BY <1>3 DEF StartupBegin, OwnerBusy, Swept, MeasureSkip, Measure, Goto, applied, SwitchOK,
     FilterOfProfile, PhaseOK, SweepOK, InStartup
<1>4. CASE Measured \/ Commit \/ StartupEnd
  BY <1>4 DEF Measured, Commit, StartupEnd, Goto, applied, SwitchOK, FilterOfProfile, PhaseOK,
     SweepOK, InStartup
<1>5. CASE Begin \/ Resume
  <2>1. "pc" \in DOMAIN cal' /\ cal'.pc \in {"idle", "resume"} /\ ~startup
    <3>1. CASE Begin
      BY <3>1 DEF Begin, Goto, PhaseOK, InStartup
    <3>2. CASE Resume
      BY <3>2 DEF Resume, CalIdle, PhaseOK, InStartup
    <3>3. QED
      BY <1>5, <3>1, <3>2
  <2>2. UNCHANGED <<applied, switch, startup>>
    BY <1>5 DEF Begin, Resume
  <2>3. QED
    BY <2>1, <2>2 DEF applied, SwitchOK, FilterOfProfile, PhaseOK, SweepOK, InStartup
<1>6. QED
  BY <1>1, <1>2, <1>3, <1>4, <1>5 DEF Calibration

LEMMA FilterStep ==
  ASSUME "gap" \notin Mishaps
  PROVE  FilterInv /\ [Next]_vars => FilterInv'
<1> SUFFICES ASSUME FilterInv, [Next]_vars PROVE FilterInv'
  OBVIOUS
<1>1. CASE CloseMenu \/ Cooled \/ Around
  BY <1>1 DEF CloseMenu, Cooled, Around, AnotherVtx, Lock, LockLost, Unchanged, applied, task,
     FilterInv, SwitchOK, FilterOfProfile, PhaseOK, SweepOK
<1>2. CASE UNCHANGED vars
  BY <1>2 DEF vars, applied, task, FilterInv, SwitchOK, FilterOfProfile, PhaseOK, SweepOK
<1>3. QED
  BY <1>1, <1>2, ControlFilter, OperatorFilter, CalibrationFilter DEF Next

\* The filter that is set is that of the profile that is shown, whenever no
\* switch is in its restart (profile.c:77-79, 201-235).
THEOREM FilterMatches ==
  ASSUME "gap" \notin Mishaps
  PROVE  Spec => []FilterOfProfile
<1>1. FilterInv => FilterOfProfile
  BY DEF FilterInv
<1>2. QED
  BY <1>1, FilterInit, FilterStep, PTL DEF Spec

-----------------------------------------------------------------------------
(* The deviations of a channel. *)

LEMMA Least ==
  ASSUME NEW T \in SUBSET Nat, T # {}
  PROVE  \E x \in T : \A y \in T : x <= y
<1>1. PICK x \in T : \A y \in T : ~(<<y, x>> \in OpToRel(<, Nat))
  BY NatLessThanWellFounded, WFMin
<1>2. \A y \in T : ~(y < x)
  BY <1>1 DEF OpToRel
<1>3. QED
  BY <1>2

LEMMA Greatest ==
  ASSUME NEW T \in SUBSET (1 .. 400), T # {}
  PROVE  Max(T) \in T
<1> DEFINE U == {400 - x : x \in T}
<1>1. U \in SUBSET Nat /\ U # {}
  <2>1. \A x \in T : 400 - x \in Nat
    OBVIOUS
  <2>2. \A u \in U : u \in Nat
    BY <2>1
  <2>3. PICK x \in T : 400 - x \in U
    OBVIOUS
  <2>4. QED
    BY <2>2, <2>3
<1> HIDE DEF U
<1>2. PICK u \in U : \A v \in U : u <= v
  BY <1>1, Least
<1>3. PICK x \in T : u = 400 - x
  BY DEF U
<1>4. ASSUME NEW y \in T PROVE x >= y
  <2>1. 400 - y \in U
    BY DEF U
  <2>2. QED
    BY <1>2, <1>3, <2>1
<1>5. QED
  BY <1>4 DEF Max

\* A result is one of the medians it comes from.
LEMMA ResultOf ==
  ASSUME NEW C \in SUBSET (1 .. 400), NEW s \in Seq(C), s # <<>>
  PROVE  Result(s) \in {0} \cup C
<1> DEFINE all == {s[i] : i \in DOMAIN s}
<1>1. all \in SUBSET C /\ all # {}
  <2>1. Len(s) \in Nat /\ Len(s) # 0 /\ DOMAIN s = 1 .. Len(s)
    OBVIOUS
  <2>2. \A i \in 1 .. Len(s) : s[i] \in C
    OBVIOUS
  <2>3. 1 \in DOMAIN s
    BY <2>1
  <2>4. QED
    BY <2>1, <2>2, <2>3
<1> HIDE DEF all
<1>2. Max(all) \in C
  BY <1>1, Greatest
<1>3. QED
  BY <1>2 DEF Result, all

LEMMA AppendOf ==
  ASSUME NEW C, NEW s \in Seq(C), NEW e \in C
  PROVE  Append(s, e) \in Seq(C) /\ Append(s, e) # <<>>
<1>1. Append(s, e) \in Seq(C)
  OBVIOUS
<1>2. Len(Append(s, e)) = Len(s) + 1 /\ Len(s) \in Nat /\ Len(<<>>) = 0
  OBVIOUS
<1>3. QED
  BY <1>1, <1>2

Classes(c) == {None} \cup {Class(dev) : dev \in Carried[c]}

\* What a measurement holds belongs to the channel c.
Of(c) == est.medians \in Seq(Carried[c]) /\ est.result \in {0} \cup Carried[c]

RadioOK ==
  /\ ch \in Channels
  /\ DOMAIN vtx = Channels /\ \A c \in Channels : vtx[c] \in Carried[c]
  /\ DOMAIN table = Channels /\ \A c \in Channels : table[c] \in {0} \cup Carried[c]

ShapeOK ==
  /\ DOMAIN est = {"medians", "result"} /\ DOMAIN mon = {"collecting", "agree", "want"}
  /\ DOMAIN cal = {"pc", "full", "ch", "dev"}
  /\ measuring \in {"off", "startup", "live"}

\* A measurement that counts holds deviations of the present channel only.
HeldOK ==
  /\ measuring = "startup" \/ LiveHere => Of(ch)
  /\ LiveHere => mon.want \in Classes(ch)

\* The calibration measures, commits and resumes with the channel it began on.
TaskOK ==
  /\ measuring = "startup" => cal.pc = "measuring"
  /\ cal.pc = "measuring" => measuring \in {"startup", "off"} /\ (measuring = "off" => est.result = 0)
  /\ cal.pc = "commit" => measuring = "off" /\ cal.dev \in Carried[ch]
  /\ cal.pc = "resume" => measuring = "off" /\ est = FreshEst /\ cal.ch = ch

LocalInv == PhaseOK /\ RadioOK /\ ShapeOK /\ HeldOK /\ TaskOK

LEMMA CarriedOf == ASSUME NEW c \in Channels PROVE Carried[c] \in SUBSET (1 .. 400) /\ 0 \notin Carried[c]
<1>1. Carried[c] \in SUBSET (1 .. 400)
  BY CarriedAssumption
<1>2. QED
  BY <1>1

LEMMA FreshOf == ASSUME est = FreshEst, NEW c PROVE Of(c)
  BY DEF FreshEst, Of

LEMMA LocalInit == Init => LocalInv
<1> SUFFICES ASSUME Init PROVE LocalInv
  OBVIOUS
<1>1. PhaseOK
  BY DEF Init, PhaseOK, InStartup, CalIdle
<1>2. RadioOK
  BY DEF Init, RadioOK
<1>3. ShapeOK
  BY DEF Init, ShapeOK, CalIdle, FreshEst, FreshMon
<1>4. HeldOK
  <2>1. Of(ch)
    BY FreshOf DEF Init
  <2>2. mon.want = None
    BY DEF Init, FreshMon
  <2>3. QED
    BY <2>1, <2>2 DEF HeldOK, Classes
<1>5. TaskOK
  BY DEF Init, TaskOK, CalIdle
<1>6. QED
  BY <1>1, <1>2, <1>3, <1>4, <1>5 DEF LocalInv

\* What changes neither the receiver nor the measurement nor the task.
LEMMA LocalStays ==
  ASSUME LocalInv, UNCHANGED <<ch, vtx, measure, startup, cal>>
  PROVE  LocalInv'
<1>1. PhaseOK' /\ RadioOK' /\ ShapeOK'
  BY DEF LocalInv, PhaseOK, RadioOK, ShapeOK, measure
<1>2. HeldOK' /\ TaskOK'
  BY DEF LocalInv, HeldOK, TaskOK, LiveHere, Of, measure
<1>3. QED
  BY <1>1, <1>2 DEF LocalInv

LEMMA CycleLocal ==
  ASSUME LocalInv, Cycle
  PROVE  LocalInv'
<1> USE DEF LocalInv
<1>1. UNCHANGED <<ch, vtx, measuring, liveCh, table, startup, cal>> /\ est' = FreshEst /\ measuring = "live"
  BY DEF Cycle, radio, task, LiveHere
<1>2. mon'.want = mon.want /\ DOMAIN mon' = DOMAIN mon
  BY DEF Cycle, ShapeOK
<1>3. PhaseOK' /\ RadioOK' /\ ShapeOK'
  BY <1>1, <1>2 DEF PhaseOK, RadioOK, ShapeOK, FreshEst
<1>4. HeldOK'
  <2>1. (est.medians)' = <<>> /\ (est.result)' = 0
    BY <1>1 DEF FreshEst
  <2>2. QED
    BY <1>1, <1>2, <2>1 DEF HeldOK, LiveHere, Of
<1>5. TaskOK'
  BY <1>1 DEF TaskOK
<1>6. QED
  BY <1>3, <1>4, <1>5

LEMMA BatchLocal ==
  ASSUME LocalInv, Batch
  PROVE  LocalInv'
<1> USE DEF LocalInv
<1> DEFINE medians == Append(est.medians, vtx[ch])
           result  == Result(medians)
<1>1. UNCHANGED <<ch, vtx, measuring, liveCh, startup, cal>> /\ measuring \in {"startup", "live"}
  BY DEF Batch, radio, task, Observing, ShapeOK
<1>2. measuring = "live" => LiveHere
  BY DEF Batch, LiveHere
<1>3. Of(ch) /\ ch \in Channels /\ vtx[ch] \in Carried[ch]
  BY <1>1, <1>2 DEF HeldOK, RadioOK
<1>4. medians \in Seq(Carried[ch]) /\ medians # <<>>
  <2>1. est.medians \in Seq(Carried[ch])
    BY <1>3 DEF Of
  <2>2. QED
    BY <1>3, <2>1, AppendOf
<1>5. result \in {0} \cup Carried[ch]
  BY <1>3, <1>4, CarriedOf, ResultOf
<1>6. /\ est' = IF Len(medians) < Batches THEN [est EXCEPT !.medians = medians]
                ELSE [medians |-> <<>>, result |-> result]
      /\ \/ UNCHANGED <<mon, table>>
         \/ (est.result)' # 0 /\ measuring = "live" /\ Decided(result)
      /\ est.result = 0
  BY DEF Batch
<1> HIDE DEF medians, result
<1>7. DOMAIN est' = DOMAIN est /\ Of(ch)' /\ ((est.result)' # 0 => (est.result)' = result)
  <2>1. CASE est' = [est EXCEPT !.medians = medians]
    BY <1>1, <1>3, <1>4, <1>6, <2>1 DEF Of, ShapeOK
  <2>2. CASE est' = [medians |-> <<>>, result |-> result]
    BY <1>1, <1>5, <2>2 DEF Of, ShapeOK
  <2>3. QED
    BY <1>6, <2>1, <2>2
<1>8. CASE UNCHANGED <<mon, table>>
  <2>1. PhaseOK' /\ RadioOK' /\ ShapeOK'
    BY <1>1, <1>7, <1>8 DEF PhaseOK, RadioOK, ShapeOK
  <2>2. HeldOK'
    BY <1>1, <1>2, <1>7, <1>8 DEF HeldOK, LiveHere
  <2>3. TaskOK'
    BY <1>1 DEF TaskOK
  <2>4. QED
    BY <2>1, <2>2, <2>3
<1>9. CASE (est.result)' # 0 /\ measuring = "live" /\ Decided(result)
  <2>1. result \in Carried[ch]
    BY <1>5, <1>7, <1>9
  <2>2. /\ DOMAIN mon' = {"collecting", "agree", "want"} /\ mon'.want = Class(result)
        /\ table' = table \/ table' = [table EXCEPT ![ch] = result]
    BY <1>9 DEF Decided
  <2>3. RadioOK'
    BY <1>1, <2>1, <2>2 DEF RadioOK
  <2>4. PhaseOK' /\ ShapeOK'
    BY <1>1, <1>7, <2>2 DEF PhaseOK, ShapeOK
  <2>5. HeldOK'
    <3>1. mon'.want \in Classes(ch)
      BY <2>1, <2>2 DEF Classes
    <3>2. QED
      BY <1>1, <1>7, <3>1 DEF HeldOK, LiveHere
  <2>6. TaskOK'
    BY <1>1, <1>9 DEF TaskOK
  <2>7. QED
    BY <2>3, <2>4, <2>5, <2>6
<1>10. QED
  BY <1>6, <1>8, <1>9

LEMMA RetuneLocal ==
  ASSUME "gap" \notin Mishaps, LocalInv, NEW c \in Channels, Retune(c)
  PROVE  LocalInv'
<1> USE DEF LocalInv
<1>1. /\ cal.pc \notin {"commit", "resume"} /\ (measuring = "startup" => est.result = 0)
      /\ ch' = c /\ UNCHANGED <<vtx, table, startup, cal>> /\ LiveBegin(c)
  BY DEF Retune, Command, Gap, task
<1>2. PhaseOK' /\ RadioOK'
  BY <1>1 DEF PhaseOK, RadioOK
<1>3. CASE startup
  <2>1. measuring' = "off" /\ UNCHANGED <<est, mon>>
    BY <1>1, <1>3 DEF LiveBegin
  <2>2. HeldOK' /\ ShapeOK'
    BY <1>1, <2>1 DEF HeldOK, LiveHere, ShapeOK
  <2>3. TaskOK'
    BY <1>1, <2>1 DEF TaskOK
  <2>4. QED
    BY <1>2, <2>2, <2>3
<1>4. CASE ~startup
  <2>1. measuring' = "live" /\ liveCh' = c /\ est' = FreshEst /\ mon' = FreshMon
    BY <1>1, <1>4 DEF LiveBegin
  <2>2. ShapeOK'
    BY <1>1, <2>1 DEF ShapeOK, FreshEst, FreshMon
  <2>3. HeldOK'
    <3>1. (est.medians)' = <<>> /\ (est.result)' = 0 /\ (mon.want)' = None
      BY <2>1 DEF FreshEst, FreshMon
    <3>2. QED
      BY <3>1 DEF HeldOK, Of, Classes
  <2>4. TaskOK'
    BY <1>1, <1>4, <2>1 DEF TaskOK, PhaseOK, InStartup
  <2>5. QED
    BY <1>2, <2>2, <2>3, <2>4
<1>5. QED
  BY <1>3, <1>4

\* The calibration moves on without touching what was measured.
LEMMA MoveLocal ==
  ASSUME LocalInv, UNCHANGED <<ch, vtx, measuring, liveCh, est, mon, table>>, PhaseOK',
         DOMAIN cal' = {"pc", "full", "ch", "dev"},
         cal.pc # "measuring", cal'.pc \notin {"measuring", "commit", "resume"}
  PROVE  LocalInv'
<1>1. RadioOK' /\ ShapeOK'
  BY DEF LocalInv, RadioOK, ShapeOK
<1>2. HeldOK'
  BY DEF LocalInv, HeldOK, LiveHere, Of
<1>3. TaskOK'
  BY DEF LocalInv, TaskOK
<1>4. QED
  BY <1>1, <1>2, <1>3 DEF LocalInv

LEMMA CalibrationLocal ==
  ASSUME LocalInv, Calibration
  PROVE  LocalInv'
<1> USE DEF LocalInv
<1>1. CASE StartupBegin \/ OwnerBusy \/ Leave \/ MeasureSkip
  <2>1. PhaseOK' /\ DOMAIN cal' = {"pc", "full", "ch", "dev"} /\ cal.pc # "measuring"
        /\ cal'.pc \notin {"measuring", "commit", "resume"}
    BY <1>1 DEF StartupBegin, OwnerBusy, Leave, MeasureSkip, Goto, PhaseOK, InStartup, ShapeOK
  <2>2. UNCHANGED <<ch, vtx, measuring, liveCh, est, mon, table>>
    BY <1>1 DEF StartupBegin, OwnerBusy, Leave, MeasureSkip, radio, measure
  <2>3. QED
    BY <2>1, <2>2, MoveLocal
<1>2. CASE Sweep \/ Swept \/ StartupEnd
  <2>1. PhaseOK' /\ DOMAIN cal' = {"pc", "full", "ch", "dev"} /\ cal.pc # "measuring"
        /\ cal'.pc \notin {"measuring", "commit", "resume"}
    BY <1>2 DEF Sweep, Swept, StartupEnd, Goto, PhaseOK, InStartup, ShapeOK
  <2>2. UNCHANGED <<ch, vtx, measuring, liveCh, est, mon, table>>
    BY <1>2 DEF Sweep, Swept, StartupEnd, radio, measure
  <2>3. QED
    BY <2>1, <2>2, MoveLocal
<1>3. CASE Measure
  <2>1. /\ measuring' = "startup" /\ est' = FreshEst /\ cal'.pc = "measuring" /\ cal.pc = "measure"
        /\ DOMAIN cal' = DOMAIN cal /\ UNCHANGED <<ch, vtx, liveCh, mon, table, startup>>
    BY <1>3 DEF Measure, Goto, ShapeOK, radio
  <2>2. PhaseOK' /\ RadioOK' /\ ShapeOK'
    BY <2>1 DEF PhaseOK, InStartup, RadioOK, ShapeOK, FreshEst
  <2>3. HeldOK' /\ TaskOK'
    <3>1. (est.medians)' = <<>> /\ (est.result)' = 0
      BY <2>1 DEF FreshEst
    <3>2. QED
      BY <2>1, <3>1 DEF HeldOK, LiveHere, Of, TaskOK
  <2>4. QED
    BY <2>2, <2>3
<1>4. CASE Measured
  <2>1. /\ measuring' = "off" /\ UNCHANGED <<ch, vtx, liveCh, est, mon, table, startup>>
        /\ DOMAIN cal' = DOMAIN cal /\ cal.pc = "measuring" /\ cal'.dev = est.result
        /\ cal'.pc = IF est.result # 0 THEN "commit" ELSE "end"
    BY <1>4 DEF Measured, ShapeOK, radio
  <2>2. est.result # 0 => est.result \in Carried[ch]
    BY <2>1 DEF TaskOK, HeldOK, Of
  <2>3. PhaseOK' /\ RadioOK' /\ ShapeOK'
    BY <2>1 DEF PhaseOK, InStartup, RadioOK, ShapeOK
  <2>4. HeldOK' /\ TaskOK'
    BY <2>1, <2>2 DEF HeldOK, LiveHere, TaskOK
  <2>5. QED
    BY <2>3, <2>4
<1>5. CASE Commit
  <2>1. /\ UNCHANGED <<ch, vtx, measuring, est, mon, startup>> /\ measuring = "off"
        /\ table' = [table EXCEPT ![ch] = cal.dev] /\ cal.dev \in Carried[ch]
        /\ DOMAIN cal' = DOMAIN cal /\ cal.pc = "commit" /\ cal'.pc = "end"
    BY <1>5 DEF Commit, ShapeOK, TaskOK, radio
  <2>2. PhaseOK' /\ RadioOK' /\ ShapeOK'
    BY <2>1 DEF PhaseOK, InStartup, RadioOK, ShapeOK
  <2>3. HeldOK' /\ TaskOK'
    BY <2>1 DEF HeldOK, LiveHere, TaskOK
  <2>4. QED
    BY <2>2, <2>3
<1>6. CASE Begin
  <2>1. UNCHANGED <<ch, vtx, liveCh, mon, table, startup>> /\ cal.pc = "begin"
    BY <1>6 DEF Begin, radio
  <2>2. CASE measuring = "live" /\ liveCh = ch
    <3>1. cal' = [cal EXCEPT !.pc = "idle"] /\ UNCHANGED <<measuring, est>>
      BY <1>6, <2>2 DEF Begin, Goto
    <3>2. PhaseOK' /\ DOMAIN cal' = {"pc", "full", "ch", "dev"} /\ cal'.pc = "idle"
      BY <2>1, <3>1 DEF PhaseOK, InStartup, ShapeOK
    <3>3. QED
      BY <2>1, <3>1, <3>2, MoveLocal
  <2>3. CASE ~(measuring = "live" /\ liveCh = ch)
    <3>1. measuring' = "off" /\ est' = FreshEst /\ cal' = [cal EXCEPT !.pc = "resume", !.ch = ch]
      BY <1>6, <2>3 DEF Begin
    <3>2. DOMAIN cal' = DOMAIN cal /\ cal'.pc = "resume" /\ cal'.ch = ch
      BY <3>1 DEF ShapeOK
    <3>3. PhaseOK' /\ RadioOK' /\ ShapeOK'
      BY <2>1, <3>1, <3>2 DEF PhaseOK, InStartup, RadioOK, ShapeOK, FreshEst
    <3>4. HeldOK' /\ TaskOK'
      BY <2>1, <3>1, <3>2 DEF HeldOK, LiveHere, TaskOK, FreshEst
    <3>5. QED
      BY <3>3, <3>4
  <2>4. QED
    BY <2>2, <2>3
<1>7. CASE Resume
  <2>1. /\ UNCHANGED <<ch, vtx, est, table, startup>> /\ mon' = FreshMon
        /\ measuring' = "live" /\ cal' = CalIdle /\ cal.pc = "resume" /\ est = FreshEst
    BY <1>7 DEF Resume, TaskOK, radio
  <2>2. PhaseOK' /\ RadioOK' /\ ShapeOK'
    BY <2>1 DEF PhaseOK, InStartup, RadioOK, ShapeOK, CalIdle, FreshMon
  <2>3. HeldOK'
    <3>1. (est.medians)' = <<>> /\ (est.result)' = 0 /\ (mon.want)' = None
      BY <2>1 DEF FreshEst, FreshMon
    <3>2. QED
      BY <3>1 DEF HeldOK, Of, Classes
  <2>4. TaskOK'
    BY <2>1 DEF TaskOK, CalIdle
  <2>5. QED
    BY <2>2, <2>3, <2>4
<1>8. QED
  BY <1>1, <1>2, <1>3, <1>4, <1>5, <1>6, <1>7 DEF Calibration

LEMMA AnotherLocal ==
  ASSUME LocalInv, AnotherVtx
  PROVE  LocalInv'
<1> USE DEF LocalInv
<1>1. UNCHANGED <<ch, measure, startup, cal>>
  BY DEF AnotherVtx, Unchanged, task
<1>2. PICK dev \in Carried[ch] : vtx' = [vtx EXCEPT ![ch] = dev]
  BY DEF AnotherVtx
<1>3. PhaseOK' /\ RadioOK' /\ ShapeOK'
  BY <1>1, <1>2 DEF PhaseOK, RadioOK, ShapeOK, measure
<1>4. HeldOK' /\ TaskOK'
  BY <1>1 DEF HeldOK, LiveHere, Of, TaskOK, measure
<1>5. QED
  BY <1>3, <1>4

LEMMA LocalStep ==
  ASSUME "gap" \notin Mishaps
  PROVE  LocalInv /\ [Next]_vars => LocalInv'
<1> SUFFICES ASSUME LocalInv, [Next]_vars PROVE LocalInv'
  OBVIOUS
<1>1. CASE Retry \/ Restarted \/ Select \/ SetLiveMode \/ OpenMenu \/ CloseMenu \/ Cooled \/ UNCHANGED vars
  <2>1. UNCHANGED <<ch, vtx, measure, startup, cal>>
    BY <1>1 DEF Retry, Restarted, Select, SetLiveMode, OpenMenu, CloseMenu, Cooled, vars, radio, task
  <2>2. QED
    BY <2>1, LocalStays
<1>2. CASE Lock \/ LockLost
  <2>1. UNCHANGED <<ch, vtx, measure, startup, cal>>
    BY <1>2 DEF Lock, LockLost, Unchanged, task
  <2>2. QED
    BY <2>1, LocalStays
<1>3. CASE \E full \in BOOLEAN : Calibrate(full)
  <2>1. UNCHANGED <<ch, vtx, measuring, liveCh, est, mon, table, startup>> /\ cal.pc = "idle"
    BY <1>3 DEF Calibrate, radio, measure
  <2>2. DOMAIN cal' = {"pc", "full", "ch", "dev"} /\ cal'.pc = "requested"
    BY <1>3 DEF Calibrate, LocalInv, ShapeOK
  <2>3. PhaseOK'
    BY <2>1, <2>2 DEF LocalInv, PhaseOK, InStartup
  <2>4. QED
    BY <2>1, <2>2, <2>3, MoveLocal
<1>4. QED
  BY <1>1, <1>2, <1>3, CycleLocal, BatchLocal, RetuneLocal, CalibrationLocal, AnotherLocal
     DEF Next, Control, Operator, Around

\* What is measured and stored for a channel comes from that channel
\* (profile.c:149-151, 318-327).
THEOREM LocalDeviations ==
  ASSUME "gap" \notin Mishaps
  PROVE  Spec => []DeviationsAreLocal
<1>1. LocalInv => DeviationsAreLocal
  <2> SUFFICES ASSUME LocalInv PROVE DeviationsAreLocal
    OBVIOUS
  <2>1. measuring = "startup" \/ LiveHere =>
          /\ \A i \in DOMAIN est.medians : est.medians[i] \in Carried[ch]
          /\ est.result \in {0} \cup Carried[ch]
    BY DEF LocalInv, HeldOK, Of
  <2>2. (measuring = "startup" \/ LiveHere) /\ measuring = "live" =>
          mon.want \in {None} \cup {Class(dev) : dev \in Carried[ch]}
    BY DEF LocalInv, HeldOK, Classes
  <2>3. \A c \in Channels : table[c] \in {0} \cup Carried[c]
    BY DEF LocalInv, RadioOK
  <2>4. QED
    BY <2>1, <2>2, <2>3 DEF DeviationsAreLocal
<1>2. QED
  BY <1>1, LocalInit, LocalStep, PTL DEF Spec

-----------------------------------------------------------------------------
(* Types. *)

LEMMA ProfileNames ==
  /\ Profiles = {"xnarrow", "narrow", "default", "wide"}
  /\ Calibrated \subseteq Profiles /\ "default" \in Profiles
  /\ None \notin Profiles /\ SelectAuto \notin Profiles /\ SelectAuto # None
<1>1. Profiles = {"xnarrow", "narrow", "default", "wide"}
  BY DEF Profiles, Rank
<1>2. QED
  BY <1>1, CalibratedAssumption DEF None, SelectAuto

LEMMA DeviationsOf ==
  /\ Deviations \in SUBSET (1 .. 400)
  /\ \A c \in Channels : Carried[c] \subseteq Deviations
<1>1. \A c \in Channels : Carried[c] \in SUBSET (1 .. 400)
  BY CarriedAssumption
<1>2. QED
  BY <1>1 DEF Deviations

LEMMA ClassType == ASSUME NEW dev PROVE Class(dev) \in Profiles
  BY ProfileNames DEF Class

\* From any choice the cycle comes back to AUTO, so there is a next one.
LEMMA NextSelectType ==
  ASSUME sel \in {SelectAuto} \cup Profiles
  PROVE  NextSelect \in {SelectAuto} \cup Profiles
<1> DEFINE at == CHOOSE i \in 1 .. 5 : Order[i] = sel
           Step(k) == Order[((at + k - 1) % 5) + 1]
           allowed == {k \in 1 .. 5 : Step(k) = SelectAuto \/ Selectable(Step(k))}
<1>1. at \in 1 .. 5
  <2>1. \E i \in 1 .. 5 : Order[i] = sel
    BY ProfileNames DEF Order
  <2>2. QED
    BY <2>1
<1> HIDE DEF at
<1>2. \E k \in 1 .. 5 : ((at + k - 1) % 5) + 1 = 1
  <2>1. CASE at = 1
    BY <2>1
  <2>2. CASE at = 2
    BY <2>2
  <2>3. CASE at = 3
    BY <2>3
  <2>4. CASE at = 4
    BY <2>4
  <2>5. CASE at = 5
    BY <2>5
  <2>6. QED
    BY <1>1, <2>1, <2>2, <2>3, <2>4, <2>5
<1>3. allowed \in SUBSET Nat /\ allowed # {}
  <2>1. PICK k \in 1 .. 5 : ((at + k - 1) % 5) + 1 = 1
    BY <1>2
  <2>2. Step(k) = SelectAuto
    BY <2>1 DEF Order
  <2>3. k \in allowed
    BY <2>1, <2>2
  <2>4. allowed \in SUBSET Nat
    OBVIOUS
  <2> HIDE DEF allowed
  <2>5. QED
    BY <2>3, <2>4
<1>4. Min(allowed) \in 1 .. 5
  <2> HIDE DEF allowed
  <2>1. Min(allowed) \in allowed
    BY <1>3, Least DEF Min
  <2>2. QED
    BY <2>1 DEF allowed
<1>5. \A k \in 1 .. 5 : ((at + k - 1) % 5) + 1 \in 1 .. 5
  BY <1>1
<1>6. \A i \in 1 .. 5 : Order[i] \in {SelectAuto} \cup Profiles
  BY ProfileNames DEF Order
<1>7. QED
  BY <1>4, <1>5, <1>6 DEF NextSelect, at

\* The parts of TypeOK.
RadioType == ch \in Channels /\ vtx \in [Channels -> Deviations] /\ locked \in BOOLEAN /\ ready \subseteq Channels
ChoiceType ==
  /\ active \in Profiles /\ filter \in Profiles
  /\ sel \in {SelectAuto} \cup Profiles /\ pending \in {None} \cup Profiles
  /\ liveMode \in BOOLEAN /\ menu \in BOOLEAN /\ cool \in BOOLEAN
  /\ startup \in BOOLEAN /\ status \in BOOLEAN
MeasureType ==
  /\ measuring \in {"off", "startup", "live"} /\ liveCh \in {None} \cup Channels
  /\ est \in [medians : Seq(Deviations), result : {0} \cup Deviations]
  /\ mon \in [collecting : BOOLEAN, agree : 0 .. NarrowAgree, want : {None} \cup Profiles]
  /\ table \in [Channels -> {0} \cup Deviations]
\* A switch in its restart has both its profiles.
SwitchType == switch = NoSwitch \/ switch \in [to : Profiles, before : Profiles]
TaskType ==
  cal \in [pc : {"idle", "requested", "owner", "sweep", "swept", "measure", "measuring", "commit",
                 "end", "begin", "resume"},
           full : BOOLEAN, ch : {None} \cup Channels, dev : {0} \cup Deviations]
BoundType == ops \in Nat /\ changes \in Nat /\ faults \in Nat

TypeInv == RadioType /\ ChoiceType /\ MeasureType /\ SwitchType /\ TaskType /\ BoundType

LEMMA TypeParts == TypeInv => TypeOK
  BY DEF TypeInv, TypeOK, RadioType, ChoiceType, MeasureType, SwitchType, TaskType, BoundType, NoSwitch

LEMMA Fresh ==
  /\ FreshEst \in [medians : Seq(Deviations), result : {0} \cup Deviations]
  /\ FreshMon \in [collecting : BOOLEAN, agree : 0 .. NarrowAgree, want : {None} \cup Profiles]
  BY EstimatorAssumption DEF FreshEst, FreshMon

LEMMA TypeInit == Init => TypeInv
<1> SUFFICES ASSUME Init PROVE TypeInv
  OBVIOUS
<1>1. RadioType
  BY DEF Init, RadioType, Deviations
<1>2. ChoiceType
  BY ProfileNames DEF Init, ChoiceType
<1>3. MeasureType
  BY Fresh DEF Init, MeasureType
<1>4. SwitchType /\ TaskType
  BY DEF Init, SwitchType, TaskType, NoSwitch, CalIdle
<1>5. BoundType
  BY BoundAssumption DEF Init, BoundType
<1>6. QED
  BY <1>1, <1>2, <1>3, <1>4, <1>5 DEF TypeInv

LEMMA FaultType ==
  ASSUME faults \in Nat, NEW kind, Fault(kind)
  PROVE  faults' \in Nat
  BY DEF Fault

LEMMA SetProfileType ==
  ASSUME faults \in Nat, NEW p \in Profiles, SetProfile(p)
  PROVE  active' \in Profiles /\ filter' \in Profiles /\ faults' \in Nat
  BY ProfileNames, FaultType DEF SetProfile

LEMMA LiveApplyType ==
  ASSUME TypeInv, NEW p \in {None} \cup Profiles, NEW choose, LiveApply(p, choose)
  PROVE  pending' \in {None} \cup Profiles /\ filter' \in Profiles /\ SwitchType' /\ faults' \in Nat
<1>1. CASE pending' \in {None, p} /\ UNCHANGED <<filter, switch, faults>>
  BY <1>1 DEF TypeInv, SwitchType, ChoiceType, BoundType
<1>2. CASE Begins(p) /\ p # None
  <2>1. pending' = None /\ faults' \in Nat
    BY <1>2, FaultType DEF Begins, TypeInv, BoundType
  <2>2. (filter' = p /\ switch' = [to |-> p, before |-> filter]) \/ UNCHANGED <<filter, switch>>
    BY <1>2 DEF Begins
  <2>3. p \in Profiles /\ filter \in Profiles /\ SwitchType
    BY <1>2 DEF TypeInv, ChoiceType
  <2>4. QED
    BY <2>1, <2>2, <2>3 DEF SwitchType
<1>3. QED
  BY <1>1, <1>2 DEF LiveApply, Keeps

LEMMA BatchType ==
  ASSUME TypeInv, Batch
  PROVE  TypeInv'
<1> USE DEF TypeInv
<1> DEFINE medians == Append(est.medians, vtx[ch])
           result  == Result(medians)
<1>1. est.medians \in Seq(Deviations) /\ vtx[ch] \in Deviations
  BY DEF RadioType, MeasureType
<1>2. medians \in Seq(Deviations) /\ medians # <<>>
  BY <1>1, AppendOf
<1>3. result \in {0} \cup Deviations
  BY <1>2, DeviationsOf, ResultOf
<1>4. /\ est' = IF Len(medians) < Batches THEN [est EXCEPT !.medians = medians]
                ELSE [medians |-> <<>>, result |-> result]
      /\ \/ UNCHANGED <<mon, table, pending, filter, switch, faults>>
         \/ (est.result)' # 0 /\ Decided(result)
      /\ est.result = 0
      /\ UNCHANGED <<ch, vtx, locked, ready, sel, liveMode, menu, active, measuring, liveCh,
                     startup, status, cal, ops, changes, cool>>
  BY DEF Batch, radio, choice, task
<1> HIDE DEF medians, result
<1>5. /\ est' \in [medians : Seq(Deviations), result : {0} \cup Deviations]
      /\ (est.result)' # 0 => (est.result)' = result
  <2>1. CASE est' = [est EXCEPT !.medians = medians]
    BY <1>2, <1>4, <2>1 DEF MeasureType
  <2>2. CASE est' = [medians |-> <<>>, result |-> result]
    BY <1>3, <2>2
  <2>3. QED
    BY <1>4, <2>1, <2>2
<1>6. RadioType' /\ TaskType'
  BY <1>4 DEF RadioType, TaskType
<1>7. CASE UNCHANGED <<mon, table, pending, filter, switch, faults>>
  <2>1. ChoiceType' /\ SwitchType' /\ BoundType'
    BY <1>4, <1>7 DEF ChoiceType, SwitchType, BoundType
  <2>2. MeasureType'
    BY <1>4, <1>5, <1>7 DEF MeasureType
  <2>3. QED
    BY <1>6, <2>1, <2>2
<1>8. CASE (est.result)' # 0 /\ Decided(result)
  <2>1. result \in Deviations
    BY <1>3, <1>5, <1>8
  <2>2. PICK p \in {None} \cup Profiles : LiveApply(p, sel)
    BY <1>8, ClassType DEF Decided
  <2>3. pending' \in {None} \cup Profiles /\ filter' \in Profiles /\ SwitchType' /\ faults' \in Nat
    BY <2>2, LiveApplyType
  <2>4. mon' \in [collecting : BOOLEAN, agree : 0 .. NarrowAgree, want : {None} \cup Profiles]
    <3>1. \A want : Agreement(want) \in 0 .. NarrowAgree
      <4>1. mon.agree \in 0 .. NarrowAgree /\ NarrowAgree \in Nat \ {0}
        BY EstimatorAssumption DEF MeasureType
      <4>2. QED
        BY <4>1 DEF Agreement
    <3>2. QED
      BY <1>8, <3>1, ClassType DEF Decided
  <2>5. table' \in [Channels -> {0} \cup Deviations]
    <3>1. table' = table \/ table' = [table EXCEPT ![ch] = result]
      BY <1>8 DEF Decided
    <3>2. QED
      BY <2>1, <3>1 DEF MeasureType
  <2>6. ChoiceType' /\ BoundType'
    BY <1>4, <2>3 DEF ChoiceType, BoundType
  <2>7. MeasureType'
    BY <1>4, <1>5, <2>4, <2>5 DEF MeasureType
  <2>8. QED
    BY <1>6, <2>3, <2>6, <2>7
<1>9. QED
  BY <1>4, <1>7, <1>8

LEMMA ControlType ==
  ASSUME TypeInv, Control
  PROVE  TypeInv'
<1> USE DEF TypeInv
<1>1. CASE Retry
  <2>1. LiveApply(pending, sel)
    BY <1>1 DEF Retry, LiveApply
  <2>2. pending' \in {None} \cup Profiles /\ filter' \in Profiles /\ SwitchType' /\ faults' \in Nat
    BY <2>1, LiveApplyType DEF ChoiceType
  <2>3. UNCHANGED <<radio, choice, active, measure, task, ops, changes, cool>>
    BY <1>1 DEF Retry
  <2>4. RadioType' /\ ChoiceType' /\ TaskType' /\ BoundType'
    BY <2>2, <2>3 DEF radio, choice, task, RadioType, ChoiceType, TaskType, BoundType
  <2>5. MeasureType'
    BY <2>3 DEF measure, MeasureType
  <2>6. QED
    BY <2>2, <2>4, <2>5
<1>2. CASE Cycle
  <2>1. /\ faults' \in Nat /\ est' = FreshEst /\ mon' = [mon EXCEPT !.collecting = TRUE]
        /\ UNCHANGED <<radio, choice, applied, measuring, liveCh, table, task, ops, changes, pending, cool, switch>>
    BY <1>2, FaultType DEF Cycle, BoundType
  <2>2. RadioType' /\ ChoiceType' /\ SwitchType' /\ TaskType' /\ BoundType'
    BY <2>1 DEF radio, choice, applied, task, RadioType, ChoiceType, SwitchType, TaskType, BoundType
  <2>3. MeasureType'
    BY <2>1, Fresh DEF MeasureType
  <2>4. QED
    BY <2>2, <2>3
<1>3. CASE Restarted
  <2>1. /\ switch # NoSwitch /\ switch' = NoSwitch /\ cool' = TRUE
        /\ \/ active' = switch.to /\ UNCHANGED <<filter, faults>>
           \/ Fault("restart") /\ filter' = switch.before /\ UNCHANGED active
        /\ UNCHANGED <<radio, choice, measure, task, pending, ops, changes>>
    BY <1>3 DEF Restarted
  <2>2. switch.to \in Profiles /\ switch.before \in Profiles
    BY <1>3, <2>1 DEF SwitchType
  <2>3. active' \in Profiles /\ filter' \in Profiles /\ faults' \in Nat
    BY <2>1, <2>2, FaultType DEF ChoiceType, BoundType
  <2>4. RadioType' /\ ChoiceType' /\ SwitchType' /\ TaskType' /\ BoundType'
    BY <2>1, <2>3 DEF radio, choice, task, RadioType, ChoiceType, SwitchType, TaskType, BoundType, NoSwitch
  <2>5. MeasureType'
    BY <2>1 DEF measure, MeasureType
  <2>6. QED
    BY <2>4, <2>5
<1>4. QED
  BY <1>1, <1>2, <1>3, BatchType DEF Control

LEMMA OperatorType ==
  ASSUME TypeInv, Operator
  PROVE  TypeInv'
<1> USE DEF TypeInv
<1>1. ops' \in Nat
  <2>1. Command
    BY DEF Operator, Retune, Select, SetLiveMode, OpenMenu, Calibrate
  <2>2. QED
    BY <2>1 DEF Command, BoundType
<1>2. CASE \E c \in Channels : Retune(c)
  <2>1. PICK c \in Channels : Retune(c)
    BY <1>2
  <2> DEFINE p == IF sel # SelectAuto /\ (sel = "default" \/ (sel \in Calibrated /\ c \in ready)) THEN sel ELSE "default"
  <2>2. p \in Profiles
    BY ProfileNames DEF ChoiceType
  <2>3. /\ ch' = c /\ locked' = FALSE /\ pending' = None /\ LiveBegin(c)
        /\ \/ UNCHANGED <<applied, faults, cool>>
           \/ SetProfile(p) /\ cool' = (cool \/ ~menu)
        /\ UNCHANGED <<vtx, ready, choice, table, task, changes, switch>>
    BY <2>1 DEF Retune
  <2>4. active' \in Profiles /\ filter' \in Profiles /\ faults' \in Nat /\ cool' \in BOOLEAN
    <3>1. CASE UNCHANGED <<applied, faults, cool>>
      BY <3>1 DEF applied, ChoiceType, BoundType
    <3>2. CASE SetProfile(p) /\ cool' = (cool \/ ~menu)
      <4>1. active' \in Profiles /\ filter' \in Profiles /\ faults' \in Nat
        BY <2>2, <3>2, SetProfileType DEF BoundType
      <4>2. QED
        BY <3>2, <4>1
    <3>3. QED
      BY <2>3, <3>1, <3>2
  <2>5. /\ ch' \in Channels /\ locked' \in BOOLEAN /\ pending' \in {None} \cup Profiles
        /\ UNCHANGED <<vtx, ready, choice, table, task, changes, switch>>
    BY <2>3
  <2>6. RadioType' /\ TaskType' /\ SwitchType'
    BY <2>5 DEF task, RadioType, SwitchType, TaskType
  <2>7. ChoiceType' /\ BoundType'
    BY <1>1, <2>4, <2>5 DEF choice, task, ChoiceType, BoundType
  <2>8. MeasureType'
    BY <2>3, <2>5, Fresh DEF LiveBegin, MeasureType
  <2>9. QED
    BY <2>6, <2>7, <2>8
<1>3. CASE Select
  <2> DEFINE p == IF NextSelect = SelectAuto THEN "default" ELSE NextSelect
  <2>1. NextSelect \in {SelectAuto} \cup Profiles
    BY NextSelectType DEF ChoiceType
  <2> HIDE DEF NextSelect
  <2>2. p \in Profiles
    BY <2>1, ProfileNames
  <2>3. /\ sel' = NextSelect
        /\ \/ SetProfile(p) /\ UNCHANGED <<pending, switch>>
           \/ LiveApply(p, NextSelect) /\ UNCHANGED active
        /\ UNCHANGED <<radio, liveMode, menu, measure, task, changes, cool>>
    BY <1>3 DEF Select
  <2> HIDE DEF p
  <2>4. /\ active' \in Profiles /\ filter' \in Profiles /\ faults' \in Nat
        /\ pending' \in {None} \cup Profiles /\ SwitchType'
    <3>1. CASE SetProfile(p) /\ UNCHANGED <<pending, switch>>
      BY <2>2, <3>1, SetProfileType DEF ChoiceType, SwitchType, BoundType
    <3>2. CASE LiveApply(p, NextSelect) /\ UNCHANGED active
      <4>1. pending' \in {None} \cup Profiles /\ filter' \in Profiles /\ SwitchType' /\ faults' \in Nat
        BY <2>2, <3>2, LiveApplyType
      <4>2. QED
        BY <3>2, <4>1 DEF ChoiceType
    <3>3. QED
      BY <2>3, <3>1, <3>2
  <2>5. RadioType' /\ ChoiceType' /\ TaskType' /\ BoundType'
    BY <1>1, <2>1, <2>3, <2>4 DEF radio, task, RadioType, ChoiceType, TaskType, BoundType
  <2>6. MeasureType'
    BY <2>3 DEF measure, MeasureType
  <2>7. QED
    BY <2>4, <2>5, <2>6
<1>4. CASE SetLiveMode \/ OpenMenu
  <2>1. /\ UNCHANGED <<radio, sel, applied, measure, task, changes, faults, cool, switch>>
        /\ liveMode' \in BOOLEAN /\ menu' \in BOOLEAN /\ pending' \in {None, pending}
    BY <1>4 DEF SetLiveMode, OpenMenu, ChoiceType
  <2>2. RadioType' /\ ChoiceType' /\ SwitchType' /\ TaskType' /\ BoundType'
    BY <1>1, <2>1 DEF radio, applied, task, RadioType, ChoiceType, SwitchType, TaskType, BoundType
  <2>3. MeasureType'
    BY <2>1 DEF measure, MeasureType
  <2>4. QED
    BY <2>2, <2>3
<1>5. CASE \E full \in BOOLEAN : Calibrate(full)
  <2>1. PICK full \in BOOLEAN : Calibrate(full)
    BY <1>5
  <2>2. RadioType' /\ ChoiceType' /\ SwitchType' /\ TaskType' /\ BoundType'
    BY <1>1, <2>1 DEF Calibrate, radio, applied, RadioType, ChoiceType, SwitchType, TaskType, BoundType
  <2>3. MeasureType'
    BY <2>1 DEF Calibrate, measure, MeasureType
  <2>4. QED
    BY <2>2, <2>3
<1>6. QED
  BY <1>2, <1>3, <1>4, <1>5 DEF Operator

LEMMA GotoType ==
  ASSUME TaskType, NEW pc \in {"idle", "owner", "sweep", "swept", "measure", "measuring", "end", "begin", "resume"},
         Goto(pc)
  PROVE  TaskType'
  BY DEF Goto, TaskType

LEMMA CalibrationType ==
  ASSUME TypeInv, Calibration
  PROVE  TypeInv'
<1> USE DEF TypeInv
<1>1. CASE StartupBegin \/ OwnerBusy \/ MeasureSkip
  <2>1. /\ UNCHANGED <<radio, choice, applied, measure, status, bounds, pending, cool, switch>>
        /\ startup' \in BOOLEAN /\ (Goto("owner") \/ Goto("end"))
    BY <1>1 DEF StartupBegin, OwnerBusy, MeasureSkip, ChoiceType
  <2>2. TaskType'
    BY <2>1, GotoType
  <2>3. RadioType' /\ ChoiceType' /\ SwitchType' /\ BoundType'
    BY <2>1 DEF radio, choice, applied, bounds, RadioType, ChoiceType, SwitchType, BoundType
  <2>4. MeasureType'
    BY <2>1 DEF measure, MeasureType
  <2>5. QED
    BY <2>2, <2>3, <2>4
<1>2. CASE Leave \/ Sweep
  <2>1. /\ UNCHANGED <<ch, vtx, locked, choice, measure, startup, bounds, pending, cool, switch>>
        /\ status' \in BOOLEAN /\ active' \in {active, "default"} /\ filter' \in {filter, "default"}
        /\ ready' \in {ready, ready \cup {ch}} /\ (Goto("sweep") \/ Goto("swept"))
    BY <1>2 DEF Leave, Sweep, radio
  <2>2. TaskType'
    BY <2>1, GotoType
  <2>3. RadioType' /\ ChoiceType' /\ SwitchType' /\ BoundType'
    BY <2>1, ProfileNames DEF choice, bounds, RadioType, ChoiceType, SwitchType, BoundType
  <2>4. MeasureType'
    BY <2>1 DEF measure, MeasureType
  <2>5. QED
    BY <2>2, <2>3, <2>4
<1>3. CASE Swept \/ StartupEnd
  <2>1. /\ UNCHANGED <<radio, sel, liveMode, applied, measure, bounds, pending, switch>>
        /\ menu' = FALSE /\ cool' = TRUE /\ startup' \in BOOLEAN /\ status' \in BOOLEAN
    BY <1>3 DEF Swept, StartupEnd, ChoiceType
  <2>2. TaskType'
    <3>1. CASE Swept
      BY <3>1, GotoType DEF Swept
    <3>2. CASE StartupEnd
      BY <3>2 DEF StartupEnd, TaskType
    <3>3. QED
      BY <1>3, <3>1, <3>2
  <2>3. RadioType' /\ ChoiceType' /\ SwitchType' /\ BoundType'
    BY <2>1 DEF radio, applied, bounds, RadioType, ChoiceType, SwitchType, BoundType
  <2>4. MeasureType'
    BY <2>1 DEF measure, MeasureType
  <2>5. QED
    BY <2>2, <2>3, <2>4
<1>4. CASE Measure \/ Measured \/ Begin \/ Resume
  <2>1. UNCHANGED <<radio, choice, applied, table, startup, status, bounds, pending, cool, switch>>
    BY <1>4 DEF Measure, Measured, Begin, Resume
  <2>2. RadioType' /\ ChoiceType' /\ SwitchType' /\ BoundType'
    BY <2>1 DEF radio, choice, applied, bounds, RadioType, ChoiceType, SwitchType, BoundType
  <2>3. TaskType'
    <3>1. CASE Measure
      BY <3>1, GotoType DEF Measure
    <3>2. CASE Measured
      BY <3>2 DEF Measured, TaskType, MeasureType
    <3>3. CASE Begin
      <4>1. Goto("idle") \/ cal' = [cal EXCEPT !.pc = "resume", !.ch = ch]
        BY <3>3 DEF Begin
      <4>2. CASE Goto("idle")
        BY <4>2, GotoType
      <4>3. CASE cal' = [cal EXCEPT !.pc = "resume", !.ch = ch]
        BY <4>3 DEF TaskType, RadioType
      <4>4. QED
        BY <4>1, <4>2, <4>3
    <3>4. CASE Resume
      BY <3>4 DEF Resume, TaskType, CalIdle
    <3>5. QED
      BY <1>4, <3>1, <3>2, <3>3, <3>4
  <2>4. MeasureType'
    <3>1. CASE Measure \/ Measured
      BY <2>1, <3>1, Fresh DEF Measure, Measured, MeasureType
    <3>2. CASE Begin
      BY <2>1, <3>2, Fresh DEF Begin, MeasureType
    <3>3. CASE Resume
      BY <2>1, <3>3, Fresh DEF Resume, MeasureType, TaskType
    <3>4. QED
      BY <1>4, <3>1, <3>2, <3>3
  <2>5. QED
    BY <2>2, <2>3, <2>4
<1>5. CASE Commit
  <2>1. /\ UNCHANGED <<radio, choice, applied, measuring, est, mon, startup, status, bounds, cool, switch>>
        /\ table' = [table EXCEPT ![ch] = cal.dev] /\ liveCh' = ch
        /\ pending' \in {pending, None, Class(cal.dev)}
        /\ cal' = [cal EXCEPT !.pc = "end", !.dev = 0]
    BY <1>5 DEF Commit
  <2>2. pending' \in {None} \cup Profiles
    BY <2>1, ClassType DEF ChoiceType
  <2>3. RadioType' /\ ChoiceType' /\ SwitchType' /\ BoundType'
    BY <2>1, <2>2 DEF radio, choice, applied, bounds, RadioType, ChoiceType, SwitchType, BoundType
  <2>4. TaskType'
    BY <2>1 DEF TaskType
  <2>5. MeasureType'
    BY <2>1 DEF MeasureType, TaskType, RadioType
  <2>6. QED
    BY <2>3, <2>4, <2>5
<1>6. QED
  BY <1>1, <1>2, <1>3, <1>4, <1>5 DEF Calibration

LEMMA AroundType ==
  ASSUME TypeInv, CloseMenu \/ Cooled \/ Around \/ UNCHANGED vars
  PROVE  TypeInv'
<1> USE DEF TypeInv
<1>1. /\ UNCHANGED <<ch, ready, sel, liveMode, applied, measure, task, pending, switch, ops, faults>>
      /\ menu' \in BOOLEAN /\ cool' \in BOOLEAN /\ locked' \in BOOLEAN /\ changes' \in Nat
      /\ vtx' = vtx \/ \E dev \in Carried[ch] : vtx' = [vtx EXCEPT ![ch] = dev]
  <2>1. CASE CloseMenu \/ Cooled \/ UNCHANGED vars
    BY <2>1 DEF CloseMenu, Cooled, vars, radio, choice, bounds, RadioType, ChoiceType, BoundType
  <2>2. CASE Around
    <3>1. Unchanged
      BY <2>2 DEF Around, AnotherVtx, Lock, LockLost
    <3>2. changes' = changes \/ (changes > 0 /\ changes' = changes - 1)
      BY <2>2 DEF Around, AnotherVtx, Lock, LockLost
    <3>3. vtx' = vtx \/ \E dev \in Carried[ch] : vtx' = [vtx EXCEPT ![ch] = dev]
      BY <2>2 DEF Around, AnotherVtx, Lock, LockLost
    <3>4. locked' \in BOOLEAN
      BY <2>2 DEF Around, AnotherVtx, Lock, LockLost, RadioType
    <3>5. changes' \in Nat
      BY <3>2 DEF BoundType
    <3>6. QED
      BY <3>1, <3>3, <3>4, <3>5 DEF Unchanged, choice, ChoiceType
  <2>3. QED
    BY <2>1, <2>2
<1>2. vtx' \in [Channels -> Deviations]
  BY <1>1, DeviationsOf DEF RadioType
<1>3. RadioType' /\ ChoiceType' /\ SwitchType' /\ TaskType' /\ BoundType'
  BY <1>1, <1>2 DEF applied, task, RadioType, ChoiceType, SwitchType, TaskType, BoundType
<1>4. MeasureType'
  BY <1>1 DEF measure, MeasureType
<1>5. QED
  BY <1>3, <1>4

\* Every variable of the profile keeps its type under every step, for every set
\* of channels, deviations and calibrated filters (profile.c, profile_logic.h).
THEOREM TypeCorrect == Spec => []TypeOK
<1>1. TypeInv /\ [Next]_vars => TypeInv'
  <2> SUFFICES ASSUME TypeInv, [Next]_vars PROVE TypeInv'
    OBVIOUS
  <2>1. CASE Control
    BY <2>1, ControlType
  <2>2. CASE Operator
    BY <2>2, OperatorType
  <2>3. CASE Calibration
    BY <2>3, CalibrationType
  <2>4. CASE CloseMenu \/ Cooled \/ Around \/ UNCHANGED vars
    BY <2>4, AroundType
  <2>5. QED
    BY <2>1, <2>2, <2>3, <2>4 DEF Next
<1>2. QED
  BY <1>1, TypeInit, TypeParts, PTL DEF Spec
=============================================================================
