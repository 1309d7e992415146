--------------------------- MODULE ObserverProof ---------------------------
(***************************************************************************)
(* Proofs about Observer for any rows, channels and bounds.                *)
(*                                                                         *)
(* What every evidence property rests on is the generation: a tuning or a  *)
(* gain that is forced only moves inside a PHY transaction (depth = 1),    *)
(* and the end of the transaction bumps the generation.  Evidence of the   *)
(* present generation, outside a transaction, is therefore evidence of the *)
(* present tuning.  That a step of the control task which moves the tuning *)
(* lies inside a transaction is a fact about the scripts of its operations *)
(* (Chained).                                                              *)
(***************************************************************************)
EXTENDS Observer, TLAPS

\* Steps of the control task that run inside a PHY transaction, the steps
\* after which the next one does, and all others.
Inside  == {"channel", "offset", "mode", "forceScan", "forceMax", "end"}
Opens   == {"begin", "nest", "channel", "offset", "mode", "forceScan", "forceMax"}
Outside == {"begin", "nest", "lease", "age", "release", "epoch", "zero", "pause", "delay",
            "adoptScan", "adoptMax", "resume"}
Steps   == Inside \cup Outside

Leased  == {"nest", "age", "release"}

\* A rest of a script: a step is inside exactly after one that opens or stays
\* inside, the transaction is closed at the end, and of the leased steps the
\* first follows the lease, the others the end of the transaction.
Chained(s) ==
  /\ s \in Seq(Steps)
  /\ \A i \in 1 .. Len(s) - 1 :
       /\ s[i + 1] \in Inside <=> s[i] \in Opens
       /\ s[i + 1] = "nest" => s[i] = "lease"
       /\ s[i + 1] = "age" => s[i] = "end"
       /\ s[i + 1] = "release" <=> s[i] = "age"
  /\ s # <<>> => s[Len(s)] \notin Opens \cup {"age"}

\* The control task holds the transaction exactly while it is inside one.
TransactionOK ==
  /\ Chained(todo)
  /\ depth = 1 <=> todo # <<>> /\ Head(todo) \in Inside
  /\ depth = 1 => lock = "control"
  /\ todo # <<>> /\ Head(todo) \in Leased => lock = "control"
  /\ cal.pc = "write" => lock = "calib"

Wins  == [tune : Tunes, gain : Gains, code : Codes, level : Gains, settled : BOOLEAN]
Mails == [win : Wins, gain : Nat, control : Nat, phy : Nat]
Sum   == [tune : Tunes, code : Codes]
ObsPcs == {"wait", "bind", "copy", "check", "sum", "decide", "attack", "apply", "lock"}
HasWin == {"check", "sum", "decide", "attack", "apply", "lock"}
ObsRec == [pc : ObsPcs, control : Nat, phy : Nat, gain : Nat,
           seen : [control : Nat, phy : Nat], win : Wins \cup {NoWindow}, target : Gains]
CalPcs == {"idle", "hold", "take", "step", "write", "fault", "book"}

\* The types TypeOK leaves out.
PhyType ==
  /\ lock \in {None, "control", "calib"} /\ depth \in 0 .. 1
  /\ gen \in Nat /\ control \in Nat /\ gainEpoch \in Nat

FlagType == settled \in BOOLEAN /\ paused \in BOOLEAN /\ dcFault \in BOOLEAN

HwType ==
  /\ tune \in Tunes /\ serving \in Channels /\ code \in Codes
  /\ hwGain \in Gains /\ curGain \in Gains /\ level \in Gains
  /\ trim \in [Gains -> 0 .. MaxTrims]
  /\ sums \in [Gains -> SUBSET Sum] /\ label \in [control : Nat, phy : Nat]

TaskType ==
  /\ mail \in Mails \cup {Empty}
  /\ obs \in ObsRec
  /\ obs.pc \in HasWin => obs.win \in Wins
  /\ core \in [gain : Gains, ctx : (Channels \cup {None}) \X (0 .. 1), learned : SUBSET Tunes]
  /\ cal \in [pc : CalPcs, row : Gains, mean : SUBSET Sum]
  /\ budget \in [op : 0 .. MaxOps, fade : 0 .. MaxFades, trim : 0 .. MaxTrims, blast : 0 .. MaxBlasts]

\* A trim is one of the steps so far, and a step that is on its way has room.
TrimOK ==
  /\ \A g \in Gains : trim[g] <= budget.trim
  /\ cal.pc \in {"write", "book"} => budget.trim < MaxTrims

\* No evidence is of a generation to come.
GenOK == obs.phy <= gen /\ mail.phy <= gen /\ label.phy <= gen /\ mail.gain <= gainEpoch

\* A generation is that of the present tuning, and no transaction is open.
Present(p) == p = gen /\ depth = 0

\* What the observer and the mailbox hold of the present generation was
\* received on the present tuning and gain.
WinOK ==
  /\ obs.pc \in HasWin /\ Present(obs.phy) => obs.win.tune = tune /\ obs.win.gain = hwGain
  /\ mail # Empty /\ Present(mail.phy) =>
       mail.win.tune = tune /\ (mail.gain = gainEpoch => mail.win.gain = hwGain)

LearnOK == MapOneContext /\ (obs.pc \in {"sum", "decide"} => Context(obs.win.tune) = core.ctx)

SumOK ==
  /\ SumsOneContext
  /\ \A g \in Gains : \A w \in sums[g] :
       /\ Present(label.phy) => w.tune = tune
       /\ obs.pc = "sum" /\ label.phy = obs.phy => w.tune = obs.win.tune

IInv ==
  /\ PhyType /\ FlagType /\ HwType /\ TaskType /\ TransactionOK
  /\ TrimOK /\ GenOK /\ WinOK /\ LearnOK /\ SumOK

-----------------------------------------------------------------------------
LEMMA MaxGainType == MaxGain \in Gains
  BY GainAssumption DEF MaxGain

\* Every operation is a chain, and begins outside a transaction.
LEMMA ScriptChained ==
  ASSUME NEW op \in Ops
  PROVE  Chained(Script(op)) /\ Script(op) # <<>> /\ Head(Script(op)) \notin Inside \cup Leased
<1>1. CASE op = "retune"
  BY <1>1 DEF Script, Chained, Steps, Inside, Outside, Opens, Leased
<1>2. CASE op = "afc"
  BY <1>2 DEF Script, Chained, Steps, Inside, Outside, Opens, Leased
<1>3. CASE op = "dfilt"
  BY <1>3 DEF Script, Chained, Steps, Inside, Outside, Opens, Leased
<1>4. CASE op = "scan"
  BY <1>4 DEF Script, Chained, Steps, Inside, Outside, Opens, Leased
<1>5. QED
  BY <1>1, <1>2, <1>3, <1>4, OpsAssumption

\* What is left after a step is a chain; its first step is inside exactly if
\* the step before opens, and leased only after the lease, or after an end
\* whose chain still has the release.
LEMMA TailChained ==
  ASSUME NEW s, Chained(s), s # <<>>
  PROVE  /\ Chained(Tail(s))
         /\ (Tail(s) # <<>> /\ Head(Tail(s)) \in Inside) <=> Head(s) \in Opens
         /\ Tail(s) # <<>> => /\ Head(Tail(s)) = "nest" => Head(s) = "lease"
                              /\ Head(Tail(s)) = "age" =>
                                   Head(s) = "end" /\ "release" \in {s[i] : i \in DOMAIN s}
                              /\ Head(Tail(s)) = "release" => Head(s) = "age"
<1>1. s \in Seq(Steps) /\ Len(s) \in Nat \ {0} /\ Tail(s) \in Seq(Steps) /\ Len(Tail(s)) = Len(s) - 1
  BY DEF Chained
<1>2. \A i \in 1 .. Len(s) - 1 : Tail(s)[i] = s[i + 1]
  BY <1>1
<1>3. Chained(Tail(s))
  BY <1>1, <1>2 DEF Chained
<1>4. \A t \in Seq(Steps) : Len(t) > 0 => t # <<>> /\ Head(t) = t[1]
  OBVIOUS
<1>5. Head(s) = s[1]
  BY <1>1, <1>4
<1>6. CASE Len(s) = 1
  <2>1. \A t \in Seq(Steps) : Len(t) = 0 => t = <<>>
    OBVIOUS
  <2>2. Tail(s) = <<>>
    <3>1. Len(Tail(s)) = 0
      BY <1>1, <1>6
    <3>2. QED
      BY <1>1, <3>1, <2>1
  <2>3. Head(s) \notin Opens
    BY <1>5, <1>6 DEF Chained
  <2>4. QED
    BY <1>3, <2>2, <2>3
<1>7. CASE Len(s) > 1
  <2>1. Len(Tail(s)) > 0
    BY <1>1, <1>7
  <2>2. Tail(s) # <<>> /\ Head(Tail(s)) = Tail(s)[1]
    BY <1>1, <1>4, <2>1
  <2>3. Head(Tail(s)) = s[2]
    BY <1>1, <1>2, <1>7, <2>2
  <2>4. 1 \in 1 .. Len(s) - 1
    BY <1>1, <1>7
  <2>5. ASSUME s[2] = "age" PROVE "release" \in {s[i] : i \in DOMAIN s}
    <3>1. Len(s) > 2
      BY <1>1, <1>7, <2>5 DEF Chained
    <3>2. 2 \in 1 .. Len(s) - 1 /\ 3 \in DOMAIN s
      BY <1>1, <3>1
    <3>3. s[3] = "release"
      BY <2>5, <3>2 DEF Chained
    <3>4. QED
      BY <3>2, <3>3
  <2>6. QED
    BY <1>3, <1>5, <2>2, <2>3, <2>4, <2>5 DEF Chained
<1>8. QED
  BY <1>1, <1>6, <1>7

LEMMA InitIInv == Init => IInv
<1> SUFFICES ASSUME Init PROVE IInv
  OBVIOUS
<1>1. MaxGain \in Gains /\ MaxTrims \in Nat
  BY MaxGainType, BoundAssumption
<1>2. PhyType /\ FlagType /\ HwType
  <2>1. PhyType /\ FlagType
    <3>1. lock = None /\ depth = 0 /\ gen = 1 /\ control = 1 /\ gainEpoch = 1
      BY DEF Init
    <3>2. FlagType
      BY Zenon DEF Init, FlagType
    <3>3. QED
      BY <3>1, <3>2 DEF PhyType
  <2>3. tune \in Tunes /\ serving \in Channels
    BY ChannelAssumption DEF Init, Tunes
  <2>4. 0 \in 0 .. MaxTrims
    BY <1>1
  <2>5. QED
    BY <1>1, <2>1, <2>3, <2>4 DEF Init, HwType, Codes, Unseen
<1>3. TaskType
  BY <1>1, BoundAssumption DEF Init, TaskType, ObsRec, ObsPcs, HasWin, CalPcs, Unseen
<1>4. TransactionOK
  BY DEF Init, TransactionOK, Chained, None
<1>5. TrimOK /\ GenOK /\ WinOK /\ LearnOK /\ SumOK
  BY DEF Init, TrimOK, GenOK, WinOK, LearnOK, SumOK, MapOneContext, SumsOneContext, Empty, Unseen, HasWin, Chip
<1>6. QED
  BY <1>2, <1>3, <1>4, <1>5 DEF IInv

\* The control task is inside a transaction exactly while depth is 1.
LEMMA TransactionNext == IInv /\ [Next]_vars => TransactionOK'
<1> SUFFICES ASSUME IInv, [Next]_vars PROVE TransactionOK'
  OBVIOUS
<1>0. /\ TransactionOK /\ depth \in 0 .. 1 /\ todo \in Seq(Steps)
      /\ todo # <<>> =>
           /\ Chained(Tail(todo))
           /\ (Tail(todo) # <<>> /\ Head(Tail(todo)) \in Inside) <=> Head(todo) \in Opens
           /\ Tail(todo) # <<>> => /\ Head(Tail(todo)) = "nest" => Head(todo) = "lease"
                                   /\ Head(Tail(todo)) = "age" =>
                                        Head(todo) = "end" /\ "release" \in {todo[i] : i \in DOMAIN todo}
                                   /\ Head(Tail(todo)) = "release" => Head(todo) = "age"
  BY TailChained DEF IInv, TransactionOK, PhyType, Chained
<1>1. CASE Observe \/ Sentinel \/ Fade \/ Settle \/ UNCHANGED vars
  BY <1>0, <1>1 DEF TransactionOK, Observe, Sleep, Wake, Bind, Copy, Check, Accumulate, Decide,
     Apply, LockRefused, Write, Sentinel, Fade, Settle, vars, phy
<1>2. CASE Start
  BY <1>0, <1>2, ScriptChained DEF TransactionOK, Start, phy
<1>3. CASE Begin \/ LeaseOrSkip \/ Nest
  <2>1. CASE Begin
    BY <1>0, <2>1 DEF TransactionOK, Begin, Doing, Aside, Inside, Opens, Leased, None
  <2>2. CASE LeaseOrSkip
    <3>1. CASE lock = None
      BY <1>0, <2>2, <3>1 DEF TransactionOK, LeaseOrSkip, Aside, Inside, Opens, Leased, None
    <3>2. CASE lock # None
      BY <1>0, <2>2, <3>2 DEF TransactionOK, LeaseOrSkip, Aside, Inside, Chained
    <3>3. QED
      BY <3>1, <3>2
  <2>3. CASE Nest
    BY <1>0, <2>3 DEF TransactionOK, Nest, Doing, Aside, Inside, Opens, Leased
  <2>4. QED
    BY <1>3, <2>1, <2>2, <2>3
<1>4. CASE Retuned \/ Forced
  BY <1>0, <1>4 DEF TransactionOK, Retuned, Forced, Doing, Aside, Inside, Opens, Leased, phy
<1>5. CASE End
  BY <1>0, <1>5 DEF TransactionOK, End, Doing, Aside, Inside, Opens, Leased
<1>6. CASE Release
  BY <1>0, <1>6 DEF TransactionOK, Release, Doing, Aside, Inside, Opens, Leased
<1>7. CASE Adopt \/ Age \/ NewEpoch \/ Zero \/ Delay \/ Resume
  BY <1>0, <1>7 DEF TransactionOK, Adopt, Age, NewEpoch, Zero, Delay, Resume,
     Doing, Aside, Inside, Opens, Leased, phy
<1>a. CASE Pause
  <2>1. CASE paused
    BY <1>0, <1>a, <2>1 DEF TransactionOK, Pause, Aside, Inside, Chained, phy
  <2>2. CASE ~paused
    BY <1>0, <1>a, <2>2 DEF TransactionOK, Pause, Aside, Inside, Opens, Leased, phy
  <2>3. QED
    BY <2>1, <2>2
<1>8. CASE Calibrate
  <2> cal \in [pc : CalPcs, row : Gains, mean : SUBSET Sum]
    BY DEF IInv, TaskType
  <2>1. CASE Select \/ Hold \/ Take \/ NoStep \/ StepFault \/ StepBook
    BY <1>0, <2>1 DEF TransactionOK, Select, Hold, Take, NoStep, StepFault, StepBook, Elsewhere, CalGoto,
       CalIdle, phy
  <2>2. CASE StepLease
    BY <1>0, <2>2 DEF TransactionOK, StepLease, Elsewhere, CalGoto, CalIdle, None
  <2>3. CASE StepWrite
    BY <1>0, <2>3 DEF TransactionOK, StepWrite, CalGoto, CalIdle
  <2>4. QED
    BY <1>8, <2>1, <2>2, <2>3 DEF Calibrate
<1>9. QED
  BY <1>1, <1>2, <1>3, <1>4, <1>5, <1>6, <1>7, <1>a, <1>8 DEF Next, Control

LEMMA PhyTypeNext == IInv /\ [Next]_vars => PhyType'
<1> SUFFICES ASSUME IInv, [Next]_vars PROVE PhyType'
  OBVIOUS
<1> USE DEF PhyType, phy, epoch
<1>0. PhyType
  BY DEF IInv
<1>1. CASE Observe \/ UNCHANGED vars
  <2>1. CASE Decide
    BY <1>0, <2>1 DEF Decide
  <2>2. CASE ~Decide
    BY <1>0, <1>1, <2>2 DEF Observe, Sleep, Wake, Bind, Copy, Check, Accumulate, Apply, LockRefused, Write, vars
  <2>3. QED
    BY <2>1, <2>2
<1>2. CASE Sentinel \/ Start \/ Fade \/ Settle
  BY <1>0, <1>2 DEF Sentinel, Start, Fade, Settle
<1>3. CASE Begin \/ LeaseOrSkip \/ Nest \/ Retuned \/ Forced \/ End \/ Release
  <2>1. CASE Begin \/ Nest \/ Release
    BY <1>0, <2>1 DEF Begin, Nest, Release, None
  <2>5. CASE Retuned \/ Forced
    BY <1>0, <2>5 DEF Retuned, Forced
  <2>2. CASE LeaseOrSkip
    BY <1>0, <2>2 DEF LeaseOrSkip
  <2>3. CASE End
    <3>1. depth' = 0 /\ gen' = gen + 1 /\ lock' \in {lock, None} /\ UNCHANGED epoch
      BY <2>3 DEF End
    <3>2. QED
      BY <1>0, <3>1
  <2>4. QED
    BY <1>3, <2>1, <2>2, <2>3, <2>5
<1>4. CASE Adopt \/ Age \/ NewEpoch \/ Zero \/ Pause \/ Delay \/ Resume
  BY <1>0, <1>4 DEF Adopt, Age, NewEpoch, Zero, Pause, Delay, Resume, Doing, Aside
<1>5. CASE Calibrate
  BY <1>0, <1>5 DEF Calibrate, Select, Hold, Take, NoStep, StepLease, StepWrite, StepFault, StepBook,
     Elsewhere, CalGoto, None
<1>6. QED
  BY <1>1, <1>2, <1>3, <1>4, <1>5 DEF Next, Control

LEMMA FlagTypeNext == IInv /\ [Next]_vars => FlagType'
<1> SUFFICES ASSUME IInv, [Next]_vars PROVE FlagType'
  OBVIOUS
<1> USE DEF FlagType, epoch, dc
<1>0. FlagType
  BY DEF IInv
<1>1. CASE Observe \/ UNCHANGED vars
  BY Zenon, <1>0, <1>1 DEF Observe, Sleep, Wake, Bind, Copy, Check, Accumulate, Decide, Apply,
     LockRefused, Write, vars
<1>2. CASE Sentinel \/ Start \/ Fade \/ Settle
  BY Zenon, <1>0, <1>2 DEF Sentinel, Start, Fade, Settle
<1>3. CASE Begin \/ LeaseOrSkip \/ Nest \/ Retuned \/ Forced \/ End \/ Release
  BY Zenon, <1>0, <1>3 DEF Begin, LeaseOrSkip, Nest, Retuned, Forced, End, Release, Aside
<1>4. CASE Adopt \/ Age \/ NewEpoch \/ Zero \/ Pause \/ Delay \/ Resume
  BY Zenon, <1>0, <1>4 DEF Adopt, Age, NewEpoch, Zero, Pause, Delay, Resume, Aside
<1>5. CASE Calibrate
  BY Zenon, <1>0, <1>5 DEF Calibrate, Select, Hold, Take, NoStep, StepLease, StepWrite, StepFault, StepBook
<1>6. QED
  BY <1>1, <1>2, <1>3, <1>4, <1>5 DEF Next, Control

\* The codes that are held are codes.
LEMMA HeldCodeType ==
  ASSUME HwType, NEW g \in Gains
  PROVE  HeldCode(g) \in Codes /\ Chip \in Codes /\ Torn \in Codes
  BY DEF HwType, HeldCode, Codes

LEMMA HwTypeNext == IInv /\ [Next]_vars => HwType'
<1> SUFFICES ASSUME IInv, [Next]_vars PROVE HwType'
  OBVIOUS
<1> USE DEF HwType, phy, hw, epoch, dc
<1>0. HwType /\ TaskType /\ TrimOK /\ MaxGain \in Gains /\ ScanGain \in Gains /\ MaxTrims \in Nat
  BY MaxGainType, GainAssumption, BoundAssumption DEF IInv
<1>1. CASE Observe \/ UNCHANGED vars
  <2>1. CASE Sleep \/ Wake \/ Bind \/ Copy \/ Check \/ Decide \/ Apply \/ LockRefused \/ UNCHANGED vars
    BY <1>0, <2>1 DEF Sleep, Wake, Bind, Copy, Check, Decide, Apply, LockRefused, vars
  <2>2. CASE Accumulate
    <3>1. Seen \in [control : Nat, phy : Nat] /\ curGain \in Gains
      BY <1>0 DEF TaskType, ObsRec, Seen
    <3>2. [tune |-> obs.win.tune, code |-> obs.win.code] \in Sum
      BY <1>0, <2>2 DEF TaskType, Accumulate, HasWin, Wins, Sum
    <3>3. sums' \in [Gains -> SUBSET Sum]
      BY <1>0, <2>2, <3>2 DEF Accumulate
    <3>4. QED
      BY <1>0, <2>2, <3>1, <3>3 DEF Accumulate
  <2>3. CASE Write
    BY <1>0, <2>3, HeldCodeType DEF Write, TaskType, ObsRec
  <2>4. QED
    BY <1>1, <2>1, <2>2, <2>3 DEF Observe
<1>2. CASE Sentinel \/ Start \/ Settle
  BY <1>0, <1>2 DEF Sentinel, Start, Settle
<1>3. CASE Fade
  BY <1>0, <1>3, GainAssumption DEF Fade
<1>4. CASE Begin \/ LeaseOrSkip \/ Nest \/ End \/ Release
  BY <1>0, <1>4 DEF Begin, LeaseOrSkip, Nest, End, Release, Aside
<1>5. CASE Retuned
  <2>1. tune' \in Tunes
    <3>1. tune \in [chan : Channels, offset : 0 .. 1, mode : 0 .. 1]
      BY <1>0 DEF Tunes
    <3>2. \/ \E c \in Channels : tune' = [chan |-> c, offset |-> 0, mode |-> tune.mode]
          \/ tune' = [tune EXCEPT !.offset = 1 - tune.offset]
          \/ tune' = [tune EXCEPT !.mode = 1 - tune.mode]
      BY <1>5 DEF Retuned
    <3>3. \A c \in Channels : [chan |-> c, offset |-> 0, mode |-> tune.mode] \in Tunes
      BY <3>1 DEF Tunes
    <3>4. 1 - tune.offset \in 0 .. 1 /\ 1 - tune.mode \in 0 .. 1
      BY <3>1
    <3>5. [tune EXCEPT !.offset = 1 - tune.offset] \in Tunes
      BY <3>1, <3>4 DEF Tunes
    <3>6. [tune EXCEPT !.mode = 1 - tune.mode] \in Tunes
      BY <3>1, <3>4 DEF Tunes
    <3>7. QED
      BY <3>2, <3>3, <3>5, <3>6
  <2>2. code' \in Codes
    BY <1>0, <1>5, HeldCodeType DEF Retuned, Restored
  <2>3. QED
    BY <1>0, <1>5, <2>1, <2>2 DEF Retuned, Aside
<1>6. CASE Forced
  BY <1>0, <1>6, HeldCodeType DEF Forced, Aside
<1>7. CASE Adopt \/ Age \/ NewEpoch \/ Pause \/ Delay \/ Resume
  BY <1>0, <1>7 DEF Adopt, Age, NewEpoch, Pause, Delay, Resume, Aside
<1>8. CASE Zero
  BY <1>0, <1>8 DEF Zero, Aside
<1>9. CASE Calibrate
  <2>1. CASE Select
    BY <1>0, <2>1, HeldCodeType DEF Select, Elsewhere, Tunes
  <2>2. CASE Hold
    BY <1>0, <2>2, HeldCodeType DEF Hold, Elsewhere
  <2>3. CASE Take
    BY <1>0, <2>3 DEF Take, Elsewhere
  <2>4. CASE NoStep \/ StepLease
    BY <1>0, <2>4 DEF NoStep, StepLease, Elsewhere
  <2>5. CASE StepWrite
    <3>1. cal.row \in Gains /\ trim[cal.row] \in Nat /\ trim[cal.row] + 1 \in 0 .. MaxTrims
      BY <1>0, <2>5 DEF StepWrite, TaskType, TrimOK
    <3>2. [HeldCode(cal.row) EXCEPT !.step = @ + 1] = [row |-> cal.row, step |-> trim[cal.row] + 1]
      BY DEF HeldCode
    <3>3. Stepped \in Codes /\ Torn \in Codes
      BY <3>1, <3>2 DEF Stepped, Codes
    <3>4. code' \in Codes
      BY <1>0, <2>5, <3>3 DEF StepWrite
    <3>5. QED
      BY <1>0, <2>5, <3>4 DEF StepWrite
  <2>8. CASE StepFault
    BY <1>0, <2>8 DEF StepFault, Elsewhere
  <2>6. CASE StepBook
    <3>1. cal.row \in Gains /\ trim[cal.row] \in Nat /\ trim[cal.row] + 1 \in 0 .. MaxTrims
      BY <1>0, <2>6 DEF StepBook, TaskType, TrimOK
    <3>2. QED
      BY <1>0, <2>6, <3>1 DEF StepBook
  <2>7. QED
    BY <1>9, <2>1, <2>2, <2>3, <2>4, <2>5, <2>6, <2>8 DEF Calibrate
<1>10. QED
  BY <1>1, <1>2, <1>3, <1>4, <1>5, <1>6, <1>7, <1>8, <1>9 DEF Next, Control

LEMMA TrimNext == IInv /\ [Next]_vars => TrimOK'
<1> SUFFICES ASSUME IInv, [Next]_vars PROVE TrimOK'
  OBVIOUS
<1> USE DEF TrimOK, dc
<1>0. /\ TrimOK /\ trim \in [Gains -> 0 .. MaxTrims] /\ cal.pc \in CalPcs /\ cal.row \in Gains
      /\ cal \in [pc : CalPcs, row : Gains, mean : SUBSET Sum]
      /\ budget \in [op : 0 .. MaxOps, fade : 0 .. MaxFades, trim : 0 .. MaxTrims, blast : 0 .. MaxBlasts]
      /\ MaxTrims \in Nat /\ MaxOps \in Nat /\ MaxFades \in Nat /\ MaxBlasts \in Nat
  BY BoundAssumption DEF IInv, HwType, TaskType
<1>1. CASE Observe \/ UNCHANGED vars
  BY <1>0, <1>1 DEF Observe, Sleep, Wake, Bind, Copy, Check, Accumulate, Decide, Apply,
     LockRefused, Write, vars
<1>2. CASE Sentinel \/ Start \/ Fade \/ Settle
  BY <1>0, <1>2 DEF Sentinel, Start, Fade, Settle
<1>3. CASE Control
  BY <1>0, <1>3 DEF Control, Begin, LeaseOrSkip, Nest, Retuned, Forced, End, Adopt, Age, Release,
     NewEpoch, Zero, Pause, Delay, Resume, Aside
<1>4. CASE Calibrate
  <2>1. CASE Select
    BY <1>0, <2>1 DEF Select, CalGoto, Elsewhere
  <2>2. CASE Hold \/ Take \/ NoStep
    BY <1>0, <2>2 DEF Hold, Take, NoStep, CalGoto, CalIdle, Elsewhere
  <2>3. CASE StepLease
    BY <1>0, <2>3 DEF StepLease, CalGoto, CalIdle, Elsewhere
  <2>4. CASE StepWrite
    BY <1>0, <2>4 DEF StepWrite, CalGoto, CalIdle
  <2>5. CASE StepFault
    BY <1>0, <2>5 DEF StepFault, CalIdle, Elsewhere
  <2>6. CASE StepBook
    BY <1>0, <2>6 DEF StepBook, CalIdle
  <2>7. QED
    BY <1>4, <2>1, <2>2, <2>3, <2>4, <2>5, <2>6 DEF Calibrate
<1>5. QED
  BY <1>1, <1>2, <1>3, <1>4 DEF Next

\* The loop starts over without evidence.
LEMMA LoopType ==
  ASSUME NEW o \in ObsRec
  PROVE  Loop(o) \in ObsRec /\ Loop(o).pc = "wait" /\ Loop(o).phy = 0
<1>1. MaxGain \in Gains
  BY MaxGainType
<1>2. QED
  BY <1>1 DEF Loop, ObsRec, ObsPcs

LEMMA TaskTypeNext == IInv /\ [Next]_vars => TaskType'
<1> SUFFICES ASSUME IInv, [Next]_vars PROVE TaskType'
  OBVIOUS
<1> USE DEF TaskType
<1>0. /\ TaskType /\ HwType /\ PhyType /\ FlagType /\ MaxGain \in Gains
      /\ MaxTrims \in Nat /\ MaxOps \in Nat /\ MaxFades \in Nat /\ MaxBlasts \in Nat
  BY MaxGainType, BoundAssumption DEF IInv
<1>1. Window \in Wins
  BY <1>0 DEF Window, Wins, HwType, FlagType
<1>2. Context(tune) \in (Channels \cup {None}) \X (0 .. 1)
  BY <1>0 DEF Context, HwType, Tunes
<1>a. \A o \in ObsRec : Loop(o) \in ObsRec /\ Loop(o).pc = "wait"
  BY LoopType
<1>b. obs \in ObsRec /\ obs.target \in Gains
  BY <1>0 DEF ObsRec
<1>3. CASE Sleep \/ Wake \/ UNCHANGED vars
  <2>1. CASE Sleep
    BY <1>0, <1>b, <2>1 DEF Sleep, ObsRec, HasWin, Unseen
  <2>2. CASE Wake
    BY <1>0, <1>b, <2>2 DEF Wake, PhyType, ObsRec, ObsPcs, HasWin
  <2>3. CASE UNCHANGED vars
    BY <1>0, <2>3 DEF vars
  <2>4. QED
    BY <1>3, <2>1, <2>2, <2>3
<1>4. CASE Bind
  <2>1. Bound \in [gain : Gains, ctx : (Channels \cup {None}) \X (0 .. 1), learned : SUBSET Tunes]
    BY <1>0, <1>2, GainAssumption DEF Bound, Clamped, HwType
  <2>2. mail' \in Mails \cup {Empty} /\ UNCHANGED <<cal, budget>> /\ (core' = core \/ core' = Bound)
    BY <1>0, <1>4 DEF Bind, FreeMail
  <2>3. Seen \in [control : Nat, phy : Nat]
    BY <1>b DEF Seen, ObsRec
  <2>4. [obs EXCEPT !.seen = Seen] \in ObsRec /\ [obs EXCEPT !.pc = "copy", !.seen = Seen] \in ObsRec
    BY <1>b, <2>3 DEF ObsRec, ObsPcs
  <2>5. ASSUME mail # Empty
        PROVE  /\ [obs EXCEPT !.pc = "attack", !.seen = Seen, !.win = mail.win] \in ObsRec
               /\ mail.win \in Wins
    BY <1>0, <1>b, <2>3, <2>5 DEF ObsRec, ObsPcs, Mails
  <2>6. obs' \in ObsRec /\ (obs'.pc \in HasWin => obs'.win \in Wins)
    <3>1. CASE paused
      BY <1>4, <1>a, <1>b, <3>1 DEF Bind, Again, HasWin
    <3>2. CASE ~paused /\ mail = Empty
      BY <1>4, <1>b, <2>4, <3>2 DEF Bind, HasWin, ObsRec
    <3>3. CASE ~paused /\ mail # Empty
      <4>1. \/ obs' = [obs EXCEPT !.pc = "attack", !.seen = Seen, !.win = mail.win]
            \/ obs' = Loop([obs EXCEPT !.seen = Seen])
        BY <1>4, <3>3 DEF Bind
      <4>2. CASE obs' = [obs EXCEPT !.pc = "attack", !.seen = Seen, !.win = mail.win]
        <5>1. obs' \in ObsRec /\ mail.win \in Wins
          BY <2>5, <3>3, <4>2
        <5>2. obs'.win = mail.win
          BY <1>b, <4>2 DEF ObsRec
        <5>3. QED
          BY <5>1, <5>2
      <4>3. CASE obs' = Loop([obs EXCEPT !.seen = Seen])
        <5>1. obs' \in ObsRec /\ obs'.pc = "wait"
          BY <1>a, <2>4, <4>3
        <5>2. QED
          BY <5>1 DEF HasWin
      <4>4. QED
        BY <4>1, <4>2, <4>3
    <3>4. QED
      BY <3>1, <3>2, <3>3
  <2>7. QED
    BY <1>0, <2>1, <2>2, <2>6
<1>5. CASE Copy
  BY <1>0, <1>1, <1>b, <1>5 DEF Copy, PhyType, ObsRec, ObsPcs, HasWin
<1>6. CASE Check
  <2>1. obs.win \in Wins
    BY <1>0, <1>6 DEF Check, HasWin
  <2>2. \/ obs' = Loop(obs)
        \/ obs' = [obs EXCEPT !.pc = "sum"]
        \/ obs' = [obs EXCEPT !.pc = "decide"]
    BY <1>6 DEF Check, Again, Goto
  <2>3. obs' \in ObsRec /\ (obs'.pc \in HasWin => obs'.win \in Wins)
    BY <1>a, <1>b, <2>1, <2>2 DEF ObsRec, ObsPcs, HasWin
  <2>4. QED
    BY <1>0, <1>6, <2>3 DEF Check
<1>7. CASE Accumulate
  BY <1>0, <1>7 DEF Accumulate, Goto, ObsRec, ObsPcs, HasWin
<1>8. CASE Decide
  <2>1. obs.win \in Wins /\ core.gain \in Gains
    BY <1>0, <1>8 DEF Decide, HasWin
  <2>2. PICK target \in Targets :
          /\ obs' = [obs EXCEPT !.pc = "apply", !.target = target]
          /\ core' = [core EXCEPT !.gain = target,
                                  !.learned = IF Learns THEN core.learned \cup {obs.win.tune} ELSE core.learned]
    BY <1>8 DEF Decide
  <2>3. target \in Gains
    BY <2>1 DEF Targets, Wins
  <2>4. obs' \in ObsRec /\ obs'.win = obs.win
    BY <1>b, <2>2, <2>3 DEF ObsRec, ObsPcs
  <2>5. QED
    BY <1>0, <1>8, <2>1, <2>2, <2>3, <2>4 DEF Decide, Learns, Wins
<1>9. CASE Apply \/ LockRefused
  <2>1. CASE LockRefused
    BY <1>0, <1>a, <1>b, <2>1 DEF LockRefused, Refused, Again, HasWin, HwType
  <2>2. CASE Apply
    <3>1. \/ obs' = [obs EXCEPT !.pc = "lock"] /\ core' = core
          \/ obs' = Loop(obs) /\ core' = [core EXCEPT !.gain = curGain]
      BY <2>2 DEF Apply, Refused, Again, Goto
    <3>2. obs.win \in Wins /\ curGain \in Gains /\ UNCHANGED <<mail, cal, budget>>
      BY <1>0, <2>2 DEF Apply, HasWin, HwType
    <3>3. QED
      BY <1>0, <1>a, <1>b, <3>1, <3>2 DEF ObsRec, ObsPcs, HasWin
  <2>3. QED
    BY <1>9, <2>1, <2>2
<1>10. CASE Write
  BY <1>0, <1>a, <1>b, <1>10 DEF Write, Again, HasWin
<1>11. CASE Sentinel
  BY <1>0, <1>1, <1>11 DEF Sentinel, Mails, PhyType
<1>12. CASE Start \/ Fade \/ Settle
  <2>1. CASE Settle
    BY <1>0, <2>1 DEF Settle
  <2>2. CASE Start \/ Fade
    <3>1. budget' \in [op : 0 .. MaxOps, fade : 0 .. MaxFades, trim : 0 .. MaxTrims, blast : 0 .. MaxBlasts]
      BY <1>0, <2>2 DEF Start, Fade
    <3>2. QED
      BY <1>0, <2>2, <3>1 DEF Start, Fade
  <2>3. QED
    BY <1>12, <2>1, <2>2
<1>13. CASE Control
  BY <1>0, <1>13 DEF Control, Begin, LeaseOrSkip, Nest, Retuned, Forced, End, Adopt, Age, Release,
     NewEpoch, Zero, Pause, Delay, Resume, Aside
<1>14. CASE Calibrate
  <2>1. CASE Select \/ Hold \/ NoStep \/ StepLease \/ StepFault
    BY <1>0, <2>1 DEF Select, Hold, NoStep, StepLease, StepFault, Elsewhere, CalGoto, CalIdle, CalPcs
  <2>2. CASE Take
    BY <1>0, <2>2 DEF Take, Elsewhere, CalIdle, CalPcs, HwType
  <2>3. CASE StepWrite \/ StepBook
    <3>1. budget.trim < MaxTrims
      BY <2>3 DEF StepWrite, StepBook, IInv, TrimOK
    <3>2. budget' \in [op : 0 .. MaxOps, fade : 0 .. MaxFades, trim : 0 .. MaxTrims, blast : 0 .. MaxBlasts]
      BY <1>0, <2>3, <3>1 DEF StepWrite, StepBook
    <3>3. QED
      BY <1>0, <2>3, <3>2 DEF StepWrite, StepBook, CalGoto, CalIdle, CalPcs
  <2>4. QED
    BY <1>14, <2>1, <2>2, <2>3 DEF Calibrate
<1>15. QED
  BY <1>3, <1>4, <1>5, <1>6, <1>7, <1>8, <1>9, <1>10, <1>11, <1>12, <1>13, <1>14 DEF Next, Observe

\* Who moves what of the PHY: the tuning only a step inside a transaction,
\* the gain such a step or the observer's write, the generation its end.
LEMMA PhyMoves ==
  ASSUME IInv, [Next]_vars
  PROVE  \/ UNCHANGED <<depth, gen, tune, hwGain>>
         \/ depth' = 1 /\ UNCHANGED <<gen, mail, obs, gainEpoch, core, sums, label>>
         \/ End /\ gen' = gen + 1 /\ UNCHANGED <<mail, obs, gainEpoch, core, sums, label>>
         \/ Write
<1> USE DEF phy, hw, epoch
<1>1. CASE Retuned \/ Forced
  <2>1. Head(todo) \in Inside /\ todo # <<>>
    BY <1>1 DEF Retuned, Forced, Doing, Inside
  <2>2. depth = 1
    BY <2>1 DEF IInv, TransactionOK
  <2>3. QED
    BY <1>1, <2>2 DEF Retuned, Forced, Aside
<1>2. CASE Begin \/ Nest
  BY <1>2 DEF Begin, Nest, Aside
<1>3. CASE End
  BY <1>3 DEF End, Aside
<1>4. CASE Observe \/ UNCHANGED vars
  BY <1>4 DEF Observe, Sleep, Wake, Bind, Copy, Check, Accumulate, Decide, Apply, LockRefused, vars
<1>5. CASE Sentinel \/ Start \/ Fade \/ Settle
  BY <1>5 DEF Sentinel, Start, Fade, Settle
<1>6. CASE LeaseOrSkip \/ Release \/ Adopt \/ Age \/ NewEpoch \/ Zero \/ Pause \/ Delay \/ Resume
  BY <1>6 DEF LeaseOrSkip, Release, Adopt, Age, NewEpoch, Zero, Pause, Delay, Resume
<1>7. CASE Calibrate
  BY <1>7 DEF Calibrate, Select, Hold, Take, NoStep, StepLease, StepWrite, StepFault, StepBook
<1>8. QED
  BY <1>1, <1>2, <1>3, <1>4, <1>5, <1>6, <1>7 DEF Next, Control

\* What moves of the evidence: only the observer's own steps, the sentinel,
\* and the steps that age the gain.
LEMMA EvidenceMoves ==
  ASSUME [Next]_vars
  PROVE  \/ Observe \/ Sentinel
         \/ /\ UNCHANGED <<mail, obs, core, label>>
            /\ gainEpoch' = gainEpoch \/ gainEpoch' = gainEpoch + 1
            /\ \/ sums' = sums \/ sums' = [g \in Gains |-> {}]
               \/ \E g \in Gains : sums' = [sums EXCEPT ![g] = {}]
               \/ sums' = [sums EXCEPT ![cal.row] = {}]
<1> USE DEF epoch, dc
<1>1. CASE Start \/ Fade \/ Settle \/ UNCHANGED vars
  BY <1>1 DEF Start, Fade, Settle, vars
<1>2. CASE Control
  BY <1>2 DEF Control, Begin, LeaseOrSkip, Nest, Retuned, Forced, End, Adopt, Age, Release,
     NewEpoch, Zero, Pause, Delay, Resume, Aside
<1>3. CASE Calibrate
  BY <1>3 DEF Calibrate, Select, Hold, Take, NoStep, StepLease, StepWrite, StepFault, StepBook, Elsewhere
<1>4. QED
  BY <1>1, <1>2, <1>3 DEF Next

LEMMA GenNext == IInv /\ [Next]_vars => GenOK'
<1> SUFFICES ASSUME IInv, [Next]_vars PROVE GenOK'
  OBVIOUS
<1> USE DEF GenOK
<1>0. /\ GenOK /\ gen \in Nat /\ gainEpoch \in Nat
      /\ obs \in ObsRec /\ obs.phy \in Nat /\ label \in [control : Nat, phy : Nat]
      /\ mail \in Mails \cup {Empty} /\ mail.phy \in Nat /\ mail.gain \in Nat
  BY DEF IInv, PhyType, HwType, TaskType, ObsRec, Mails, Empty
<1>a. \A o \in ObsRec : Loop(o).phy = 0
  BY LoopType
<1>1. gen' \in Nat /\ gen <= gen'
  <2>1. Write => gen' = gen
    BY DEF Write, phy
  <2>2. gen' = gen \/ gen' = gen + 1
    BY <2>1, PhyMoves
  <2>3. QED
    BY <1>0, <2>2
<1>2. CASE Observe
  <2>1. CASE Sleep
    BY <1>0, <2>1 DEF Sleep, phy, epoch, dc, Empty
  <2>2. CASE Wake
    BY <1>0, <2>2 DEF Wake, phy, epoch, dc, ObsRec
  <2>3. CASE Bind
    <3>1. Seen \in [control : Nat, phy : Nat]
      BY <1>0 DEF Seen, ObsRec
    <3>2. [obs EXCEPT !.seen = Seen] \in ObsRec
      BY <1>0, <3>1 DEF ObsRec
    <3>3. obs'.phy \in {obs.phy, 0} /\ mail' \in {mail, Empty}
      BY <1>0, <1>a, <2>3, <3>2 DEF Bind, FreeMail, Again, ObsRec
    <3>4. QED
      BY <1>0, <2>3, <3>3 DEF Bind, phy, epoch, dc, Empty
  <2>4. CASE Copy \/ Check \/ Decide
    <3>1. obs'.phy \in {obs.phy, 0}
      BY <1>0, <1>a, <2>4 DEF Copy, Check, Decide, Again, Goto, ObsRec
    <3>2. UNCHANGED <<gen, gainEpoch, mail, label>>
      BY <2>4 DEF Copy, Check, Decide, phy, epoch, dc
    <3>3. QED
      BY <1>0, <3>1, <3>2
  <2>5. CASE Accumulate
    BY <1>0, <2>5 DEF Accumulate, Goto, Seen, phy, epoch, ObsRec
  <2>6. CASE Apply \/ LockRefused
    <3>1. obs'.phy \in {obs.phy, 0}
      BY <1>0, <1>a, <2>6 DEF Apply, LockRefused, Again, Goto, ObsRec
    <3>2. QED
      BY <1>0, <2>6, <3>1 DEF Apply, LockRefused, phy, epoch, dc
  <2>7. CASE Write
    BY <1>0, <2>7 DEF Write, Again, Loop, phy, dc, ObsRec
  <2>8. QED
    BY <1>2, <2>1, <2>2, <2>3, <2>4, <2>5, <2>6, <2>7 DEF Observe
<1>3. CASE Sentinel
  BY <1>0, <1>3 DEF Sentinel, phy, epoch, dc
<1>4. QED
  BY <1>0, <1>1, <1>2, <1>3, EvidenceMoves

LEMMA LearnNext == IInv /\ [Next]_vars => LearnOK'
<1> SUFFICES ASSUME IInv, [Next]_vars PROVE LearnOK'
  OBVIOUS
<1> USE DEF LearnOK, MapOneContext
<1>0. /\ LearnOK /\ obs \in ObsRec
      /\ core \in [gain : Gains, ctx : (Channels \cup {None}) \X (0 .. 1), learned : SUBSET Tunes]
  BY DEF IInv, TaskType
<1>1. CASE Sleep \/ Wake \/ Copy \/ Accumulate
  BY <1>0, <1>1 DEF Sleep, Wake, Copy, Accumulate, Goto, ObsRec
<1>2. CASE Bind
  <2>1. obs'.pc \in {"wait", "copy", "attack"}
    BY <1>0, <1>2 DEF Bind, Again, Loop, ObsRec
  <2>2. core' = core \/ core' = Bound
    BY <1>2 DEF Bind
  <2>3. QED
    BY <1>0, <2>1, <2>2 DEF Bound
<1>3. CASE Check
  <2>1. CASE ~Unmoved
    BY <1>0, <1>3, <2>1 DEF Check, Again, Loop, ObsRec
  <2>2. CASE Unmoved
    <3>1. obs.win.tune = tune
      BY <1>3, <2>2 DEF IInv, WinOK, Check, Unmoved, Present, HasWin
    <3>2. UNCHANGED core /\ obs'.win = obs.win /\ core.ctx = Context(tune)
      BY <1>0, <1>3, <2>2 DEF Check, Unmoved, Goto, ObsRec
    <3>3. QED
      BY <1>0, <3>1, <3>2
  <2>3. QED
    BY <2>1, <2>2
<1>4. CASE Decide
  <2>1. obs'.pc = "apply" /\ core'.ctx = core.ctx
    BY <1>0, <1>4 DEF Decide, ObsRec
  <2>2. core'.learned \subseteq core.learned \cup (IF Learns THEN {obs.win.tune} ELSE {})
    BY <1>0, <1>4 DEF Decide
  <2>3. QED
    BY <1>0, <2>1, <2>2 DEF Learns
<1>5. CASE Apply \/ LockRefused \/ Write
  <2>1. obs'.pc \in {"wait", "lock"}
    BY <1>0, <1>5, LoopType DEF Apply, LockRefused, Write, Again, Goto, ObsRec
  <2>2. core' = core \/ \E g : core' = [core EXCEPT !.gain = g]
    BY <1>5 DEF Apply, LockRefused, Write, Refused
  <2>3. core'.ctx = core.ctx /\ core'.learned = core.learned
    BY <1>0, <2>2
  <2>4. QED
    BY <1>0, <2>1, <2>3
<1>6. CASE Sentinel
  BY <1>0, <1>6 DEF Sentinel
<1>7. QED
  BY <1>0, <1>1, <1>2, <1>3, <1>4, <1>5, <1>6, EvidenceMoves DEF Observe

LEMMA WinNext == IInv /\ [Next]_vars => WinOK'
<1> SUFFICES ASSUME IInv, [Next]_vars PROVE WinOK'
  OBVIOUS
<1> USE DEF WinOK, Present
<1>0. /\ WinOK /\ GenOK /\ gen \in Nat /\ gainEpoch \in Nat /\ depth \in 0 .. 1 /\ obs \in ObsRec
      /\ obs.phy \in Nat /\ mail.phy \in Nat /\ mail.gain \in Nat
  BY DEF IInv, PhyType, TaskType, ObsRec, Mails, Empty
<1>1. CASE depth' = 1
  BY <1>1
<1>2. CASE gen' = gen + 1 /\ UNCHANGED <<mail, obs>>
  BY <1>0, <1>2 DEF GenOK
<1>3. CASE Write
  <2>1. obs'.pc = "wait"
    BY <1>0, <1>3, LoopType DEF Write, Again
  <2>2. mail' = mail /\ tune' = tune /\ gen' = gen /\ depth' = depth /\ gainEpoch' = gainEpoch + 1
    BY <1>3 DEF Write, phy
  <2>3. mail.gain # gainEpoch'
    BY <1>0, <2>2 DEF GenOK
  <2>4. QED
    BY <1>0, <2>1, <2>2, <2>3 DEF HasWin
<1>4. CASE UNCHANGED <<depth, gen, tune, hwGain>> /\ ~Write
  <2> USE <1>4
  <2>1. CASE Sleep \/ Wake
    BY <1>0, <2>1 DEF Sleep, Wake, epoch, HasWin, ObsRec
  <2>2. CASE Bind
    <3>1. mail' = Empty \/ (mail' = mail /\ gainEpoch' = gainEpoch)
      BY <2>2 DEF Bind, FreeMail, epoch
    <3>2. \/ obs'.pc \in {"wait", "copy"}
          \/ /\ mail # Empty /\ mail.gain = gainEpoch /\ mail.phy = obs.phy
             /\ obs' = [obs EXCEPT !.pc = "attack", !.seen = Seen, !.win = mail.win]
      <4>1. [obs EXCEPT !.seen = Seen] \in ObsRec
        BY <1>0 DEF Seen, ObsRec
      <4>2. QED
        BY <1>0, <2>2, <4>1, LoopType DEF Bind, Again, Current, ObsRec
    <3>3. QED
      BY <1>0, <3>1, <3>2 DEF HasWin, ObsRec
  <2>3. CASE Copy
    BY <1>0, <2>3 DEF Copy, Window, epoch, ObsRec
  <2>4. CASE Check \/ Accumulate \/ Decide \/ Apply \/ LockRefused
    <3>1. obs'.pc = "wait" \/ (obs.pc \in HasWin /\ obs'.win = obs.win /\ obs'.phy = obs.phy)
      BY <1>0, <2>4, LoopType DEF Check, Accumulate, Decide, Apply, LockRefused, Again, Goto, HasWin, ObsRec
    <3>2. UNCHANGED <<mail, gainEpoch>>
      BY <2>4 DEF Check, Accumulate, Decide, Apply, LockRefused, epoch
    <3>3. QED
      BY <1>0, <3>1, <3>2 DEF HasWin
  <2>5. CASE Sentinel
    BY <1>0, <2>5 DEF Sentinel, Window, epoch
  <2>6. CASE UNCHANGED <<mail, obs>> /\ (gainEpoch' = gainEpoch \/ gainEpoch' = gainEpoch + 1)
    BY <1>0, <2>6 DEF GenOK
  <2>7. QED
    BY <2>1, <2>2, <2>3, <2>4, <2>5, <2>6, EvidenceMoves DEF Observe
<1>5. QED
  BY <1>1, <1>2, <1>3, <1>4, PhyMoves

LEMMA SumNext == IInv /\ [Next]_vars => SumOK'
<1> SUFFICES ASSUME IInv, [Next]_vars PROVE SumOK'
  OBVIOUS
<1> USE DEF SumOK, SumsOneContext, Present
<1>0. /\ SumOK /\ GenOK /\ WinOK /\ gen \in Nat /\ depth \in 0 .. 1 /\ obs \in ObsRec /\ curGain \in Gains
      /\ obs.phy \in Nat /\ label \in [control : Nat, phy : Nat] /\ label.phy \in Nat
      /\ sums \in [Gains -> SUBSET Sum]
  BY DEF IInv, PhyType, HwType, TaskType, ObsRec
<1>1. CASE Accumulate
  <2> DEFINE new == [tune |-> obs.win.tune, code |-> obs.win.code]
             kept == IF Restarts THEN [g \in Gains |-> {}] ELSE sums
  <2>1. sums' = [kept EXCEPT ![curGain] = kept[curGain] \cup {new}] /\ label' = Seen /\ obs'.pc = "decide"
    BY <1>0, <1>1 DEF Accumulate, Goto, ObsRec
  <2>2. kept \in [Gains -> SUBSET Sum]
    BY <1>0
  <2>3. \A g \in Gains : \A w \in kept[g] : w.tune = obs.win.tune
    BY <1>0, <1>1 DEF Accumulate, Restarts, Seen
  <2>4. \A g \in Gains : \A w \in sums'[g] : w.tune = obs.win.tune
    <3> HIDE DEF kept
    <3>1. new.tune = obs.win.tune
      OBVIOUS
    <3> HIDE DEF new
    <3>2. QED
      BY <2>1, <2>2, <2>3, <3>1
  <2>5. label'.phy = gen' /\ depth' = 0 => obs.win.tune = tune'
    BY <1>0, <1>1, <2>1 DEF Accumulate, WinOK, HasWin, Seen, phy, hw
  <2>6. QED
    BY <2>1, <2>4, <2>5
<1>2. CASE ~Accumulate /\ Observe
  <2>1. UNCHANGED <<sums, label, depth, gen, tune>>
    BY <1>2 DEF Observe, Sleep, Wake, Bind, Copy, Check, Decide, Apply, LockRefused, Write, phy, hw, dc
  <2>2. CASE Check /\ Unmoved
    <3>1. obs.win.tune = tune /\ obs.phy = gen /\ depth = 0
      BY <1>0, <2>2 DEF Check, Unmoved, WinOK, HasWin
    <3>2. obs'.win = obs.win /\ obs'.phy = obs.phy
      BY <1>0, <2>2 DEF Check, Goto, ObsRec
    <3>3. QED
      BY <1>0, <2>1, <3>1, <3>2
  <2>3. CASE ~(Check /\ Unmoved)
    <3>1. obs'.pc # "sum"
      <4>0. [obs EXCEPT !.seen = Seen] \in ObsRec
        BY <1>0 DEF Seen, ObsRec
      <4>1. QED
        BY <1>0, <1>2, <2>3, <4>0, LoopType DEF Observe, Sleep, Wake, Bind, Copy, Check, Decide, Apply,
           LockRefused, Write, Again, Goto, ObsRec
    <3>2. QED
      BY <1>0, <2>1, <3>1
  <2>4. QED
    BY <2>2, <2>3
<1>3. CASE Sentinel
  BY <1>0, <1>3 DEF Sentinel, phy, hw, dc
<1>4. CASE ~Observe /\ ~Sentinel
  <2>1. /\ UNCHANGED <<obs, label>>
        /\ \A g \in Gains : sums'[g] \subseteq sums[g]
    BY <1>0, <1>4, EvidenceMoves
  <2>2. Present(label.phy)' => Present(label.phy) /\ tune' = tune
    BY <1>0, <1>4, <2>1, PhyMoves DEF GenOK, Observe
  <2>3. QED
    BY <1>0, <2>1, <2>2
<1>5. QED
  BY <1>1, <1>2, <1>3, <1>4

LEMMA Inductive == Spec => []IInv
<1>1. IInv /\ [Next]_vars => IInv'
  BY PhyTypeNext, FlagTypeNext, HwTypeNext, TaskTypeNext, TransactionNext, TrimNext, GenNext,
     WinNext, LearnNext, SumNext DEF IInv
<1>2. QED
  BY <1>1, InitIInv, PTL DEF Spec

-----------------------------------------------------------------------------
\* Every variable keeps its type, and only the control task is ever inside a
\* PHY transaction of its own.
THEOREM TypeCorrect == Spec => []TypeOK
<1>1. IInv => TypeOK
  BY DEF IInv, TypeOK, PhyType, FlagType, HwType, TaskType, TransactionOK, ObsRec, Sum
<1>2. QED
  BY <1>1, Inductive, PTL

\* Whatever interleaves, the observer only writes a gain it decided on a
\* window of the present tuning and gain, and never into a transaction.
THEOREM CurrentWrites == Spec => WritesAreCurrent
<1>1. IInv /\ [Next]_vars => [Write => obs.win.tune = tune /\ obs.win.gain = hwGain /\ depth = 0]_vars
  BY DEF Write, Lease, Actuator, IInv, WinOK, Present, HasWin
<1>2. QED
  BY <1>1, Inductive, PTL DEF Spec, WritesAreCurrent

\* Neither the learned gain map nor a row's DC mean mixes two contexts.
THEOREM LearnsPure == Spec => []LearnsOneContext
<1>1. IInv => LearnsOneContext
  BY DEF IInv, LearnOK, SumOK, LearnsOneContext
<1>2. QED
  BY <1>1, Inductive, PTL

-----------------------------------------------------------------------------
(* The gain in force, the software's idea of it, and the core's.           *)
(*                                                                         *)
(* Only a scan forces a gain without booking it in the same step, and      *)
(* only with the receiver paused and the observer parked at its wake-up.   *)

Marks == {"pause", "forceScan", "adoptScan", "forceMax", "adoptMax", "resume"}
Scan(s) == \E i \in DOMAIN s : s[i] \in Marks
EndOfScan(s) ==
  Scan(s) => Len(s) \in 2 .. 17 /\ \A i \in DOMAIN s : s[i] = Script("scan")[17 - Len(s) + i]

\* A scan with m to n steps to go.
Left(m, n) == Scan(todo) /\ Len(todo) \in m .. n

ScanOK ==
  /\ EndOfScan(todo)
  /\ Left(2, 16) => paused
  /\ Left(2, 15) => obs.pc = "wait"
GainOK ==
  /\ Left(2, 5) => hwGain = MaxGain
  /\ ~Left(4, 13) => curGain = hwGain
\* The core is at the gain in force, or where a reset lifted it to.
AtGain == core.gain \in {curGain, Clamped(curGain)}
\* Bind takes the gain over, and it stays until the observer decides; a scan's
\* own gain is in force until its new control epoch has the core bound again.
CoreOK ==
  /\ 0 < control /\ obs.seen.control <= control /\ obs.control <= control
  /\ obs.pc \in {"copy", "check", "sum", "decide", "attack"} => AtGain
  /\ obs.pc \in {"wait", "bind"} /\ obs.seen.control = control => AtGain \/ Left(3, 11)

LEMMA ScanHead ==
  ASSUME NEW s \in Seq(Steps), EndOfScan(s), s # <<>>
  PROVE  /\ EndOfScan(Tail(s)) /\ (Scan(Tail(s)) => Scan(s))
         /\ Len(s) \in Nat /\ Len(Tail(s)) = Len(s) - 1
         /\ Head(s) \in Marks => Scan(s)
         /\ Scan(s) => /\ Len(s) \in 2 .. 17 /\ (Len(s) > 2 => Scan(Tail(s)))
                       /\ Head(s) # "lease"
                       /\ Head(s) = "pause" <=> Len(s) = 17
                       /\ Len(s) = 16 => Head(s) = "delay"
                       /\ Head(s) = "forceScan" <=> Len(s) = 14
                       /\ Head(s) = "adoptScan" <=> Len(s) = 12
                       /\ Head(s) = "forceMax" <=> Len(s) = 6
                       /\ Head(s) = "adoptMax" <=> Len(s) = 4
                       /\ Len(s) = 3 => Head(s) = "epoch"
                       /\ Head(s) = "resume" <=> Len(s) = 2
<1>1. /\ Len(s) \in Nat /\ Len(s) > 0 /\ Head(s) = s[1] /\ DOMAIN s = 1 .. Len(s)
      /\ Tail(s) \in Seq(Steps) /\ Len(Tail(s)) = Len(s) - 1 /\ DOMAIN Tail(s) = 1 .. Len(s) - 1
      /\ \A i \in 1 .. Len(s) - 1 : Tail(s)[i] = s[i + 1]
  OBVIOUS
<1>2. Scan(Tail(s)) => Scan(s)
  <2>1. ASSUME NEW i \in DOMAIN Tail(s) PROVE i + 1 \in DOMAIN s /\ Tail(s)[i] = s[i + 1]
    BY <1>1
  <2>2. QED
    BY <2>1 DEF Scan
<1>3. Scan(s) => Len(s) \in 2 .. 17 /\ \A i \in 1 .. Len(s) : s[i] = Script("scan")[17 - Len(s) + i]
  BY <1>1 DEF EndOfScan
<1>4. EndOfScan(Tail(s))
  <2>1. SUFFICES ASSUME Scan(Tail(s))
                 PROVE  /\ Len(s) - 1 \in 2 .. 17
                        /\ \A i \in 1 .. Len(s) - 1 : s[i + 1] = Script("scan")[17 - (Len(s) - 1) + i]
    BY <1>1 DEF EndOfScan
  <2>2. Scan(s) /\ Len(s) \in 2 .. 17
    BY <1>2, <1>3, <2>1
  <2>3. ASSUME NEW i \in 1 .. Len(s) - 1 PROVE s[i + 1] = Script("scan")[17 - (Len(s) - 1) + i]
    <3>1. i + 1 \in 1 .. Len(s) /\ 17 - Len(s) + (i + 1) = 17 - (Len(s) - 1) + i
      BY <1>1
    <3>2. s[i + 1] = Script("scan")[17 - Len(s) + (i + 1)]
      BY <1>3, <2>2, <3>1
    <3>3. QED
      BY <3>1, <3>2
  <2>4. Len(s) # 2
    <3>1. SUFFICES ASSUME Len(s) = 2 PROVE FALSE
      OBVIOUS
    <3>2. s[2] = Script("scan")[17]
      BY <1>3, <2>2, <3>1
    <3>3. s[2] \notin Marks
      BY <3>2 DEF Script, Marks
    <3>4. \A i \in DOMAIN Tail(s) : Tail(s)[i] = s[2]
      BY <1>1, <3>1
    <3>5. QED
      BY <2>1, <3>3, <3>4 DEF Scan
  <2>5. Len(s) - 1 \in 2 .. 17
    <3>1. PICK l \in 2 .. 17 : l = Len(s)
      BY <2>2
    <3>2. l # 2
      BY <2>4, <3>1
    <3>3. l - 1 \in 2 .. 17
      BY <3>2
    <3>4. QED
      BY <3>1, <3>3
  <2>6. QED
    BY <2>3, <2>5
<1>5. Head(s) \in Marks => Scan(s)
  BY <1>1 DEF Scan
<1>6. ASSUME Scan(s), Len(s) > 2 PROVE Scan(Tail(s))
  <2>1. Len(s) - 1 \in 1 .. Len(s) /\ 17 - Len(s) + (Len(s) - 1) = 16
    BY <1>1, <1>6
  <2>2. s[Len(s) - 1] = Script("scan")[16]
    BY <1>3, <1>6, <2>1
  <2>3. Script("scan")[16] = "resume"
    BY DEF Script
  <2>4. Len(s) - 2 \in 1 .. Len(s) - 1 /\ Len(s) - 2 + 1 = Len(s) - 1
    BY <1>1, <1>6
  <2>5. Tail(s)[Len(s) - 2] = "resume"
    BY <1>1, <2>2, <2>3, <2>4
  <2>6. QED
    BY <1>1, <2>4, <2>5 DEF Scan, Marks
<1>7. ASSUME Scan(s)
      PROVE  /\ Head(s) # "lease"
             /\ Head(s) = "pause" <=> Len(s) = 17
             /\ Len(s) = 16 => Head(s) = "delay"
             /\ Head(s) = "forceScan" <=> Len(s) = 14
             /\ Head(s) = "adoptScan" <=> Len(s) = 12
             /\ Head(s) = "forceMax" <=> Len(s) = 6
             /\ Head(s) = "adoptMax" <=> Len(s) = 4
             /\ Len(s) = 3 => Head(s) = "epoch"
             /\ Head(s) = "resume" <=> Len(s) = 2
  <2>1. Len(s) \in 2 .. 17 /\ Head(s) = Script("scan")[18 - Len(s)]
    <3>1. 1 \in 1 .. Len(s) /\ 17 - Len(s) + 1 = 18 - Len(s)
      BY <1>1
    <3>2. QED
      BY <1>1, <1>3, <1>7, <3>1
  <2>a. PICK l \in 2 .. 17 : l = Len(s)
    BY <2>1
  <2>2. PICK n : n = 18 - l
    OBVIOUS
  <2>b. n \in 1 .. 17
    BY <2>2
  <2>3. /\ Script("scan")[n] # "lease"
        /\ Script("scan")[n] = "pause" <=> n = 1
        /\ n = 2 => Script("scan")[n] = "delay"
        /\ Script("scan")[n] = "forceScan" <=> n = 4
        /\ Script("scan")[n] = "adoptScan" <=> n = 6
        /\ Script("scan")[n] = "forceMax" <=> n = 12
        /\ Script("scan")[n] = "adoptMax" <=> n = 14
        /\ n = 15 => Script("scan")[n] = "epoch"
        /\ Script("scan")[n] = "resume" <=> n = 16
    BY <2>b DEF Script
  <2>4. Head(s) = Script("scan")[n]
    BY <2>1, <2>a, <2>2
  <2>5. /\ l = 17 <=> n = 1
        /\ l = 16 <=> n = 2
        /\ l = 14 <=> n = 4
        /\ l = 12 <=> n = 6
        /\ l = 6 <=> n = 12
        /\ l = 4 <=> n = 14
        /\ l = 3 <=> n = 15
        /\ l = 2 <=> n = 16
    BY <2>2
  <2>6. QED
    BY <2>a, <2>3, <2>4, <2>5
<1>8. QED
  BY <1>1, <1>2, <1>3, <1>4, <1>5, <1>6, <1>7

LEMMA ScriptScan ==
  ASSUME NEW op \in Ops
  PROVE  EndOfScan(Script(op)) /\ (Scan(Script(op)) => Len(Script(op)) = 17)
<1>1. CASE op = "retune" \/ op = "afc" \/ op = "dfilt"
  <2>1. ~Scan(Script(op))
    BY <1>1 DEF Script, Scan, Marks
  <2>2. QED
    BY <2>1 DEF EndOfScan
<1>2. CASE op = "scan"
  <2>1. Len(Script("scan")) = 17
    BY DEF Script
  <2>2. \A i \in DOMAIN Script("scan") : i \in Nat
    BY DEF Script
  <2>3. \A i \in DOMAIN Script("scan") : 17 - Len(Script("scan")) + i = i
    <3>1. \A i \in Nat : 17 - 17 + i = i
      OBVIOUS
    <3>2. QED
      BY <2>1, <2>2, <3>1
  <2>4. \A i \in DOMAIN Script("scan") :
          Script("scan")[i] = Script("scan")[17 - Len(Script("scan")) + i]
    BY <2>3
  <2>5. QED
    BY <1>2, <2>1, <2>4 DEF EndOfScan
<1>3. QED
  BY <1>1, <1>2, OpsAssumption

LEMMA LoopKeeps ==
  ASSUME NEW o \in ObsRec
  PROVE  Loop(o).pc = "wait" /\ Loop(o).seen = o.seen /\ Loop(o).control = 0
<1>1. MaxGain \in Gains
  BY MaxGainType
<1>2. QED
  BY <1>1 DEF Loop, ObsRec, ObsPcs

\* What a step of the control task does with the script and the gains.
LEMMA ControlMoves ==
  ASSUME Control
  PROVE  /\ todo # <<>> /\ UNCHANGED <<obs, core>>
         /\ todo' = Tail(todo) \/ (todo' = <<>> /\ Head(todo) \in {"lease", "pause"})
         /\ Head(todo) = "pause" => paused'
         /\ Head(todo) \notin {"pause", "resume"} => paused' = paused
         /\ Head(todo) = "delay" => obs.pc = "wait"
         /\ Head(todo) = "forceMax" => hwGain' = MaxGain
         /\ Head(todo) \notin {"forceScan", "forceMax"} => hwGain' = hwGain
         /\ Head(todo) = "adoptMax" => curGain' = MaxGain
         /\ Head(todo) \notin {"adoptScan", "adoptMax"} => curGain' = curGain
         /\ Head(todo) = "epoch" => control' = control + 1
         /\ Head(todo) # "epoch" => control' = control
<1>1. CASE Begin \/ LeaseOrSkip \/ Nest \/ End \/ Release \/ Zero
  BY <1>1 DEF Begin, LeaseOrSkip, Nest, End, Release, Zero, Doing, Aside, hw, epoch
<1>2. CASE Retuned \/ Forced
  BY <1>2 DEF Retuned, Forced, Doing, Aside, epoch
<1>3. CASE Adopt \/ Age \/ NewEpoch
  BY <1>3 DEF Adopt, Age, NewEpoch, Doing, Aside, hw
<1>4. CASE Pause \/ Delay \/ Resume
  BY Zenon, <1>4 DEF Pause, Delay, Resume, Doing, Aside, hw, epoch
<1>5. QED
  BY <1>1, <1>2, <1>3, <1>4 DEF Control

\* The other tasks leave the script alone, and only the observer writes a gain.
LEMMA OtherMoves ==
  ASSUME [Next]_vars, ~Control, ~Start
  PROVE  /\ UNCHANGED <<todo, control>> /\ (paused => paused')
         /\ UNCHANGED <<hwGain, curGain>> \/ (Write /\ ~paused /\ obs.pc = "lock" /\ hwGain' = curGain')
         /\ UNCHANGED <<obs, core, curGain>> \/ Observe
<1>1. CASE Sentinel \/ Fade \/ Settle \/ UNCHANGED vars
  BY <1>1 DEF Sentinel, Fade, Settle, hw, epoch, vars
<1>2. CASE Calibrate
  BY <1>2 DEF Calibrate, Select, Hold, Take, NoStep, StepLease, StepWrite, StepFault, StepBook, Elsewhere,
     hw, epoch
<1>3. CASE Observe /\ ~Write
  <2>1. UNCHANGED <<todo, paused, control, hwGain, curGain>>
    BY Zenon, <1>3 DEF Observe, Sleep, Wake, Bind, Copy, Check, Accumulate, Decide, Apply, LockRefused, hw, epoch
  <2>2. QED
    BY <1>3, <2>1
<1>4. CASE Write
  BY <1>4 DEF Write, Observe, Active
<1>5. QED
  BY <1>1, <1>2, <1>3, <1>4 DEF Next

LEMMA ScanNext ==
  ASSUME IInv, ScanOK, [Next]_vars
  PROVE  ScanOK'
<1>0. /\ todo \in Seq(Steps) /\ obs \in ObsRec
      /\ EndOfScan(todo) /\ (Left(2, 16) => paused) /\ (Left(2, 15) => obs.pc = "wait")
  BY DEF IInv, TransactionOK, Chained, TaskType, ScanOK
<1>1. CASE Start
  <2>1. PICK op \in Ops : todo' = Script(op)
    BY <1>1 DEF Start
  <2>2. EndOfScan(todo') /\ (Scan(todo') => Len(todo') = 17)
    BY <2>1, ScriptScan
  <2>3. QED
    BY <2>2 DEF ScanOK, Left
<1>2. CASE Control
  <2>1. CASE todo' = <<>>
    <3>1. ~Scan(todo')
      BY <2>1 DEF Scan
    <3>2. QED
      BY <3>1 DEF ScanOK, EndOfScan, Left
  <2>2. CASE todo' = Tail(todo)
    <3>1. /\ EndOfScan(todo') /\ (Scan(todo') => Scan(todo)) /\ Len(todo) \in Nat /\ Len(todo') = Len(todo) - 1
          /\ Scan(todo) => /\ Head(todo) = "pause" <=> Len(todo) = 17
                           /\ Len(todo) = 16 => Head(todo) = "delay"
                           /\ Head(todo) = "resume" <=> Len(todo) = 2
      BY <1>0, <1>2, <2>2, ScanHead, ControlMoves
    <3>2. PICK l \in Nat : l = Len(todo)
      BY <3>1
    <3>3. Left(2, 16)' => paused'
      <4>1. SUFFICES ASSUME Scan(todo'), Len(todo') \in 2 .. 16 PROVE paused'
        BY DEF Left
      <4>2. l \in 3 .. 17
        <5>1. l - 1 \in 2 .. 16
          BY <3>1, <3>2, <4>1
        <5>2. QED
          BY <5>1
      <4>3. CASE l = 17
        BY <1>2, <3>1, <3>2, <4>1, <4>3, ControlMoves
      <4>4. CASE l # 17
        <5>1. l \in 2 .. 16 /\ l # 2
          BY <4>2, <4>4
        <5>2. paused
          BY <1>0, <3>1, <3>2, <4>1, <5>1 DEF Left
        <5>3. Head(todo) \notin {"pause", "resume"}
          BY <3>1, <3>2, <4>1, <4>4, <5>1
        <5>4. QED
          BY <1>2, <5>2, <5>3, ControlMoves
      <4>5. QED
        BY <4>3, <4>4
    <3>4. Left(2, 15)' => obs'.pc = "wait"
      <4>1. SUFFICES ASSUME Scan(todo'), Len(todo') \in 2 .. 15 PROVE obs.pc = "wait"
        BY <1>2, ControlMoves DEF Left
      <4>2. l \in 3 .. 16
        <5>1. l - 1 \in 2 .. 15
          BY <3>1, <3>2, <4>1
        <5>2. QED
          BY <5>1
      <4>3. CASE l = 16
        BY <1>2, <3>1, <3>2, <4>1, <4>3, ControlMoves
      <4>4. CASE l # 16
        <5>1. l \in 2 .. 15
          BY <4>2, <4>4
        <5>2. QED
          BY <1>0, <3>1, <3>2, <4>1, <5>1 DEF Left
      <4>5. QED
        BY <4>3, <4>4
    <3>5. QED
      BY <3>1, <3>3, <3>4 DEF ScanOK
  <2>3. QED
    BY <1>2, <2>1, <2>2, ControlMoves
<1>3. CASE ~Control /\ ~Start
  <2>1. UNCHANGED todo /\ (paused => paused')
    BY <1>3, OtherMoves
  <2>2. ASSUME Left(2, 15) PROVE obs'.pc = "wait"
    <3>1. paused /\ obs.pc = "wait"
      BY <1>0, <2>2 DEF Left
    <3>2. CASE Observe
      <4>1. Sleep
        BY <3>1, <3>2 DEF Observe, Wake, Bind, Copy, Check, Accumulate, Decide, Apply, LockRefused, Write, Active
      <4>2. QED
        BY <1>0, <3>1, <4>1 DEF Sleep, ObsRec
    <3>3. CASE ~Observe
      BY <1>3, <3>1, <3>3, OtherMoves
    <3>4. QED
      BY <3>2, <3>3
  <2>3. QED
    BY <1>0, <2>1, <2>2 DEF ScanOK, Left
<1>4. QED
  BY <1>1, <1>2, <1>3

\* The places in a scan, with a number for its length.
LEMMA ScanPlaces ==
  ASSUME IInv, ScanOK, Control
  PROVE  \E l \in Nat :
           /\ l = Len(todo)
           /\ \A m, n \in Nat : Left(m, n) <=> Scan(todo) /\ l \in m .. n
           /\ \A m, n \in Nat : Left(m, n)' => Scan(todo) /\ l - 1 \in m .. n
           /\ \A m, n \in Nat : todo' = Tail(todo) /\ Scan(todo) /\ l > 2 /\ l - 1 \in m .. n => Left(m, n)'
           /\ Head(todo) \in Marks => Scan(todo)
           /\ Scan(todo) => /\ l \in 2 .. 17 /\ (l # 17 => todo' = Tail(todo))
                            /\ Head(todo) = "forceScan" <=> l = 14
                            /\ Head(todo) = "adoptScan" <=> l = 12
                            /\ Head(todo) = "forceMax" <=> l = 6
                            /\ Head(todo) = "adoptMax" <=> l = 4
                            /\ l = 3 => Head(todo) = "epoch"
<1>1. /\ todo \in Seq(Steps) /\ EndOfScan(todo) /\ todo # <<>>
      /\ todo' = Tail(todo) \/ (todo' = <<>> /\ Head(todo) \in {"lease", "pause"})
  BY ControlMoves DEF IInv, TransactionOK, Chained, ScanOK
<1>2. /\ (Scan(Tail(todo)) => Scan(todo))
      /\ Len(todo) \in Nat /\ Len(Tail(todo)) = Len(todo) - 1
      /\ Head(todo) \in Marks => Scan(todo)
      /\ Scan(todo) => /\ Len(todo) \in 2 .. 17 /\ (Len(todo) > 2 => Scan(Tail(todo)))
                       /\ Head(todo) # "lease"
                       /\ Head(todo) = "pause" <=> Len(todo) = 17
                       /\ Head(todo) = "forceScan" <=> Len(todo) = 14
                       /\ Head(todo) = "adoptScan" <=> Len(todo) = 12
                       /\ Head(todo) = "forceMax" <=> Len(todo) = 6
                       /\ Head(todo) = "adoptMax" <=> Len(todo) = 4
                       /\ Len(todo) = 3 => Head(todo) = "epoch"
  BY <1>1, ScanHead
<1>3. PICK l \in Nat : l = Len(todo)
  BY <1>2
<1>4. ~Scan(<<>>)
  BY DEF Scan
<1>5. \A m, n \in Nat : Left(m, n)' => Scan(todo) /\ l - 1 \in m .. n
  BY <1>1, <1>2, <1>3, <1>4 DEF Left
<1>6. \A m, n \in Nat : todo' = Tail(todo) /\ Scan(todo) /\ l > 2 /\ l - 1 \in m .. n => Left(m, n)'
  BY <1>2, <1>3 DEF Left
<1>7. QED
  BY <1>1, <1>2, <1>3, <1>5, <1>6 DEF Left

LEMMA GainNext ==
  ASSUME IInv, ScanOK, GainOK, [Next]_vars
  PROVE  GainOK'
<1>0. (Left(2, 5) => hwGain = MaxGain) /\ (~Left(4, 13) => curGain = hwGain) /\ (Left(2, 16) => paused)
  BY DEF GainOK, ScanOK
<1>1. CASE Start
  <2>1. ~Scan(todo) /\ UNCHANGED <<hwGain, curGain>>
    BY <1>1 DEF Start, Scan, hw
  <2>2. PICK op \in Ops : todo' = Script(op)
    BY <1>1 DEF Start
  <2>3. ~Left(2, 5)'
    BY <2>2, ScriptScan DEF Left
  <2>4. QED
    BY <1>0, <2>1, <2>3 DEF GainOK, Left
<1>2. CASE Control
  <2>1. PICK l \in Nat :
           /\ \A m, n \in Nat : Left(m, n) <=> Scan(todo) /\ l \in m .. n
           /\ \A m, n \in Nat : Left(m, n)' => Scan(todo) /\ l - 1 \in m .. n
           /\ \A m, n \in Nat : todo' = Tail(todo) /\ Scan(todo) /\ l > 2 /\ l - 1 \in m .. n => Left(m, n)'
           /\ Head(todo) \in Marks => Scan(todo)
           /\ Scan(todo) => /\ l \in 2 .. 17 /\ (l # 17 => todo' = Tail(todo))
                            /\ Head(todo) = "forceScan" <=> l = 14
                            /\ Head(todo) = "adoptScan" <=> l = 12
                            /\ Head(todo) = "forceMax" <=> l = 6
                            /\ Head(todo) = "adoptMax" <=> l = 4
    BY <1>2, ScanPlaces
  <2>2. Left(2, 5)' => hwGain' = MaxGain
    <3>1. SUFFICES ASSUME Scan(todo), l - 1 \in 2 .. 5 PROVE hwGain' = MaxGain
      BY <2>1
    <3>2. CASE l = 6
      BY <1>2, <2>1, <3>1, <3>2, ControlMoves
    <3>3. CASE l # 6
      <4>1. l \in 2 .. 5
        BY <3>1, <3>3
      <4>2. hwGain = MaxGain
        BY <1>0, <2>1, <3>1, <4>1
      <4>3. Head(todo) \notin {"forceScan", "forceMax"}
        BY <2>1, <3>1, <3>3, <4>1
      <4>4. QED
        BY <1>2, <4>2, <4>3, ControlMoves
    <3>4. QED
      BY <3>2, <3>3
  <2>3. CASE ~Scan(todo)
    <3>1. Head(todo) \notin Marks /\ ~Left(4, 13)
      BY <2>1, <2>3
    <3>2. curGain' = hwGain'
      BY <1>0, <1>2, <3>1, ControlMoves DEF Marks
    <3>3. QED
      BY <2>2, <3>2 DEF GainOK
  <2>4. CASE Scan(todo)
    <3>1. CASE l \in 5 .. 14
      <4>1. l > 2 /\ l # 17 /\ l - 1 \in 4 .. 13
        BY <3>1
      <4>2. Left(4, 13)'
        BY <2>1, <2>4, <4>1
      <4>3. QED
        BY <2>2, <4>2 DEF GainOK
    <3>2. CASE l = 4
      <4>1. curGain' = MaxGain /\ hwGain' = hwGain
        BY <1>2, <2>1, <2>4, <3>2, ControlMoves
      <4>2. hwGain = MaxGain
        BY <1>0, <2>1, <2>4, <3>2
      <4>3. QED
        BY <2>2, <4>1, <4>2 DEF GainOK
    <3>3. CASE l \in {2, 3, 15, 16, 17}
      <4>1. ~Left(4, 13)
        BY <2>1, <3>3
      <4>2. Head(todo) \notin {"forceScan", "forceMax", "adoptScan", "adoptMax"}
        BY <2>1, <2>4, <3>3
      <4>3. curGain' = hwGain'
        BY <1>0, <1>2, <4>1, <4>2, ControlMoves
      <4>4. QED
        BY <2>2, <4>3 DEF GainOK
    <3>4. l \in 5 .. 14 \/ l = 4 \/ l \in {2, 3, 15, 16, 17}
      BY <2>1, <2>4
    <3>5. QED
      BY <3>1, <3>2, <3>3, <3>4
  <2>5. QED
    BY <2>3, <2>4
<1>3. CASE ~Control /\ ~Start
  <2>1. UNCHANGED todo
    BY <1>3, OtherMoves
  <2>2. CASE UNCHANGED <<hwGain, curGain>>
    BY <1>0, <2>1, <2>2 DEF GainOK, Left
  <2>3. CASE ~paused /\ hwGain' = curGain'
    <3>1. ~Left(2, 5)
      BY <1>0, <2>3 DEF Left
    <3>2. QED
      BY <2>1, <2>3, <3>1 DEF GainOK, Left
  <2>4. QED
    BY <1>3, <2>2, <2>3, OtherMoves
<1>4. QED
  BY <1>1, <1>2, <1>3

LEMMA CoreNext ==
  ASSUME IInv, ScanOK, CoreOK, [Next]_vars
  PROVE  CoreOK'
<1>0. /\ control \in Nat /\ 0 < control /\ obs.seen.control <= control /\ obs.control <= control
      /\ obs.seen.control \in Nat /\ obs.control \in Nat
      /\ obs.pc \in {"copy", "check", "sum", "decide", "attack"} => AtGain
      /\ obs.pc \in {"wait", "bind"} /\ obs.seen.control = control => AtGain \/ Left(3, 11)
      /\ obs \in ObsRec /\ (Left(2, 15) => obs.pc = "wait")
      /\ core \in [gain : Gains, ctx : (Channels \cup {None}) \X (0 .. 1), learned : SUBSET Tunes]
  BY DEF CoreOK, IInv, PhyType, TaskType, ObsRec, ScanOK
<1>1. CASE Start
  <2>1. ~Left(3, 11) /\ UNCHANGED <<control, obs, core, curGain>>
    BY <1>1 DEF Start, Scan, Left, epoch
  <2>2. QED
    BY <1>0, <2>1 DEF CoreOK, AtGain, Clamped
<1>2. CASE Control
  <2>1. PICK l \in Nat :
           /\ \A m, n \in Nat : Left(m, n) <=> Scan(todo) /\ l \in m .. n
           /\ \A m, n \in Nat : todo' = Tail(todo) /\ Scan(todo) /\ l > 2 /\ l - 1 \in m .. n => Left(m, n)'
           /\ Head(todo) \in Marks => Scan(todo)
           /\ Scan(todo) => /\ l \in 2 .. 17 /\ (l # 17 => todo' = Tail(todo))
                            /\ Head(todo) = "adoptScan" <=> l = 12
                            /\ Head(todo) = "adoptMax" <=> l = 4
                            /\ l = 3 => Head(todo) = "epoch"
    BY <1>2, ScanPlaces
  <2>2. UNCHANGED <<obs, core>> /\ control' \in {control, control + 1}
    BY <1>2, ControlMoves
  <2>3. CASE Head(todo) \in {"adoptScan", "adoptMax"}
    <3>1. Scan(todo) /\ l \in {4, 12} /\ todo' = Tail(todo)
      BY <2>1, <2>3 DEF Marks
    <3>2. l > 2 /\ l - 1 \in 3 .. 11 /\ l \in 2 .. 15
      BY <3>1
    <3>3. Left(3, 11)' /\ obs.pc = "wait"
      BY <1>0, <2>1, <3>1, <3>2
    <3>4. QED
      BY <1>0, <2>2, <3>3 DEF CoreOK
  <2>4. CASE Head(todo) = "epoch"
    <3>1. control' = control + 1 /\ curGain' = curGain
      BY <1>2, <2>4, ControlMoves
    <3>2. QED
      BY <1>0, <2>2, <3>1 DEF CoreOK, AtGain, Clamped
  <2>5. CASE Head(todo) \notin {"adoptScan", "adoptMax", "epoch"}
    <3>1. control' = control /\ curGain' = curGain
      BY <1>2, <2>5, ControlMoves
    <3>2. Left(3, 11) => Left(3, 11)'
      <4>1. SUFFICES ASSUME Scan(todo), l \in 3 .. 11 PROVE Left(3, 11)'
        BY <2>1
      <4>2. l # 3 /\ l # 4
        BY <2>1, <2>5, <4>1
      <4>3. l > 2 /\ l # 17 /\ l - 1 \in 3 .. 11
        BY <4>1, <4>2
      <4>4. QED
        BY <2>1, <4>1, <4>3
    <3>3. QED
      BY <1>0, <2>2, <3>1, <3>2 DEF CoreOK, AtGain, Clamped
  <2>6. QED
    BY <2>3, <2>4, <2>5
<1>3. CASE Observe /\ ~Control /\ ~Start
  <2>0. UNCHANGED <<todo, control>> /\ (Left(3, 11)' <=> Left(3, 11))
    BY <1>3, OtherMoves DEF Left
  <2>a. obs.pc # "wait" => ~Left(3, 11)
    BY <1>0 DEF Left
  <2>1. CASE Sleep
    <3>1. obs' = [obs EXCEPT !.seen = Unseen] /\ UNCHANGED <<core, curGain>> /\ obs.pc = "wait"
      BY <2>1 DEF Sleep
    <3>2. obs'.pc = "wait" /\ obs'.control = obs.control /\ obs'.seen.control = 0
      BY <1>0, <3>1 DEF ObsRec, Unseen
    <3>3. QED
      BY <1>0, <2>0, <3>2 DEF CoreOK
  <2>2. CASE Wake
    <3>1. obs' = [obs EXCEPT !.pc = "bind", !.control = control, !.phy = gen]
          /\ UNCHANGED <<core, curGain>> /\ obs.pc = "wait"
      BY <2>2 DEF Wake
    <3>2. obs'.pc = "bind" /\ obs'.control = control /\ obs'.seen = obs.seen
      BY <1>0, <3>1 DEF ObsRec
    <3>3. QED
      BY <1>0, <2>0, <3>1, <3>2 DEF CoreOK, AtGain, Clamped
  <2>3. CASE Bind
    <3>1. CASE paused
      <4>1. obs' = Loop(obs) /\ UNCHANGED <<core, curGain>> /\ obs.pc = "bind"
        BY <2>3, <3>1 DEF Bind, Again
      <4>2. obs'.pc = "wait" /\ obs'.control = 0 /\ obs'.seen = obs.seen
        BY <1>0, <4>1, LoopKeeps
      <4>3. QED
        BY <1>0, <2>0, <4>1, <4>2 DEF CoreOK, AtGain, Clamped
    <3>2. CASE ~paused
      <4>1. UNCHANGED curGain /\ AtGain'
        <5>1. core' = (IF Stale THEN Bound ELSE core) /\ UNCHANGED curGain
          BY <2>3, <3>2 DEF Bind
        <5>2. CASE Stale
          BY <5>1, <5>2 DEF Bound, AtGain, Clamped
        <5>3. CASE ~Stale
          BY <5>1, <5>3 DEF Stale, AtGain
        <5>4. QED
          BY <5>1, <5>2, <5>3
      <4>2. Seen.control = obs.control /\ [obs EXCEPT !.seen = Seen] \in ObsRec
        BY <1>0 DEF Seen, ObsRec
      <4>3. obs'.pc \in {"wait", "copy", "attack"} /\ obs'.control \in {0, obs.control} /\ obs'.seen = Seen
        <5>1. \/ obs' = [obs EXCEPT !.pc = "copy", !.seen = Seen]
              \/ obs' = [obs EXCEPT !.pc = "attack", !.seen = Seen, !.win = mail.win]
              \/ obs' = Loop([obs EXCEPT !.seen = Seen])
          BY <2>3, <3>2 DEF Bind
        <5>2. CASE obs' = [obs EXCEPT !.pc = "copy", !.seen = Seen]
          BY <1>0, <5>2 DEF ObsRec
        <5>3. CASE obs' = [obs EXCEPT !.pc = "attack", !.seen = Seen, !.win = mail.win]
          BY <1>0, <5>3 DEF ObsRec
        <5>4. CASE obs' = Loop([obs EXCEPT !.seen = Seen])
          <6>1. [obs EXCEPT !.seen = Seen].seen = Seen
            BY <1>0 DEF ObsRec
          <6>2. QED
            BY <4>2, <5>4, <6>1, LoopKeeps
        <5>5. QED
          BY <5>1, <5>2, <5>3, <5>4
      <4>4. QED
        BY <1>0, <2>0, <4>1, <4>2, <4>3 DEF CoreOK
    <3>3. QED
      BY <3>1, <3>2
  <2>4. CASE Copy \/ Check \/ Accumulate
    <3>1. AtGain /\ UNCHANGED <<core, curGain>>
      BY <1>0, <2>4 DEF Copy, Check, Accumulate
    <3>2. obs'.control \in {0, obs.control} /\ obs'.seen = obs.seen
      BY <1>0, <2>4, LoopKeeps DEF Copy, Check, Accumulate, Again, Goto, ObsRec
    <3>3. QED
      BY <1>0, <2>0, <3>1, <3>2 DEF CoreOK, AtGain, Clamped
  <2>5. CASE Decide
    <3>1. obs'.pc = "apply" /\ obs'.control = obs.control /\ obs'.seen = obs.seen
      BY <1>0, <2>5 DEF Decide, ObsRec
    <3>2. QED
      BY <1>0, <2>0, <3>1 DEF CoreOK
  <2>6. CASE Apply \/ LockRefused \/ Write
    <3>1. obs'.control \in {0, obs.control} /\ obs'.seen = obs.seen
      BY <1>0, <2>6, LoopKeeps DEF Apply, LockRefused, Write, Again, Goto, ObsRec
    <3>2. obs'.pc = "lock" \/ (obs'.pc = "wait" /\ AtGain')
      BY <1>0, <2>6, LoopKeeps DEF Apply, LockRefused, Write, Refused, Again, Goto, ObsRec, AtGain
    <3>3. QED
      BY <1>0, <2>0, <3>1, <3>2 DEF CoreOK
  <2>7. QED
    BY <1>3, <2>1, <2>2, <2>3, <2>4, <2>5, <2>6 DEF Observe
<1>4. CASE ~Observe /\ ~Control /\ ~Start
  <2>1. UNCHANGED <<todo, control, obs, core, curGain>>
    BY <1>4, OtherMoves
  <2>2. QED
    BY <1>0, <2>1 DEF CoreOK, Left, AtGain, Clamped
<1>5. QED
  BY <1>1, <1>2, <1>3, <1>4

\* Between two operations the software's gain is the gain in force, and the
\* core that waits for a window is at it: a refused write puts the core back,
\* and the control epoch a scan ends with has it bound anew (receiver.c).  The
\* one place it may be ahead at is Floor, which a reset lifts it to from a row
\* below (gain.c:468).
THEOREM CoreKeepsUp == Spec => []CoreFollows
<1>1. Init => ScanOK /\ GainOK /\ CoreOK
  <2> SUFFICES ASSUME Init PROVE ScanOK /\ GainOK /\ CoreOK
    OBVIOUS
  <2>1. todo = <<>> /\ ~Scan(todo)
    BY DEF Init, Scan
  <2>2. ScanOK /\ GainOK
    BY <2>1 DEF Init, ScanOK, GainOK, EndOfScan, Left
  <2>3. CoreOK
    BY DEF Init, CoreOK, AtGain, Unseen
  <2>4. QED
    BY <2>2, <2>3
<1>2. IInv /\ ScanOK /\ GainOK /\ CoreOK /\ [Next]_vars => (ScanOK /\ GainOK /\ CoreOK)'
  BY ScanNext, GainNext, CoreNext
<1>3. IInv /\ ScanOK /\ GainOK /\ CoreOK => CoreFollows
  <2> SUFFICES ASSUME IInv, ScanOK, GainOK, CoreOK PROVE CoreFollows
    OBVIOUS
  <2>1. ASSUME Left(4, 13) PROVE \E i \in DOMAIN todo : todo[i] = "adoptMax"
    <3>1. /\ Len(todo) \in 4 .. 13 /\ DOMAIN todo = 1 .. Len(todo)
          /\ \A i \in DOMAIN todo : todo[i] = Script("scan")[17 - Len(todo) + i]
      BY <2>1 DEF Left, ScanOK, EndOfScan, IInv, TransactionOK, Chained
    <3>2. PICK l \in 4 .. 13 : l = Len(todo)
      BY <3>1
    <3>3. l - 3 \in 1 .. l /\ 17 - l + (l - 3) = 14
      OBVIOUS
    <3>4. todo[l - 3] = Script("scan")[14]
      BY <3>1, <3>2, <3>3
    <3>5. Script("scan")[14] = "adoptMax"
      BY DEF Script
    <3>6. QED
      BY <3>1, <3>2, <3>3, <3>4, <3>5
  <2>2. (\A i \in DOMAIN todo : todo[i] \notin {"adoptScan", "adoptMax"}) => curGain = hwGain
    BY <2>1 DEF GainOK
  <2>3. Left(3, 11) => paused
    BY DEF ScanOK, Left
  <2>4. QED
    BY <2>2, <2>3 DEF CoreFollows, CoreOK, AtGain, Clamped
<1>4. QED
  BY <1>1, <1>2, <1>3, Inductive, PTL DEF Spec
=============================================================================
