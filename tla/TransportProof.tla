--------------------------- MODULE TransportProof ---------------------------
(***************************************************************************)
(* Proofs about Transport.tla, for every set of decoders and outputs, every *)
(* gap and every power-cut, fault and request schedule.  The inductive     *)
(* invariant IInv follows the verified image through a restart: what the   *)
(* work image, the BitScrambler, the shadow LUT and the selection hold at  *)
(* each stage, and which parts are enabled there.  The last three sections *)
(* show that the transport implements LiveVideo.tla, that restarts keep    *)
(* their distance, and that the self-noise test gives live video back.     *)
(***************************************************************************)
EXTENDS TransportBench, MCTransport, TLAPS

RestartPcs == {"stop", "mark", "stage", "golive", "publish"}

\* Where each call can be.
Control ==
  /\ pc = "idle" <=> op = "none"
  /\ pc = "store" => op = "demod"
  /\ pc = "stopTx" => op \in {"open", "bench"}
  /\ pc = "startChain" => op \in {"open", "standard"}
  /\ pc = "stopChain" => op \in {"close", "standard"}
  /\ pc \in {"stage", "golive"} => round # "cleanup"
  /\ pc \in {"publish", "save"} => round = "selected"

\* Before app_main starts the receiver nothing but its own start runs.
BootControl ==
  /\ boot = "load" => Idle
  /\ boot \in {"load", "start"} => op \in {"none", "boot"} /\ ~menu
  /\ op = "boot" => boot = "start"
  /\ boot \in {"load", "start"} /\ Idle => ~started /\ ~nodes /\ ~fault /\ feed = "none"

\* Calls that a latched fault still allows.
FaultControl ==
  fault => /\ ~started
           /\ pc \notin RestartPcs \cup {"latch", "save"}

\* The work image is the image of the round in progress.
WorkIsRound ==
  /\ round = "selected" /\ pc \in RestartPcs =>
       workProg = sel.demod /\ workLut = sel /\ rOutput = sel.output
  /\ round = "previous" /\ pc \in {"stage", "golive"} => haveVerified
  /\ round = "previous" /\ (pc = "golive" \/ (pc = "stage" /\ stage > TR_BS_ENABLE)) =>
       workProg = ver.demod /\ workLut = lutLive /\ sel = ver

\* Readback that passed means the BitScrambler holds the work image.
RamIsWork ==
  /\ pc = "golive" \/ pc = "publish" \/ (pc = "stage" /\ stage > TR_INSTRUCTION_VERIFY) =>
       ramProg = workProg
  /\ pc = "golive" \/ pc = "publish" \/ (pc = "stage" /\ stage > TR_LUT_VERIFY) =>
       ramLut = workLut

\* A verified configuration has its LUT in the shadow copy.
ShadowIsVerified == haveVerified => lutLive = ver

\* What is enabled and fed while a restart runs.
PartsInRestart ==
  /\ pc = "mark" /\ ok => enabled = {} /\ feed = "none"
  /\ pc = "stage" => ~started /\ ~nodes /\ feed = "none"
  /\ pc = "golive" => ~started
  /\ pc \in {"publish", "save"} => started
  /\ pc \in {"golive", "publish"} => enabled = Parts /\ feed = "ring" /\ nodes

\* Live video: where it may be, what it runs, what the menu may hold.
LiveState ==
  /\ started => pc \in {"idle", "stop", "mark", "publish", "save", "return", "store", "stopTx"}
  /\ started => feed # "chain"
  /\ started /\ pc # "publish" => haveVerified /\ ramProg = ver.demod /\ ramLut = ver
  /\ started /\ pc \in {"idle", "save", "return", "store"} => sel = ver
  /\ pc = "save" => rOutput = ver.output
  /\ menu => \/ op = "close"
             \/ pc = "stopTx"
             \/ pc \in {"idle", "store", "startChain", "stopChain"} /\ ~started

Links ==
  /\ Control /\ BootControl /\ FaultControl
  /\ WorkIsRound /\ RamIsWork /\ ShadowIsVerified
  /\ PartsInRestart /\ NoProducerOnTop /\ LiveIsComplete /\ NodesNeedRx
  /\ LiveState

IInv == TypeOK /\ Links

-----------------------------------------------------------------------------
(* Type correctness. *)

USE DEF Configs, Default, Parts, Feeds, Rounds, Ops, Pcs,
        TX, BS, RX, TR_BS_ENABLE, TR_PROGRAM_LOAD, TR_INSTRUCTION_VERIFY, TR_LUT_VERIFY,
        TR_BS_RESET, TR_BS_START, TR_RX_ENABLE, TR_TX_ENABLE, TR_RX_START, TR_TX_START,
        config, work, ram, hw, ui, ctl

LEMMA TypeInit == Init => TypeOK
<1> SUFFICES ASSUME Init PROVE TypeOK
  OBVIOUS
<1> USE DEF Init
<1>1. FlagsOK  BY DEF FlagsOK
<1>2. ImagesOK  BY DefaultsAssumption DEF ImagesOK
<1>3. ControlOK  BY GapAssumption DEF ControlOK
<1> QED BY <1>1, <1>2, <1>3 DEF TypeOK

LEMMA FlagsNext == TypeOK /\ [Next]_vars => FlagsOK'
<1> SUFFICES ASSUME TypeOK, [Next]_vars PROVE FlagsOK'
  OBVIOUS
<1> USE DEF TypeOK, FlagsOK
<1>1. CASE BootLoad
  BY <1>1 DEF BootLoad
<1>2. CASE BootStart
  BY <1>2 DEF BootStart, Restart
<1>3. CASE BootPrepareFails
  BY <1>3 DEF BootPrepareFails
<1>4. CASE StopParts
  BY <1>4 DEF StopParts, FeedAfter
<1>5. CASE MarkOff
  BY <1>5 DEF MarkOff, AfterTeardown
<1>6. CASE BsEnable
  BY <1>6 DEF BsEnable, EnablePart, Advance, Fail, At
<1>7. CASE ProgramLoad
  BY <1>7 DEF ProgramLoad, Advance, Fail, At
<1>8. CASE InstructionVerify
  BY <1>8 DEF InstructionVerify, Advance, Fail, At
<1>9. CASE LutVerify
  BY <1>9 DEF LutVerify, Advance, Fail, At
<1>10. CASE DriverStep
  BY <1>10 DEF DriverStep, Advance, Fail, At
<1>11. CASE RxEnable
  BY <1>11 DEF RxEnable, EnablePart, Advance, Fail, At
<1>12. CASE TxEnable
  BY <1>12 DEF TxEnable, EnablePart, Advance, Fail, At
<1>13. CASE TxStart
  BY <1>13 DEF TxStart, Advance, Fail, At
<1>14. CASE Latch
  BY <1>14 DEF Latch, Reply
<1>15. CASE GoLive
  BY <1>15 DEF GoLive, Goto, Reply
<1>16. CASE Publish
  BY <1>16 DEF Publish, Reply
<1>17. CASE SaveOutput
  BY <1>17 DEF SaveOutput, Keep, Goto
<1>18. CASE ReturnBoot
  BY <1>18 DEF ReturnBoot, Finish
<1>19. CASE ReturnSwitch
  BY <1>19 DEF ReturnSwitch, Goto, Finish
<1>20. CASE ReturnClose
  BY <1>20 DEF ReturnClose, Finish
<1>21. CASE StoreDemod
  BY <1>21 DEF StoreDemod, Keep, Finish
<1>22. CASE StopTx
  BY <1>22 DEF StopTx, FeedAfter, Finish, Goto
<1>23. CASE StartChain
  BY <1>23 DEF StartChain, Finish
<1>24. CASE StopChain
  BY <1>24 DEF StopChain, Goto, Reply, Restart
<1>25. CASE \E d \in Demods : SetDemod(d)
  BY <1>25 DEF SetDemod, Call, Restart
<1>26. CASE \E o \in Outputs : SetOutput(o)
  BY <1>26 DEF SetOutput, Restart
<1>27. CASE RestartProfile
  BY <1>27 DEF RestartProfile, Restart
<1>28. CASE MenuOpen
  BY <1>28 DEF MenuOpen, Call
<1>29. CASE MenuClose
  BY <1>29 DEF MenuClose, Call
<1>30. CASE MenuStandard
  BY <1>30 DEF MenuStandard, Call
<1>31. CASE Tick
  BY <1>31 DEF Tick
<1>32. CASE PowerCycle
  BY <1>32 DEF PowerCycle
<1>33. CASE UNCHANGED vars
  BY <1>33 DEF vars
<1> QED
  BY <1>1, <1>2, <1>3, <1>4, <1>5, <1>6, <1>7, <1>8, <1>9, <1>10, <1>11, <1>12, <1>13, <1>14,
     <1>15, <1>16, <1>17, <1>18, <1>19, <1>20, <1>21, <1>22, <1>23, <1>24, <1>25, <1>26,
     <1>27, <1>28, <1>29, <1>30, <1>31, <1>32, <1>33
     DEF Next, CallStep, RestartStep, Request

LEMMA ImagesNext == TypeOK /\ [Next]_vars => ImagesOK'
<1> SUFFICES ASSUME TypeOK, [Next]_vars PROVE ImagesOK'
  OBVIOUS
<1> USE DefaultsAssumption DEF TypeOK, ImagesOK
<1>1. CASE BootLoad
  BY <1>1 DEF BootLoad
<1>2. CASE BootStart
  BY <1>2 DEF BootStart, Restart
<1>3. CASE BootPrepareFails
  BY <1>3 DEF BootPrepareFails
<1>4. CASE StopParts
  BY <1>4 DEF StopParts, FeedAfter
<1>5. CASE MarkOff
  BY <1>5 DEF MarkOff, AfterTeardown
<1>6. CASE BsEnable
  BY <1>6 DEF BsEnable, EnablePart, Advance, Fail, At
<1>7. CASE ProgramLoad
  BY <1>7 DEF ProgramLoad, Advance, Fail, At
<1>8. CASE InstructionVerify
  BY <1>8 DEF InstructionVerify, Advance, Fail, At
<1>9. CASE LutVerify
  BY <1>9 DEF LutVerify, Advance, Fail, At
<1>10. CASE DriverStep
  BY <1>10 DEF DriverStep, Advance, Fail, At
<1>11. CASE RxEnable
  BY <1>11 DEF RxEnable, EnablePart, Advance, Fail, At
<1>12. CASE TxEnable
  BY <1>12 DEF TxEnable, EnablePart, Advance, Fail, At
<1>13. CASE TxStart
  BY <1>13 DEF TxStart, Advance, Fail, At
<1>14. CASE Latch
  BY <1>14 DEF Latch, Reply
<1>15. CASE GoLive
  BY <1>15 DEF GoLive, Goto, Reply
<1>16. CASE Publish
  BY <1>16 DEF Publish, Reply
<1>17. CASE SaveOutput
  BY <1>17 DEF SaveOutput, Keep, Goto
<1>18. CASE ReturnBoot
  BY <1>18 DEF ReturnBoot, Finish
<1>19. CASE ReturnSwitch
  BY <1>19 DEF ReturnSwitch, Goto, Finish
<1>20. CASE ReturnClose
  BY <1>20 DEF ReturnClose, Finish
<1>21. CASE StoreDemod
  BY <1>21 DEF StoreDemod, Keep, Finish
<1>22. CASE StopTx
  BY <1>22 DEF StopTx, FeedAfter, Finish, Goto
<1>23. CASE StartChain
  BY <1>23 DEF StartChain, Finish
<1>24. CASE StopChain
  BY <1>24 DEF StopChain, Goto, Reply, Restart
<1>25. CASE \E d \in Demods : SetDemod(d)
  BY <1>25 DEF SetDemod, Call, Restart
<1>26. CASE \E o \in Outputs : SetOutput(o)
  BY <1>26 DEF SetOutput, Restart
<1>27. CASE RestartProfile
  BY <1>27 DEF RestartProfile, Restart
<1>28. CASE MenuOpen
  BY <1>28 DEF MenuOpen, Call
<1>29. CASE MenuClose
  BY <1>29 DEF MenuClose, Call
<1>30. CASE MenuStandard
  BY <1>30 DEF MenuStandard, Call
<1>31. CASE Tick
  BY <1>31 DEF Tick
<1>32. CASE PowerCycle
  BY <1>32 DEF PowerCycle
<1>33. CASE UNCHANGED vars
  BY <1>33 DEF vars
<1> QED
  BY <1>1, <1>2, <1>3, <1>4, <1>5, <1>6, <1>7, <1>8, <1>9, <1>10, <1>11, <1>12, <1>13, <1>14,
     <1>15, <1>16, <1>17, <1>18, <1>19, <1>20, <1>21, <1>22, <1>23, <1>24, <1>25, <1>26,
     <1>27, <1>28, <1>29, <1>30, <1>31, <1>32, <1>33
     DEF Next, CallStep, RestartStep, Request

\* A stage of an attempt ends in the next stage, in golive or in a teardown.
LEMMA StageMoves ==
  ASSUME ControlOK, pc = "stage", Advance \/ Fail
  PROVE  op' \in Ops /\ pc' \in Pcs /\ round' \in Rounds /\ stage' \in 0 .. 9
  BY DEF ControlOK, Advance, Fail

LEMMA EnableMoves ==
  ASSUME ControlOK, NEW p \in Parts, EnablePart(p)
  PROVE  enabled' \in SUBSET Parts /\ (Advance \/ Fail)
  BY DEF ControlOK, EnablePart

LEMMA ControlNext == TypeOK /\ [Next]_vars => ControlOK'
<1> SUFFICES ASSUME TypeOK, [Next]_vars PROVE ControlOK'
  OBVIOUS
<1> USE GapAssumption DEF TypeOK, ControlOK
<1>1. CASE BootLoad
  BY <1>1 DEF BootLoad
<1>2. CASE BootStart
  BY <1>2 DEF BootStart, Restart
<1>3. CASE BootPrepareFails
  BY <1>3 DEF BootPrepareFails
<1>4. CASE StopParts
  BY <1>4 DEF StopParts, FeedAfter
<1>5. CASE MarkOff
  BY <1>5 DEF MarkOff, AfterTeardown
<1>6. CASE BsEnable
  BY <1>6, StageMoves, EnableMoves DEF BsEnable, At
<1>7. CASE ProgramLoad
  BY <1>7 DEF ProgramLoad, Advance, Fail, At
<1>8. CASE InstructionVerify
  BY <1>8 DEF InstructionVerify, Advance, Fail, At
<1>9. CASE LutVerify
  BY <1>9 DEF LutVerify, Advance, Fail, At
<1>10. CASE DriverStep
  BY <1>10 DEF DriverStep, Advance, Fail, At
<1>11. CASE RxEnable
  BY <1>11, StageMoves, EnableMoves DEF RxEnable, At
<1>12. CASE TxEnable
  BY <1>12, StageMoves, EnableMoves DEF TxEnable, At
<1>13. CASE TxStart
  BY <1>13 DEF TxStart, Advance, Fail, At
<1>14. CASE Latch
  BY <1>14 DEF Latch, Reply
<1>15. CASE GoLive
  BY <1>15 DEF GoLive, Goto, Reply
<1>16. CASE Publish
  BY <1>16 DEF Publish, Reply
<1>17. CASE SaveOutput
  BY <1>17 DEF SaveOutput, Keep, Goto
<1>18. CASE ReturnBoot
  BY <1>18 DEF ReturnBoot, Finish
<1>19. CASE ReturnSwitch
  BY <1>19 DEF ReturnSwitch, Goto, Finish
<1>20. CASE ReturnClose
  BY <1>20 DEF ReturnClose, Finish
<1>21. CASE StoreDemod
  BY <1>21 DEF StoreDemod, Keep, Finish
<1>22. CASE StopTx
  BY <1>22 DEF StopTx, FeedAfter, Finish, Goto
<1>23. CASE StartChain
  BY <1>23 DEF StartChain, Finish
<1>24. CASE StopChain
  <2>1. enabled' \in SUBSET Parts /\ feed' \in Feeds
    BY <1>24 DEF StopChain
  <2>2. op' \in Ops /\ pc' \in Pcs /\ round' \in Rounds /\ stage' \in 0 .. 9
    BY <1>24 DEF StopChain, Goto, Reply, Restart
  <2> QED BY <1>24, <2>1, <2>2 DEF StopChain
<1>25. CASE \E d \in Demods : SetDemod(d)
  BY <1>25 DEF SetDemod, Call, Restart
<1>26. CASE \E o \in Outputs : SetOutput(o)
  BY <1>26 DEF SetOutput, Restart
<1>27. CASE RestartProfile
  BY <1>27 DEF RestartProfile, Restart
<1>28. CASE MenuOpen
  BY <1>28 DEF MenuOpen, Call
<1>29. CASE MenuClose
  BY <1>29 DEF MenuClose, Call
<1>30. CASE MenuStandard
  BY <1>30 DEF MenuStandard, Call
<1>31. CASE Tick
  BY <1>31 DEF Tick
<1>32. CASE PowerCycle
  BY <1>32 DEF PowerCycle
<1>33. CASE UNCHANGED vars
  BY <1>33 DEF vars
<1> QED
  BY <1>1, <1>2, <1>3, <1>4, <1>5, <1>6, <1>7, <1>8, <1>9, <1>10, <1>11, <1>12, <1>13, <1>14,
     <1>15, <1>16, <1>17, <1>18, <1>19, <1>20, <1>21, <1>22, <1>23, <1>24, <1>25, <1>26,
     <1>27, <1>28, <1>29, <1>30, <1>31, <1>32, <1>33
     DEF Next, CallStep, RestartStep, Request

\* Every variable of the transport stays in its range.
THEOREM TypeCorrect == Spec => []TypeOK
<1>1. TypeOK /\ [Next]_vars => TypeOK'
  BY FlagsNext, ImagesNext, ControlNext DEF TypeOK
<1>2. QED
  BY <1>1, TypeInit, PTL DEF Spec

-----------------------------------------------------------------------------
(* The inductive invariant. *)

LEMMA IInvInit == Init => IInv
<1> SUFFICES ASSUME Init PROVE IInv
  OBVIOUS
<1>1. TypeOK
  BY TypeInit
<1>2. Control /\ BootControl /\ FaultControl
  BY DEF Init, Control, BootControl, FaultControl, RestartPcs, Idle
<1>3. WorkIsRound /\ RamIsWork /\ ShadowIsVerified
  BY DEF Init, WorkIsRound, RamIsWork, ShadowIsVerified, RestartPcs
<1>4. PartsInRestart /\ NoProducerOnTop /\ LiveIsComplete /\ NodesNeedRx /\ LiveState
  BY DEF Init, PartsInRestart, NoProducerOnTop, LiveIsComplete, NodesNeedRx, LiveState
<1> QED BY <1>1, <1>2, <1>3, <1>4 DEF IInv, Links

\* Each action keeps the links.  BsEnable changes the selection, the work
\* image and the enabled parts at once and is split.
LEMMA LinksNext == IInv /\ [Next]_vars => Links'
<1> SUFFICES ASSUME IInv, [Next]_vars PROVE Links'
  OBVIOUS
<1> USE DEF IInv, TypeOK, FlagsOK, ImagesOK, ControlOK, Links, RestartPcs, Idle, Ready,
            Control, BootControl, FaultControl, WorkIsRound, RamIsWork, ShadowIsVerified,
            PartsInRestart, NoProducerOnTop, LiveIsComplete, NodesNeedRx, LiveState
<1>1. CASE BootLoad
  BY <1>1 DEF BootLoad
<1>2. CASE BootStart
  BY <1>2 DEF BootStart, Restart
<1>3. CASE BootPrepareFails
  BY <1>3 DEF BootPrepareFails
<1>4. CASE StopParts
  BY <1>4 DEF StopParts, FeedAfter
<1>5. CASE MarkOff
  BY <1>5 DEF MarkOff, AfterTeardown
<1>6. CASE BsEnable
  <2>1. NoProducerOnTop'
    <3>1. enabled = {} /\ stage = 0
      BY <1>6 DEF BsEnable, At
    <3>2. CASE enabled' = enabled \cup {BS} /\ Advance
      <4>1. enabled' = {BS}
        BY <3>1, <3>2
      <4>2. stage' = 1
        BY <3>1, <3>2 DEF Advance
      <4> QED BY <4>1, <4>2
    <3>3. CASE Fail
      BY <3>3 DEF Fail
    <3> QED BY <1>6, <3>2, <3>3 DEF BsEnable, EnablePart
  <2>2. Control' /\ BootControl' /\ FaultControl'
    BY <1>6 DEF BsEnable, EnablePart, Advance, Fail, At
  <2>3. WorkIsRound' /\ RamIsWork' /\ ShadowIsVerified'
    BY <1>6 DEF BsEnable, EnablePart, Advance, Fail, At
  <2>4. PartsInRestart' /\ LiveIsComplete' /\ NodesNeedRx'
    BY <1>6 DEF BsEnable, EnablePart, Advance, Fail, At
  <2>5. LiveState'
    BY <1>6 DEF BsEnable, EnablePart, Advance, Fail, At
  <2> QED BY <2>1, <2>2, <2>3, <2>4, <2>5
<1>7. CASE ProgramLoad
  BY <1>7 DEF ProgramLoad, Advance, Fail, At
<1>8. CASE InstructionVerify
  BY <1>8 DEF InstructionVerify, Advance, Fail, At
<1>9. CASE LutVerify
  BY <1>9 DEF LutVerify, Advance, Fail, At
<1>10. CASE DriverStep
  BY <1>10 DEF DriverStep, Advance, Fail, At
<1>11. CASE RxEnable
  BY <1>11 DEF RxEnable, EnablePart, Advance, Fail, At
<1>12. CASE TxEnable
  BY <1>12 DEF TxEnable, EnablePart, Advance, Fail, At
<1>13. CASE TxStart
  BY <1>13 DEF TxStart, Advance, Fail, At
<1>14. CASE Latch
  BY <1>14 DEF Latch, Reply
<1>15. CASE GoLive
  BY <1>15 DEF GoLive, Goto, Reply
<1>16. CASE Publish
  BY <1>16 DEF Publish, Reply
<1>17. CASE SaveOutput
  BY <1>17 DEF SaveOutput, Keep, Goto
<1>18. CASE ReturnBoot
  BY <1>18 DEF ReturnBoot, Finish
<1>19. CASE ReturnSwitch
  BY <1>19 DEF ReturnSwitch, Goto, Finish
<1>20. CASE ReturnClose
  BY <1>20 DEF ReturnClose, Finish
<1>21. CASE StoreDemod
  BY <1>21 DEF StoreDemod, Keep, Finish
<1>22. CASE StopTx
  BY <1>22 DEF StopTx, FeedAfter, Finish, Goto
<1>23. CASE StartChain
  BY <1>23 DEF StartChain, Finish
<1>24. CASE StopChain
  BY <1>24 DEF StopChain, Goto, Reply, Restart
<1>25. CASE \E d \in Demods : SetDemod(d)
  BY <1>25 DEF SetDemod, Call, Restart
<1>26. CASE \E o \in Outputs : SetOutput(o)
  BY <1>26 DEF SetOutput, Restart
<1>27. CASE RestartProfile
  BY <1>27 DEF RestartProfile, Restart
<1>28. CASE MenuOpen
  BY <1>28 DEF MenuOpen, Call
<1>29. CASE MenuClose
  BY <1>29 DEF MenuClose, Call
<1>30. CASE MenuStandard
  BY <1>30 DEF MenuStandard, Call
<1>31. CASE Tick
  BY <1>31 DEF Tick
<1>32. CASE PowerCycle
  BY <1>32, DefaultsAssumption DEF PowerCycle
<1>33. CASE UNCHANGED vars
  BY <1>33 DEF vars
<1> QED
  BY <1>1, <1>2, <1>3, <1>4, <1>5, <1>6, <1>7, <1>8, <1>9, <1>10, <1>11, <1>12, <1>13, <1>14,
     <1>15, <1>16, <1>17, <1>18, <1>19, <1>20, <1>21, <1>22, <1>23, <1>24, <1>25, <1>26,
     <1>27, <1>28, <1>29, <1>30, <1>31, <1>32, <1>33
     DEF Next, CallStep, RestartStep, Request

LEMMA StepKeeps == IInv /\ [Next]_vars => IInv'
<1> SUFFICES ASSUME IInv, [Next]_vars PROVE IInv'
  OBVIOUS
<1>1. TypeOK'
  BY FlagsNext, ImagesNext, ControlNext DEF IInv, TypeOK
<1>2. Links'
  BY LinksNext
<1> QED BY <1>1, <1>2 DEF IInv

LEMMA Inductive == Spec => []IInv
  BY StepKeeps, IInvInit, PTL DEF Spec

-----------------------------------------------------------------------------
(* Safety. *)

\* Live video always decodes with the program and LUT of the verified
\* configuration, and the shadow LUT of a later rollback is that LUT.
THEOREM LiveVerified == Spec => []LiveIsVerified
<1>1. IInv => LiveIsVerified
  BY DEF IInv, Links, LiveState, ShadowIsVerified, LiveIsVerified
<1>2. QED
  BY <1>1, Inductive, PTL

\* Between calls, what is selected is what is live.
THEOREM SelectionLive == Spec => []SelectionIsLive
<1>1. IInv => SelectionIsLive
  BY DEF IInv, Links, LiveState, SelectionIsLive, Idle
<1>2. QED
  BY <1>1, Inductive, PTL

\* An attempt never enables a part on top of one a teardown left enabled.
THEOREM NeverOnTop == Spec => []NoProducerOnTop
<1>1. IInv => NoProducerOnTop
  BY DEF IInv, Links
<1>2. QED
  BY <1>1, Inductive, PTL

\* Live is complete, has one picture source, and ring nodes imply RX.
THEOREM LiveComplete == Spec => []PictureComplete
<1>1. IInv => PictureComplete
  BY DEF IInv, Links, LiveState, FaultControl, OneSource, PictureComplete
<1>2. QED
  BY <1>1, Inductive, PTL

-----------------------------------------------------------------------------
(* Steps. *)

\* With a latched fault only the tail of a call, a selection that is merely
\* stored, the menu's own steps, the clock and the power cut remain.
LEMMA FaultSteps ==
  ASSUME IInv, fault, [Next]_vars
  PROVE  \/ ReturnBoot \/ ReturnSwitch \/ ReturnClose \/ StoreDemod
         \/ StopTx \/ StartChain \/ StopChain
         \/ MenuOpen \/ MenuClose \/ MenuStandard
         \/ Tick \/ PowerCycle \/ UNCHANGED vars
<1>1. boot \notin {"load", "start"} \/ ~Idle
  BY DEF IInv, Links, BootControl
<1>2. boot # "load" /\ ~(boot = "start" /\ Idle)
  BY <1>1 DEF IInv, Links, BootControl
<1>3. pc \notin RestartPcs \cup {"latch", "save"}
  BY DEF IInv, Links, FaultControl
<1>4. ~BootLoad /\ ~BootStart /\ ~BootPrepareFails
  BY <1>2 DEF BootLoad, BootStart, BootPrepareFails
<1>5. ~(StopParts \/ MarkOff \/ BsEnable \/ ProgramLoad \/ InstructionVerify \/ LutVerify
        \/ DriverStep \/ RxEnable \/ TxEnable \/ TxStart \/ Latch \/ GoLive \/ Publish \/ SaveOutput)
  BY <1>3 DEF RestartPcs, StopParts, MarkOff, BsEnable, ProgramLoad, InstructionVerify, LutVerify,
     DriverStep, RxEnable, TxEnable, TxStart, Latch, GoLive, Publish, SaveOutput, At
<1>6. ~RestartProfile /\ ~(\E d \in Demods : SetDemod(d)) /\ ~(\E o \in Outputs : SetOutput(o))
  BY DEF RestartProfile, SetDemod, SetOutput
<1> QED
  BY <1>4, <1>5, <1>6 DEF Next, CallStep, RestartStep, Request

\* A latched fault is final until the next power on: it stays latched, video
\* does not go live and no part is enabled again.
THEOREM FaultFinal == Spec => FaultIsFinal
<1> DEFINE Final == fault /\ boot' # "load" => fault' /\ ~started' /\ enabled' \subseteq enabled
<1>1. ASSUME IInv, [Next]_vars PROVE Final
  <2> SUFFICES ASSUME fault, boot' # "load" PROVE fault' /\ ~started' /\ enabled' \subseteq enabled
    OBVIOUS
  <2>1. ~started
    BY <1>1 DEF IInv, Links, FaultControl
  <2>2. CASE started' = started /\ fault' = fault /\ enabled' = enabled
    BY <2>1, <2>2
  <2>3. CASE StopTx
    BY <2>3 DEF StopTx
  <2>4. CASE StartChain
    BY <2>1, <2>4 DEF StartChain
  <2>5. CASE StopChain
    BY <2>1, <2>5 DEF StopChain
  <2>6. ReturnBoot \/ ReturnSwitch \/ ReturnClose \/ StoreDemod \/ MenuOpen \/ MenuClose \/ MenuStandard \/ Tick
           => started' = started /\ fault' = fault /\ enabled' = enabled
    <3>1. ReturnBoot \/ ReturnSwitch \/ ReturnClose \/ StoreDemod
            => started' = started /\ fault' = fault /\ enabled' = enabled
      BY DEF ReturnBoot, ReturnSwitch, ReturnClose, StoreDemod
    <3>2. MenuOpen \/ MenuClose \/ MenuStandard \/ Tick
            => started' = started /\ fault' = fault /\ enabled' = enabled
      BY DEF MenuOpen, MenuClose, MenuStandard, Tick
    <3> QED BY <3>1, <3>2
  <2>7. CASE PowerCycle
    BY <2>7 DEF PowerCycle
  <2>8. CASE UNCHANGED vars
    BY <2>1, <2>8 DEF vars
  <2> QED
    BY <1>1, FaultSteps, <2>2, <2>3, <2>4, <2>5, <2>6, <2>7, <2>8
<1>2. QED
  BY <1>1, Inductive, PTL DEF Spec, FaultIsFinal

\* Only SaveOutput changes the output level in flash, and it runs while the
\* level it stores is live and verified.
THEOREM OutputSaved == Spec => OutputSavedLive
<1> DEFINE Saved == nvs'.output # nvs.output => started /\ nvs'.output = ver.output /\ ramLut = ver
<1>1. ASSUME IInv, [Next]_vars PROVE Saved
  <2>1. CASE SaveOutput
    BY <1>1, <2>1 DEF SaveOutput, Keep, IInv, Links, PartsInRestart, LiveState
  <2>2. CASE StoreDemod
    BY <2>2 DEF StoreDemod, Keep
  <2>3. CASE nvs' = nvs
    BY <2>3
  <2>4. [Next]_vars => SaveOutput \/ StoreDemod \/ nvs' = nvs
    <3> USE DEF vars
    <3>1. BootLoad \/ BootStart \/ BootPrepareFails \/ Tick \/ PowerCycle => nvs' = nvs
      BY DEF BootLoad, BootStart, BootPrepareFails, Tick, PowerCycle
    <3>2. Request => nvs' = nvs
      BY DEF Request, SetDemod, SetOutput, RestartProfile, MenuOpen, MenuClose, MenuStandard
    <3>3. CallStep => SaveOutput \/ StoreDemod \/ nvs' = nvs
      BY DEF CallStep, RestartStep, StopParts, MarkOff, BsEnable, ProgramLoad, InstructionVerify,
         LutVerify, DriverStep, RxEnable, TxEnable, TxStart, Latch, GoLive, Publish,
         ReturnBoot, ReturnSwitch, ReturnClose, StopTx, StartChain, StopChain
    <3> QED BY <3>1, <3>2, <3>3 DEF Next
  <2> QED
    BY <1>1, <2>1, <2>2, <2>3, <2>4
<1>2. QED
  BY <1>1, Inductive, PTL DEF Spec, OutputSavedLive

----------------------------------------------------------------------------
(* The refinement: every step of the restart code, the menu and the power   *)
(* supply is a step of the abstract picture source or leaves it unchanged.  *)
USE DEF Configs, Rounds, config, work, ram, hw, ui, ctl

\* Two states that agree on this look the same to LiveVideo.
LEMMA Stutter ==
  ASSUME started' = started, fault' = fault,
         haveVerified' = haveVerified, ver' = ver, nvs'.output = nvs.output,
         started => ramProg' = ramProg /\ ramLut' = ramLut /\ (pc' = "publish" <=> pc = "publish")
  PROVE  UNCHANGED LV!vars
<1>1. State' = State
  BY DEF State
<1>2. Shown' = Shown
  <2>1. CASE State = "live"
    BY <1>1, <2>1 DEF Shown, State
  <2>2. CASE State # "live"
    BY <1>1, <2>2 DEF Shown, NoImage
  <2> QED BY <2>1, <2>2
<1>3. Good' = Good
  BY DEF Good, Image, NoImage
<1> QED
  BY <1>1, <1>2, <1>3 DEF LV!vars

LEMMA RefinementInit == Init => LV!Init
  BY DEF Init, LV!Init, State, Shown, Good, NoImage

\* Live video shows the verified image.
LEMMA LiveShows ==
  ASSUME IInv, State = "live"
  PROVE  haveVerified /\ Shown = Image(ver) /\ Good = Image(ver) /\ Good \in Images
<1>1. started /\ pc # "publish"
  BY DEF State
<1>2. haveVerified /\ ramProg = ver.demod /\ ramLut = ver /\ ver \in Configs
  BY <1>1 DEF IInv, Links, LiveState, TypeOK, ImagesOK
<1> QED
  BY <1>2 DEF Shown, Good, Image, Images

LEMMA PublishShowsNew ==
  ASSUME IInv, Publish
  PROVE  LV!ShowNew
<1>1. State = "off" /\ State' = "live"
  BY DEF IInv, Links, FaultControl, PartsInRestart, RestartPcs, State, Publish, Reply
<1>2. ver' = sel /\ haveVerified' /\ sel \in Configs
  BY DEF IInv, Links, PartsInRestart, Control, WorkIsRound, RestartPcs, TypeOK, ImagesOK, Publish
<1>3. ramProg' = sel.demod /\ ramLut' = sel
  BY DEF IInv, Links, Control, WorkIsRound, RamIsWork, RestartPcs, Publish
<1>4. Shown' = Image(sel) /\ Good' = Image(sel) /\ Image(sel) \in Images
  BY <1>1, <1>2, <1>3 DEF Shown, Good, Image, Images
<1> QED
  BY <1>1, <1>4 DEF LV!ShowNew, Publish

LEMMA GoLiveSteps ==
  ASSUME IInv, GoLive
  PROVE  LV!ShowPrevious \/ UNCHANGED LV!vars
<1>1. ~started /\ ~fault /\ started' /\ ~fault'
  BY DEF IInv, Links, FaultControl, PartsInRestart, RestartPcs, GoLive
<1>2. State = "off" /\ Shown = NoImage
  BY <1>1 DEF State, Shown
<1>3. haveVerified' = haveVerified /\ ver' = ver /\ nvs' = nvs /\ Good' = Good
  BY DEF GoLive, Good, Image, NoImage
<1>4. CASE round = "selected"
  <2>1. State' = "off" /\ Shown' = NoImage
    BY <1>1, <1>4 DEF GoLive, Goto, State, Shown, NoImage
  <2> QED BY <1>2, <1>3, <2>1 DEF LV!vars
<1>5. CASE round = "previous"
  <2>1. State' = "live"
    BY <1>1, <1>5 DEF GoLive, Reply, State
  <2>2. haveVerified /\ ramProg' = ver.demod /\ ramLut' = ver /\ ver \in Configs
    BY <1>5 DEF IInv, Links, WorkIsRound, RamIsWork, ShadowIsVerified, TypeOK, ImagesOK, GoLive
  <2>3. Good = Image(ver) /\ Image(ver) \in Images /\ Shown' = Image(ver)
    BY <2>1, <2>2 DEF Good, Shown, Image, Images
  <2> QED BY <1>2, <1>3, <2>1, <2>3 DEF LV!ShowPrevious
<1> QED
  BY <1>4, <1>5 DEF IInv, Links, Control, GoLive, TypeOK, ControlOK, Rounds

LEMMA SaveOutputSteps ==
  ASSUME IInv, SaveOutput
  PROVE  LV!Remember \/ UNCHANGED LV!vars
<1>1. started /\ ~fault /\ pc = "save" /\ pc' = "return"
  BY DEF IInv, Links, FaultControl, PartsInRestart, SaveOutput, Goto
<1>2. State = "live" /\ State' = "live"
  BY <1>1 DEF State, SaveOutput
<1>3. rOutput = ver.output /\ Shown = Image(ver) /\ Image(ver) \in Images
  BY <1>1, <1>2, LiveShows DEF IInv, Links, LiveState
<1>4. Shown' = Shown /\ Good' = Good
  BY <1>2 DEF SaveOutput, Shown, Good, Image, NoImage
<1>5. CASE nvs'.output = rOutput
  <2>1. nvs'.output = [i \in Images |-> i.lut.output][Shown]
    BY <1>3, <1>5 DEF Image
  <2> QED BY <1>2, <1>4, <2>1 DEF LV!Remember
<1>6. CASE nvs' = nvs
  BY <1>2, <1>4, <1>6 DEF LV!vars
<1> QED
  BY <1>5, <1>6 DEF SaveOutput, Keep

\* A step that at most turns video off, or latches it off.
LEMMA TurnsOff ==
  ASSUME ~started', haveVerified' = haveVerified, ver' = ver, nvs' = nvs, fault => fault',
         started => ~fault /\ pc # "publish"
  PROVE  LV!Interrupt \/ LV!LatchOff \/ UNCHANGED LV!vars
<1>1. Shown' = NoImage /\ Good' = Good /\ State' = IF fault' THEN "latched" ELSE "off"
  BY DEF State, Shown, Good, Image, NoImage
<1>2. NoImage' = NoImage
  BY DEF NoImage
<1>3. CASE State = State'
  <2>1. Shown = NoImage
    BY <1>1, <1>3 DEF Shown
  <2> QED BY <1>1, <1>3, <2>1 DEF LV!vars
<1>4. CASE State # State' /\ fault'
  BY <1>1, <1>4 DEF LV!LatchOff
<1>5. CASE State # State' /\ ~fault'
  BY <1>1, <1>5 DEF LV!Interrupt, State
<1> QED
  BY <1>3, <1>4, <1>5

LEMMA StepRefines == IInv /\ [Next]_vars => [LV!Next]_LV!vars
<1> SUFFICES ASSUME IInv, [Next]_vars PROVE LV!Next \/ UNCHANGED LV!vars
  OBVIOUS
<1>1. CASE PowerCycle
  BY <1>1 DEF PowerCycle, LV!Next, LV!PowerCycle, State, Shown, Good, NoImage
<1>2. CASE Publish
  BY <1>2, PublishShowsNew DEF LV!Next
<1>3. CASE GoLive
  BY <1>3, GoLiveSteps DEF LV!Next
<1>4. CASE SaveOutput
  BY <1>4, SaveOutputSteps DEF LV!Next
<1>5. CASE MarkOff \/ Latch \/ BootPrepareFails \/ StopTx \/ StartChain \/ StopChain
  <2>1. started => ~fault /\ pc # "publish"
    BY <1>5 DEF IInv, Links, FaultControl, MarkOff, Latch, BootPrepareFails, StopTx, StartChain,
                StopChain, LiveState, Idle
  <2>2. haveVerified' = haveVerified /\ ver' = ver /\ nvs' = nvs
    BY <1>5 DEF MarkOff, Latch, BootPrepareFails, StopTx, StartChain, StopChain
  <2>3. (fault => fault') /\ ~started'
    <3>1. MarkOff \/ Latch => ~started'
      BY DEF MarkOff, Latch, IInv, Links, LiveState
    <3>2. MarkOff \/ Latch => (fault => fault')
      BY DEF MarkOff, Latch
    <3>3. BootPrepareFails => fault' /\ ~started'
      BY DEF BootPrepareFails, IInv, Links, BootControl
    <3>4. StopTx => (fault => fault') /\ ~started'
      BY DEF StopTx
    <3>5. StartChain \/ StopChain => ~started'
      BY DEF StartChain, StopChain, IInv, Links, LiveState
    <3>6. StartChain \/ StopChain => (fault => fault')
      BY DEF StartChain, StopChain
    <3> QED BY <1>5, <3>1, <3>2, <3>3, <3>4, <3>5, <3>6
  <2> QED
    BY <2>1, <2>2, <2>3, TurnsOff DEF LV!Next
<1>6. CASE BootLoad \/ BootStart
  BY <1>6, Stutter DEF BootLoad, BootStart, Restart, Idle
<1>7. CASE StopParts \/ ReturnBoot \/ ReturnSwitch \/ ReturnClose \/ StoreDemod
  BY <1>7, Stutter DEF StopParts, ReturnBoot, ReturnSwitch, ReturnClose, StoreDemod, Keep,
     Goto, Finish
<1>8. CASE BsEnable \/ ProgramLoad \/ InstructionVerify \/ LutVerify \/ DriverStep
           \/ RxEnable \/ TxEnable \/ TxStart
  <2>1. ~started
    BY <1>8 DEF IInv, Links, PartsInRestart, BsEnable, ProgramLoad, InstructionVerify, LutVerify,
       DriverStep, RxEnable, TxEnable, TxStart, At
  <2>2. started' = started /\ fault' = fault /\ haveVerified' = haveVerified /\ ver' = ver /\ nvs' = nvs
    BY <1>8 DEF BsEnable, ProgramLoad, InstructionVerify, LutVerify, DriverStep, RxEnable,
       TxEnable, TxStart
  <2> QED BY <2>1, <2>2, Stutter
<1>9. CASE Request
  BY <1>9, Stutter DEF Request, SetDemod, SetOutput, RestartProfile, MenuOpen, MenuClose,
     MenuStandard, Ready, Idle, Restart, Call
<1>10. CASE Tick \/ UNCHANGED vars
  BY <1>10, Stutter DEF Tick, vars
<1> QED
  BY <1>1, <1>2, <1>3, <1>4, <1>5, <1>6, <1>7, <1>8, <1>9, <1>10
     DEF Next, CallStep, RestartStep

\* The restart code, the menu and the power supply together keep the promise
\* LiveVideo.tla makes to everything else in the receiver.
THEOREM Refinement == Spec => ImplementsLiveVideo
<1>1. QED
  BY RefinementInit, StepRefines, Inductive, PTL DEF Spec, ImplementsLiveVideo, LV!Spec

----------------------------------------------------------------------------
(* The shared cooldown, with the history variable of MCTransport: outside   *)
(* the caller's tail the ticks counted and the ticks left make up the gap.  *)

QuietOK == quiet \in Nat /\ (pc # "return" \/ op = "boot" => quiet + cool >= Gap)

\* Only a tick shortens the cooldown, and only a caller's tail prolongs it.
LEMMA CoolMoves ==
  ASSUME IInv, Next, boot' # "load"
  PROVE  \/ cool' = cool /\ (pc = "return" => op = "boot")
         \/ pc = "return" /\ op # "boot" /\ cool' = Gap /\ pc' # "return"
         \/ Tick
<1> USE GapAssumption DEF IInv, TypeOK, ControlOK, Links, BootControl
<1>1. CASE ReturnBoot
  BY <1>1 DEF ReturnBoot
<1>2. CASE ReturnSwitch
  BY <1>2 DEF ReturnSwitch, Goto, Finish
<1>3. CASE ReturnClose
  BY <1>3 DEF ReturnClose, Finish
<1>4. CASE BootLoad \/ BootStart \/ BootPrepareFails
  BY <1>4 DEF BootLoad, BootStart, BootPrepareFails, Idle
<1>5. CASE Request
  BY <1>5 DEF Request, SetDemod, SetOutput, RestartProfile, MenuOpen, MenuClose, MenuStandard, Ready, Idle
<1>6. CASE StopParts \/ MarkOff \/ BsEnable \/ ProgramLoad \/ InstructionVerify \/ LutVerify
  BY <1>6 DEF StopParts, MarkOff, BsEnable, ProgramLoad, InstructionVerify, LutVerify, At
<1>7. CASE DriverStep \/ RxEnable \/ TxEnable \/ TxStart \/ Latch \/ GoLive \/ Publish \/ SaveOutput
  BY <1>7 DEF DriverStep, RxEnable, TxEnable, TxStart, Latch, GoLive, Publish, SaveOutput, At
<1>8. CASE StoreDemod \/ StopTx \/ StartChain \/ StopChain
  BY <1>8 DEF StoreDemod, StopTx, StartChain, StopChain
<1>9. CASE Tick
  BY <1>9
<1>10. CASE PowerCycle
  BY <1>10 DEF PowerCycle
<1> QED
  BY <1>1, <1>2, <1>3, <1>4, <1>5, <1>6, <1>7, <1>8, <1>9, <1>10 DEF Next, CallStep, RestartStep

LEMMA GapSum ==
  ASSUME NEW q, NEW c \in Nat, q = Gap
  PROVE  q + c >= Gap
  BY GapAssumption

LEMMA QuietNext ==
  ASSUME IInv, QuietOK, MCNext
  PROVE  QuietOK'
<1> USE GapAssumption DEF QuietOK
<1>0. cool \in Nat /\ cool <= Gap
  BY DEF IInv, TypeOK, ControlOK
<1>1. CASE boot' = "load"
  <2>1. ControlOK'
    BY ControlNext DEF IInv, MCNext
  <2>2. cool' \in Nat /\ quiet' = Gap
    <3>1. cool' \in 0 .. Gap
      BY <2>1 DEF ControlOK
    <3> QED BY <1>1, <3>1 DEF MCNext
  <2>3. quiet' + cool' >= Gap
    <3> QED BY <2>2, GapSum
  <2> QED BY <2>2, <2>3
<1>2. CASE boot' # "load" /\ pc = "return" /\ op # "boot" /\ cool' = Gap /\ pc' # "return"
  <2>1. quiet' = 0
    BY <1>2 DEF MCNext
  <2> QED BY <1>2, <2>1
<1>3. CASE boot' # "load" /\ cool' = cool /\ (pc = "return" => op = "boot")
  <2>1. quiet' = quiet
    BY <1>0, <1>3 DEF MCNext
  <2>2. quiet + cool >= Gap
    BY <1>3
  <2> QED BY <1>3, <2>1, <2>2
<1>4. CASE boot' # "load" /\ Tick
  <2>1. cool' = cool - 1 /\ cool > 0 /\ pc' = pc /\ op' = op
    BY <1>4 DEF Tick
  <2>2. CASE pc = "return" /\ op # "boot"
    <3>1. quiet' = 0
      BY <1>4, <2>2 DEF MCNext
    <3> QED BY <2>1, <2>2, <3>1
  <2>3. CASE ~(pc = "return" /\ op # "boot")
    <3>1. quiet' = quiet + 1
      BY <1>0, <1>4, <2>1, <2>3 DEF MCNext
    <3>2. quiet + cool >= Gap
      BY <2>3
    <3> QED BY <1>0, <2>1, <3>1, <3>2
  <2> QED BY <2>2, <2>3
<1> QED BY CoolMoves, <1>1, <1>2, <1>3, <1>4 DEF MCNext

LEMMA QuietInductive == MCSpec => [](IInv /\ QuietOK)
<1>1. MCInit => IInv /\ QuietOK
  BY IInvInit, GapAssumption DEF MCInit, QuietOK, Init
<1>2. ASSUME IInv, QuietOK, [MCNext]_MCvars PROVE IInv' /\ QuietOK'
  <2>1. CASE MCNext
    <3>1. IInv'
      BY <2>1, <1>2, StepKeeps DEF MCNext
    <3> QED BY <1>2, <2>1, <3>1, QuietNext
  <2>2. CASE UNCHANGED MCvars
    <3>1. IInv'
      BY <1>2, <2>2, StepKeeps DEF MCvars
    <3>2. QuietOK'
      BY <1>2, <2>2 DEF QuietOK, MCvars, vars
    <3> QED BY <3>1, <3>2
  <2> QED BY <1>2, <2>1, <2>2
<1> QED
  BY <1>1, <1>2, PTL DEF MCSpec

\* Live video is interrupted for another decoder, output level or profile
\* only when the whole gap has passed since any restart ended
\* (transport_guard.h).
THEOREM RestartsSpaced == MCSpec => SpacedRestarts
<1> DEFINE Spaced == op = "none" /\ op' \in {"demod", "output", "profile"} /\ pc' = "stop" => quiet >= Gap
<1>1. ASSUME IInv, QuietOK, [MCNext]_MCvars PROVE Spaced
  <2> SUFFICES ASSUME op = "none", op' \in {"demod", "output", "profile"}, pc' = "stop"
               PROVE  quiet >= Gap
    OBVIOUS
  <2>1. pc = "idle" /\ cool \in Nat
    BY <1>1 DEF IInv, Links, Control, TypeOK, ControlOK
  <2>2. Next
    BY <1>1 DEF MCNext, MCvars, vars
  <2>3. Request
    <3>1. ~CallStep
      BY <2>1 DEF CallStep, RestartStep, StopParts, MarkOff, BsEnable, ProgramLoad, InstructionVerify,
         LutVerify, DriverStep, RxEnable, TxEnable, TxStart, Latch, GoLive, Publish, SaveOutput,
         ReturnBoot, ReturnSwitch, ReturnClose, StoreDemod, StopTx, StartChain, StopChain, At
    <3>2. ~(BootLoad \/ BootStart \/ BootPrepareFails \/ Tick \/ PowerCycle)
      BY <2>1 DEF BootLoad, BootStart, BootPrepareFails, Tick, PowerCycle, Restart
    <3> QED BY <2>2, <3>1, <3>2 DEF Next
  <2>4. GuardReady
    BY <2>3 DEF Request, SetDemod, SetOutput, RestartProfile, MenuOpen, MenuClose, MenuStandard, Call
  <2>5. cool = 0 /\ quiet + cool >= Gap
    BY <1>1, <2>1, <2>4 DEF GuardReady, QuietOK
  <2> QED BY <1>1, <2>5 DEF QuietOK
<1> QED
  BY <1>1, QuietInductive, PTL DEF MCSpec, SpacedRestarts

----------------------------------------------------------------------------
(* The self-noise bench test next to the menu.                              *)

\* Where video that is not live and not latched off is owed: the menu is
\* open, the test holds TX off, or a call that restores it is on its way.
LiveOwed ==
  /\ Ready /\ ~fault /\ ~menu /\ bench # "dark" => started
  /\ pc = "store" /\ ~fault /\ ~menu /\ bench # "dark" => started
  /\ pc \in {"publish", "save"} => started
  /\ pc = "return" => started \/ fault
  /\ op \in {"open", "close", "standard"} => menu
  /\ op = "bench" => bench = "dark"
  /\ boot = "load" => Idle

LEMMA OwedNext ==
  ASSUME Control, LiveOwed, [Next]_vars,
         bench' = IF boot' = "load" THEN "off" ELSE bench
  PROVE  Control' /\ LiveOwed'
<1> USE DEF LiveOwed, Ready, Idle, Control
<1>1. CASE BootLoad \/ BootStart \/ BootPrepareFails
  BY <1>1 DEF BootLoad, BootStart, BootPrepareFails, Restart
<1>2. CASE StopParts \/ MarkOff
  BY <1>2 DEF StopParts, MarkOff, AfterTeardown, RestartPcs
<1>3. CASE BsEnable
  BY <1>3 DEF BsEnable, EnablePart, Advance, Fail, At, RestartPcs
<1>4. CASE ProgramLoad \/ InstructionVerify \/ LutVerify \/ DriverStep
  BY <1>4 DEF ProgramLoad, InstructionVerify, LutVerify, DriverStep, Advance, Fail, At, RestartPcs
<1>5. CASE RxEnable \/ TxEnable \/ TxStart
  BY <1>5 DEF RxEnable, TxEnable, TxStart, EnablePart, Advance, Fail, At, RestartPcs
<1>6. CASE Latch
  BY <1>6 DEF Latch, Reply
<1>7. CASE GoLive
  BY <1>7 DEF GoLive, Goto, Reply
<1>8. CASE Publish
  BY <1>8 DEF Publish, Reply
<1>9. CASE SaveOutput
  BY <1>9 DEF SaveOutput, Goto
<1>10. CASE ReturnBoot
  BY <1>10 DEF ReturnBoot, Finish
<1>11. CASE ReturnSwitch
  BY <1>11 DEF ReturnSwitch, Goto, Finish
<1>12. CASE ReturnClose
  BY <1>12 DEF ReturnClose, Finish
<1>13. CASE StoreDemod
  BY <1>13 DEF StoreDemod, Finish
<1>14. CASE StopTx
  BY <1>14 DEF StopTx, Finish, Goto
<1>15. CASE StartChain
  BY <1>15 DEF StartChain, Finish
<1>16. CASE StopChain
  BY <1>16 DEF StopChain, Goto, Reply, Restart
<1>17. CASE \E d \in Demods : SetDemod(d)
  BY <1>17 DEF SetDemod, Call, Restart
<1>18. CASE \E o \in Outputs : SetOutput(o)
  BY <1>18 DEF SetOutput, Restart
<1>19. CASE RestartProfile
  BY <1>19 DEF RestartProfile, Restart
<1>20. CASE MenuOpen
  BY <1>20 DEF MenuOpen, Call
<1>21. CASE MenuClose \/ MenuStandard
  BY <1>21 DEF MenuClose, MenuStandard, Call
<1>22. CASE Tick
  BY <1>22 DEF Tick
<1>23. CASE PowerCycle
  BY <1>23 DEF PowerCycle
<1>24. CASE UNCHANGED vars
  BY <1>24 DEF vars
<1> QED
  BY <1>1, <1>2, <1>3, <1>4, <1>5, <1>6, <1>7, <1>8, <1>9, <1>10, <1>11, <1>12, <1>13, <1>14,
     <1>15, <1>16, <1>17, <1>18, <1>19, <1>20, <1>21, <1>22, <1>23, <1>24
     DEF Next, CallStep, RestartStep, Request

\* The self-noise test leaves live video as it found it, whatever calls of the
\* control task run between two of its own.
THEOREM SelfNoiseRestores == BenchSpec => []SelfNoiseLeavesLive
<1>1. BenchInit => Control /\ LiveOwed
  BY DEF BenchInit, Init, Control, LiveOwed, Ready, Idle
<1>2. ASSUME Control, LiveOwed, [BenchNext]_benchVars PROVE Control' /\ LiveOwed'
  <2>1. CASE Receiver
    BY <1>2, <2>1, OwedNext DEF Receiver
  <2>2. CASE SelfNoiseBegin \/ SelfNoiseEnd \/ UNCHANGED benchVars
    <3>1. UNCHANGED vars
      BY <2>2 DEF SelfNoiseBegin, SelfNoiseEnd, benchVars
    <3>2. Control'
      BY <1>2, <3>1 DEF Control, vars, Idle
    <3>3. bench' # "dark" => bench # "dark"
      BY <2>2 DEF SelfNoiseBegin, SelfNoiseEnd, benchVars
    <3>4. op = "bench" => bench' = bench
      BY <1>2, <2>2 DEF SelfNoiseBegin, SelfNoiseEnd, benchVars, Ready, Idle, Control
    <3>5. LiveOwed'
      BY <1>2, <3>1, <3>3, <3>4 DEF LiveOwed, vars, Ready, Idle
    <3> QED BY <3>2, <3>5
  <2>3. CASE SelfNoiseDark
    BY <1>2, <2>3 DEF SelfNoiseDark, Call, LiveOwed, Control, Ready, Idle
  <2>4. CASE SelfNoiseLit
    BY <1>2, <2>4 DEF SelfNoiseLit, Restart, LiveOwed, Control, Ready, Idle
  <2> QED BY <1>2, <2>1, <2>2, <2>3, <2>4 DEF BenchNext
<1>3. Control /\ LiveOwed => SelfNoiseLeavesLive
  BY DEF LiveOwed, SelfNoiseLeavesLive
<1> QED
  BY <1>1, <1>2, <1>3, PTL DEF BenchSpec

=============================================================================
