----------------------------- MODULE Transport -----------------------------
(***************************************************************************)
(* The live transport (transport.c, transport_recovery.h,                  *)
(* transport_guard.h) together with the menu raster that borrows its TX    *)
(* (menu.c).  IQ samples arrive by RX DMA in a ring; the BitScrambler (BS) *)
(* decodes them with a program and a look-up table (LUT), and TX drives    *)
(* the video DAC.  Changing the decoder or the output level means a full   *)
(* restart: tear down, load, verify, start, and on failure one rollback to *)
(* the last verified configuration, else live video latches off.           *)
(*                                                                         *)
(* One call runs at a time (Ownership.tla is about the callers); a step is *)
(* one stage of the call, so a power cut can fall between any two stages.  *)
(***************************************************************************)
EXTENDS Naturals

CONSTANTS
  Demods,         \* decoder programs (P64, U85Q)
  DefaultDemod,   \* TRANSPORT_DEMOD_P64
  Outputs,        \* output levels, indices below OUTPUT_LEVELS
  DefaultOutput,  \* level 0, "1.0x"
  Garbage,        \* BitScrambler memory that holds no image
  Gap,            \* TRANSPORT_SWITCH_GAP_US, in clock ticks of this model
  FlashMayFail    \* whether a store in flash may be refused

ASSUME DefaultsAssumption == DefaultDemod \in Demods /\ DefaultOutput \in Outputs
ASSUME GarbageAssumption ==
  /\ Garbage \notin Demods
  /\ Garbage \notin [demod : Demods, output : Outputs]
ASSUME GapAssumption == Gap \in Nat
ASSUME FlashAssumption == FlashMayFail \in BOOLEAN

\* A configuration is a decoder and an output level.  It stands for the
\* 1024-entry LUT too: the decoder's table with every entry scaled.
Configs == [demod : Demods, output : Outputs]
Default == [demod |-> DefaultDemod, output |-> DefaultOutput]

TX == "TX"
BS == "BS"
RX == "RX"
Parts == {TX, BS, RX}

\* tr_stage_t, in the order tr_attempt runs them.
TR_BS_ENABLE == 0
TR_PROGRAM_LOAD == 1
TR_INSTRUCTION_VERIFY == 2
TR_LUT_VERIFY == 3
TR_BS_RESET == 4
TR_BS_START == 5
TR_RX_ENABLE == 6
TR_TX_ENABLE == 7
TR_RX_START == 8
TR_TX_START == 9

\* What the TX DMA channel references: nothing, the raw ring, or the chain.
Feeds == {"none", "ring", "chain"}
\* The round of a restart: the selected configuration is tried, then the
\* previously verified one, then only the final cleanup is left.
Rounds == {"selected", "previous", "cleanup"}
Ops == {"none", "boot", "demod", "output", "profile", "resume", "bench", "open", "close", "standard"}
Pcs == {"idle", "stop", "mark", "stage", "golive", "publish", "save", "latch", "return", "store",
        "stopTx", "startChain", "stopChain"}

VARIABLES
  boot,          \* app_main: "load", "start", "run", or "halt" after a failed start
  started,       \* s_started
  fault,         \* s_transport_fault
  haveVerified,  \* s_have_verified
  lutKnown,      \* s_lut_known
  sel,           \* s_demod, s_output: the selected configuration
  ver,           \* s_verified_demod, s_verified_output
  lutLive,       \* s_lut_live: the LUT of the verified image
  workProg,      \* s_program_work.prefix (and restart_t.program)
  workLut,       \* s_program_work.lut
  rOutput,       \* restart_t.output of the call in progress
  ramProg,       \* BitScrambler instruction memory
  ramLut,        \* BitScrambler LUT RAM
  enabled,       \* s_tx_enabled, s_bs_enabled, s_rx_enabled: the enabled parts
  feed,          \* what TX DMA references
  nodes,         \* s_rx_node_count > 0: observers may read the ring
  cool,          \* ticks left of the shared restart cooldown (s_switch_guard)
  nvs,           \* the configuration kept in flash (keys "demod", "output")
  menu,          \* s_menu_active
  chain,         \* the menu's descriptor chain is allocated (s_chunks)
  op, pc, round, stage, ok   \* the call in progress; ok: its last result

config == <<sel, ver, lutLive, haveVerified, lutKnown>>
work   == <<workProg, workLut, rOutput>>
ram    == <<ramProg, ramLut>>
hw     == <<enabled, feed, nodes>>
ui     == <<menu, chain>>
ctl    == <<op, pc, round, stage, ok>>
vars   == <<boot, started, fault, config, work, ram, hw, cool, nvs, ui, ctl>>

-----------------------------------------------------------------------------
(* Initial state: power on.  Flash holds whatever the last session stored. *)

Init ==
  /\ boot = "load"
  /\ started = FALSE
  /\ fault = FALSE
  /\ haveVerified = FALSE
  /\ lutKnown = FALSE
  /\ sel = Default
  /\ ver = Default
  /\ lutLive = Garbage
  /\ workProg = Garbage
  /\ workLut = Garbage
  /\ rOutput = DefaultOutput
  /\ ramProg = Garbage
  /\ ramLut = Garbage
  /\ enabled = {}
  /\ feed = "none"
  /\ nodes = FALSE
  /\ cool = 0
  /\ menu = FALSE
  /\ chain = FALSE
  /\ op = "none"
  /\ pc = "idle"
  /\ round = "selected"
  /\ stage = 0
  /\ ok = FALSE
  /\ nvs = Default

-----------------------------------------------------------------------------
(* Helpers. *)

Idle == pc = "idle"
Ready == Idle /\ boot = "run"
GuardReadyEarly == cool <= 1      \* mutant of GuardReady: off by one tick
GuardReady == cool = 0                                \* transport_guard_ready

\* The call moves to step p with op, round and stage unchanged.
Goto(p) == pc' = p /\ UNCHANGED <<op, round, stage, ok>>
Call(o, p) == op' = o /\ pc' = p /\ UNCHANGED <<round, stage, ok>>
Finish == op' = "none" /\ pc' = "idle" /\ UNCHANGED <<round, stage, ok>>
Reply(r) == ok' = r /\ pc' = "return" /\ UNCHANGED <<op, round, stage>>

\* resume_live: prepare the image of configuration c before the halt, and
\* enter tr_restart.
Restart(o, c) ==
  /\ workProg' = c.demod
  /\ workLut' = c
  /\ rOutput' = c.output
  /\ op' = o
  /\ pc' = "stop"
  /\ round' = "selected"
  /\ stage' = 0
  /\ UNCHANGED ok

\* blob_store: the committed value, or a refused store that changes nothing.
Keep(value) == nvs' = value \/ (FlashMayFail /\ nvs' = nvs)

\* TX stays fed only while it stays enabled.
FeedAfter(left) == feed' = IF TX \in left THEN feed ELSE "none"

-----------------------------------------------------------------------------
(* Boot (main.c, settings.c, transport_start). *)

\* settings_load and app_main: before the first start a remembered output
\* and decoder are only selected.
BootLoad ==
  /\ boot = "load"
  /\ boot' = "start"
  /\ sel' = nvs
  /\ UNCHANGED <<started, fault, ver, lutLive, haveVerified, lutKnown, work, ram, hw, cool, nvs, ui, ctl>>

\* transport_start with both units created and enabled, then resume_live.
BootStart ==
  /\ boot = "start" /\ Idle
  /\ enabled' = {RX, TX}
  /\ Restart("boot", sel)
  /\ UNCHANGED <<boot, started, fault, config, ram, feed, nodes, cool, nvs, ui>>

\* prepare_rx or prepare_tx failed: teardown of what was enabled, then latch.
BootPrepareFails ==
  /\ boot = "start" /\ Idle
  /\ boot' = "halt"
  /\ enabled' \in SUBSET {RX}
  /\ fault' = TRUE
  /\ UNCHANGED <<started, config, work, ram, feed, nodes, cool, nvs, ui, ctl>>

-----------------------------------------------------------------------------
(* The restart coordinator: tr_restart, tr_attempt, tr_stop_parts, and the *)
(* callbacks quiesce and restart_stage.                                    *)

\* quiesce, first half: every enabled part is asked to stop; those that
\* refuse stay enabled, the others are still cleaned up.
StopParts ==
  /\ pc = "stop"
  /\ \E left \in SUBSET enabled :
       /\ enabled' = left
       /\ FeedAfter(left)
       /\ ok' = (left = {})
  /\ pc' = "mark"
  /\ UNCHANGED <<boot, started, fault, config, work, ram, nodes, cool, nvs, ui, op, round, stage>>

\* Mutant of AfterTeardown: a failed teardown is not looked at.
AfterTeardownUnchecked ==
  IF round = "cleanup" THEN pc' = "latch" /\ UNCHANGED round
  ELSE IF round = "previous" /\ ~haveVerified THEN pc' = "stop" /\ round' = "cleanup"
  ELSE pc' = "stage" /\ UNCHANGED round

\* quiesce, second half: not live, no ring for observers.  A failed teardown
\* is terminal; without a verified predecessor the rollback is skipped.
AfterTeardown ==
  IF ~ok \/ round = "cleanup" THEN pc' = "latch" /\ UNCHANGED round
  ELSE IF round = "previous" /\ ~haveVerified THEN pc' = "stop" /\ round' = "cleanup"
  ELSE pc' = "stage" /\ UNCHANGED round

MarkOff ==
  /\ pc = "mark"
  /\ started' = FALSE
  /\ nodes' = FALSE
  /\ AfterTeardown
  /\ stage' = TR_BS_ENABLE
  /\ UNCHANGED <<boot, fault, config, work, ram, enabled, feed, cool, nvs, ui, op, ok>>

Advance ==
  /\ IF stage = TR_TX_START THEN pc' = "golive" /\ UNCHANGED stage
                            ELSE pc' = "stage" /\ stage' = stage + 1
  /\ UNCHANGED <<op, round, ok>>

\* Mutant of Fail: the rollback is retried as often as it fails.
FailRetries ==
  /\ pc' = "stop"
  /\ round' = "previous"
  /\ UNCHANGED <<op, stage, ok>>

\* A failed attempt is torn down before anything else is tried.
Fail ==
  /\ pc' = "stop"
  /\ round' = IF round = "selected" THEN "previous" ELSE "cleanup"
  /\ UNCHANGED <<op, stage, ok>>

At(s) == pc = "stage" /\ stage = s

\* The driver refuses to enable a part twice.
EnablePart(p) ==
  \/ p \notin enabled /\ enabled' = enabled \cup {p} /\ Advance
  \/ UNCHANGED enabled /\ Fail

\* Mutants of BsEnable: a rollback leaves the failed selection in s_demod
\* and s_output, or the failed LUT in the work image.
BsEnableKeepsSelection ==
  /\ At(TR_BS_ENABLE)
  /\ IF round = "previous"
     THEN rOutput' = ver.output /\ workProg' = ver.demod /\ workLut' = lutLive
     ELSE UNCHANGED work
  /\ EnablePart(BS)
  /\ UNCHANGED <<boot, started, fault, config, ram, feed, nodes, cool, nvs, ui>>

BsEnableKeepsLut ==
  /\ At(TR_BS_ENABLE)
  /\ IF round = "previous"
     THEN sel' = ver /\ rOutput' = ver.output /\ workProg' = ver.demod
     ELSE UNCHANGED <<sel, rOutput, workProg>>
  /\ EnablePart(BS)
  /\ UNCHANGED <<boot, started, fault, ver, lutLive, haveVerified, lutKnown, workLut, ram, feed, nodes, cool, nvs, ui>>

\* On a rollback the first stage puts the verified configuration, its
\* program and its LUT back into the selection and the work image.
BsEnable ==
  /\ At(TR_BS_ENABLE)
  /\ IF round = "previous"
     THEN /\ sel' = ver
          /\ rOutput' = ver.output
          /\ workProg' = ver.demod
          /\ workLut' = lutLive
     ELSE UNCHANGED <<sel, work>>
  /\ EnablePart(BS)
  /\ UNCHANGED <<boot, started, fault, ver, lutLive, haveVerified, lutKnown, ram, feed, nodes, cool, nvs, ui>>

\* A load that reports success may still have dropped or damaged writes,
\* which is why readback follows.
ProgramLoad ==
  /\ At(TR_PROGRAM_LOAD)
  /\ ramProg' \in {workProg, ramProg, Garbage}
  /\ ramLut' \in {workLut, ramLut, Garbage}
  /\ Advance \/ Fail
  /\ UNCHANGED <<boot, started, fault, config, work, hw, cool, nvs, ui>>

\* Mutant of LutVerify: a readback error is the only failure, what was read is
\* not compared.
LutVerifyBlind ==
  /\ At(TR_LUT_VERIFY)
  /\ Advance \/ Fail
  /\ UNCHANGED <<boot, started, fault, config, work, ram, hw, cool, nvs, ui>>

InstructionVerify ==
  /\ At(TR_INSTRUCTION_VERIFY)
  /\ (ramProg = workProg /\ Advance) \/ Fail
  /\ UNCHANGED <<boot, started, fault, config, work, ram, hw, cool, nvs, ui>>

LutVerify ==
  /\ At(TR_LUT_VERIFY)
  /\ (ramLut = workLut /\ Advance) \/ Fail
  /\ UNCHANGED <<boot, started, fault, config, work, ram, hw, cool, nvs, ui>>

\* bitscrambler_reset, bitscrambler_start and start_rx report only an error.
DriverStep ==
  /\ At(TR_BS_RESET) \/ At(TR_BS_START) \/ At(TR_RX_START)
  /\ Advance \/ Fail
  /\ UNCHANGED <<boot, started, fault, config, work, ram, hw, cool, nvs, ui>>

RxEnable ==
  /\ At(TR_RX_ENABLE)
  /\ EnablePart(RX)
  /\ UNCHANGED <<boot, started, fault, config, work, ram, feed, nodes, cool, nvs, ui>>

TxEnable ==
  /\ At(TR_TX_ENABLE)
  /\ EnablePart(TX)
  /\ UNCHANGED <<boot, started, fault, config, work, ram, feed, nodes, cool, nvs, ui>>

\* start_rings_tail: the RX descriptors become visible before the wait for
\* TX; TX may already run when a later check of the DMA channels fails.
TxStart ==
  /\ At(TR_TX_START)
  /\ \/ nodes' = TRUE /\ feed' = "ring" /\ (Advance \/ Fail)
     \/ nodes' \in BOOLEAN /\ UNCHANGED feed /\ Fail
  /\ UNCHANGED <<boot, started, fault, config, work, ram, enabled, cool, nvs, ui>>

-----------------------------------------------------------------------------
(* resume_live after tr_restart. *)

\* TR_LATCHED: live video stays off until the next power on.
Latch ==
  /\ pc = "latch"
  /\ fault' = TRUE
  /\ lutKnown' = FALSE
  /\ Reply(FALSE)
  /\ UNCHANGED <<boot, started, sel, ver, lutLive, haveVerified, work, ram, hw, cool, nvs, ui>>

\* TR_APPLIED and TR_ROLLED_BACK: live again; a rollback reports failure.
GoLive ==
  /\ pc = "golive"
  /\ started' = TRUE
  /\ IF round = "selected" THEN Goto("publish") ELSE Reply(FALSE)
  /\ UNCHANGED <<boot, fault, config, work, ram, hw, cool, nvs, ui>>

\* TR_APPLIED: the selected configuration becomes the verified one.
Publish ==
  /\ pc = "publish"
  /\ lutLive' = workLut
  /\ ver' = [demod |-> sel.demod, output |-> rOutput]
  /\ haveVerified' = TRUE
  /\ lutKnown' = TRUE
  /\ IF haveVerified /\ ver.output # rOutput
     THEN ok' = TRUE /\ pc' = "save" /\ UNCHANGED <<op, round, stage>>
     ELSE Reply(TRUE)
  /\ UNCHANGED <<boot, started, fault, sel, work, ram, hw, cool, nvs, ui>>

\* settings_save_output; the store may fail.
SaveOutput ==
  /\ pc = "save"
  /\ Keep([demod |-> nvs.demod, output |-> rOutput])
  /\ Goto("return")
  /\ UNCHANGED <<boot, started, fault, config, work, ram, hw, cool, ui>>

\* The caller's tail.  Every live restart marks the shared guard; a boot
\* whose start fails never starts the receiver tasks; the menu frees its
\* chain; demod_next remembers a decoder that was accepted.
ReturnBoot ==
  /\ pc = "return" /\ op = "boot"
  /\ boot' = IF ok THEN "run" ELSE "halt"
  /\ Finish
  /\ UNCHANGED <<started, fault, config, work, ram, hw, cool, nvs, ui>>

ReturnSwitch ==
  /\ pc = "return" /\ op \in {"demod", "output", "profile", "resume"}
  /\ cool' = Gap
  /\ IF op = "demod" /\ ok THEN Goto("store") ELSE Finish
  /\ UNCHANGED <<boot, started, fault, config, work, ram, hw, nvs, ui>>

ReturnClose ==
  /\ pc = "return" /\ op = "close"
  /\ cool' = Gap
  /\ chain' = FALSE
  /\ menu' = FALSE
  /\ Finish
  /\ UNCHANGED <<boot, started, fault, config, work, ram, hw, nvs>>

StoreDemod ==
  /\ pc = "store"
  /\ Keep([demod |-> sel.demod, output |-> nvs.output])
  /\ Finish
  /\ UNCHANGED <<boot, started, fault, config, work, ram, hw, cool, ui>>

RestartStep ==
  \/ StopParts \/ MarkOff
  \/ BsEnable \/ ProgramLoad \/ InstructionVerify \/ LutVerify
  \/ DriverStep \/ RxEnable \/ TxEnable \/ TxStart
  \/ Latch \/ GoLive \/ Publish \/ SaveOutput
  \/ ReturnBoot \/ ReturnSwitch \/ ReturnClose \/ StoreDemod

-----------------------------------------------------------------------------
(* Requests. *)

\* transport_set_demod by demod_next: a repeated selection is only stored,
\* the menu or a stopped TX only selects, live video restarts.
SetDemod(d) ==
  /\ Ready /\ ~fault
  /\ sel' = [demod |-> d, output |-> sel.output]
  /\ IF d = sel.demod \/ menu \/ ~started
     THEN Call("demod", "store") /\ UNCHANGED work
     ELSE GuardReady /\ Restart("demod", sel')
  /\ UNCHANGED <<boot, started, fault, ver, lutLive, haveVerified, lutKnown, ram, hw, cool, nvs, ui>>

SetOutput(o) ==
  /\ Ready /\ ~fault /\ o # sel.output
  /\ sel' = [demod |-> sel.demod, output |-> o]
  /\ IF menu \/ ~started
     THEN UNCHANGED <<work, ctl>>
     ELSE GuardReady /\ Restart("output", sel')
  /\ UNCHANGED <<boot, started, fault, ver, lutLive, haveVerified, lutKnown, ram, hw, cool, nvs, ui>>

\* transport_restart_profile, after the analog filter changed.
RestartProfile ==
  /\ Ready /\ ~fault /\ lutKnown /\ started /\ ~menu /\ GuardReady
  /\ Restart("profile", sel)
  /\ UNCHANGED <<boot, started, fault, config, ram, hw, cool, nvs, ui>>

\* menu_open: the chain is allocated before live video is touched; without
\* memory nothing else happens.
MenuOpen ==
  /\ Ready /\ ~menu
  /\ \/ menu' = TRUE /\ chain' = TRUE /\ Call("open", "stopTx")
     \/ menu' = FALSE /\ chain' = FALSE /\ UNCHANGED ctl
  /\ UNCHANGED <<boot, started, fault, config, work, ram, hw, cool, nvs>>

\* Mutant of StopTx: s_started stays set.
StopTxStaysLive ==
  /\ pc = "stopTx"
  /\ \E left \in SUBSET (enabled \ {RX}) :
       /\ enabled' = left \cup (enabled \cap {RX})
       /\ FeedAfter(left)
       /\ fault' = (fault \/ left # {})
  /\ IF op = "bench" THEN Finish ELSE Goto("startChain")
  /\ UNCHANGED <<boot, started, config, work, ram, nodes, cool, nvs, ui>>

\* transport_stop_tx: TX and BS only; RX keeps collecting IQ for calibration.
StopTx ==
  /\ pc = "stopTx"
  /\ \E left \in SUBSET (enabled \ {RX}) :
       /\ enabled' = left \cup (enabled \cap {RX})
       /\ FeedAfter(left)
       /\ fault' = (fault \/ left # {})
  /\ started' = FALSE
  /\ IF op = "bench" THEN Finish ELSE Goto("startChain")
  /\ UNCHANGED <<boot, config, work, ram, nodes, cool, nvs, ui>>

\* transport_start_chain: silent when the fault is latched or TX does not
\* enable; a missing DMA channel or a FIFO timeout tears TX down and latches.
StartChain ==
  /\ pc = "startChain"
  /\ \/ UNCHANGED <<enabled, feed, fault>>
     \/ /\ ~fault /\ TX \notin enabled
        /\ \/ enabled' = enabled \cup {TX} /\ feed' = "chain" /\ UNCHANGED fault
           \/ enabled' = enabled \cup {TX} /\ feed' = "chain" /\ fault' = TRUE
           \/ fault' = TRUE /\ UNCHANGED <<enabled, feed>>
  /\ Finish
  /\ UNCHANGED <<boot, started, config, work, ram, nodes, cool, nvs, ui>>

\* menu_close, and menu_set_standard_mode with another standard.
MenuClose ==
  /\ Ready /\ menu
  /\ Call("close", "stopChain")
  /\ UNCHANGED <<boot, started, fault, config, work, ram, hw, cool, nvs, ui>>

MenuStandard ==
  /\ Ready /\ menu
  /\ Call("standard", "stopChain")
  /\ UNCHANGED <<boot, started, fault, config, work, ram, hw, cool, nvs, ui>>

\* transport_stop_chain, then transport_resume_live (refused by a fault), or
\* the rebuilt raster of the other standard.
StopChain ==
  /\ pc = "stopChain"
  /\ \/ enabled' = enabled \ {TX} /\ feed' = "none" /\ UNCHANGED fault
     \/ TX \in enabled /\ fault' = TRUE /\ UNCHANGED <<enabled, feed>>
  /\ IF op = "standard" THEN Goto("startChain") /\ UNCHANGED work
     ELSE IF fault' THEN Reply(FALSE) /\ UNCHANGED work
     ELSE Restart("close", sel)
  /\ UNCHANGED <<boot, started, config, ram, nodes, cool, nvs, ui>>

Request ==
  \/ \E d \in Demods : SetDemod(d)
  \/ \E o \in Outputs : SetOutput(o)
  \/ RestartProfile
  \/ MenuOpen \/ MenuClose \/ MenuStandard

CallStep == RestartStep \/ StopTx \/ StartChain \/ StopChain

-----------------------------------------------------------------------------
(* The environment: time, and a reset or battery pull at any moment. *)

Tick ==
  /\ cool > 0
  /\ cool' = cool - 1
  /\ UNCHANGED <<boot, started, fault, config, work, ram, hw, nvs, ui, ctl>>

PowerCycle ==
  /\ boot' = "load"
  /\ started' = FALSE
  /\ fault' = FALSE
  /\ haveVerified' = FALSE
  /\ lutKnown' = FALSE
  /\ sel' = Default
  /\ ver' = Default
  /\ lutLive' = Garbage
  /\ workProg' = Garbage
  /\ workLut' = Garbage
  /\ rOutput' = DefaultOutput
  /\ ramProg' = Garbage
  /\ ramLut' = Garbage
  /\ enabled' = {}
  /\ feed' = "none"
  /\ nodes' = FALSE
  /\ cool' = 0
  /\ menu' = FALSE
  /\ chain' = FALSE
  /\ op' = "none"
  /\ pc' = "idle"
  /\ round' = "selected"
  /\ stage' = 0
  /\ ok' = FALSE
  /\ UNCHANGED nvs

Next ==
  \/ BootLoad \/ BootStart \/ BootPrepareFails
  \/ CallStep \/ Request \/ Tick \/ PowerCycle

Spec == Init /\ [][Next]_vars

\* The task that made a call keeps running it: no stage waits without bound
\* (start_tx and transport_start_chain have deadlines).
FairSpec == Spec /\ WF_vars(CallStep)

-----------------------------------------------------------------------------
(* Properties. *)

FlagsOK ==
  /\ started \in BOOLEAN /\ fault \in BOOLEAN /\ haveVerified \in BOOLEAN /\ lutKnown \in BOOLEAN
  /\ nodes \in BOOLEAN /\ menu \in BOOLEAN /\ chain \in BOOLEAN /\ ok \in BOOLEAN

ImagesOK ==
  /\ sel \in Configs /\ ver \in Configs /\ nvs \in Configs
  /\ rOutput \in Outputs
  /\ {workProg, ramProg} \subseteq Demods \cup {Garbage}
  /\ {workLut, ramLut, lutLive} \subseteq Configs \cup {Garbage}

ControlOK ==
  /\ boot \in {"load", "start", "run", "halt"}
  /\ op \in Ops /\ pc \in Pcs /\ round \in Rounds /\ stage \in 0 .. 9
  /\ enabled \in SUBSET Parts /\ feed \in Feeds /\ cool \in 0 .. Gap

\* Every variable stays in its range.
TypeOK == FlagsOK /\ ImagesOK /\ ControlOK

\* Live video decodes with the verified image: the BitScrambler holds the
\* program and the LUT of the verified decoder and output level, and the
\* shadow LUT kept for a rollback is that LUT (transport.c "Publication
\* waits for both DMA starts").  resume_live sets s_started a few statements
\* before it publishes, hence the exception.
LiveIsVerified ==
  started /\ pc # "publish" => ramProg = ver.demod /\ ramLut = ver /\ lutLive = ver

\* Whenever a call is over and video is live, the selection the menu, NVS
\* and telemetry show is the configuration that is running, also after a
\* rollback of a selection made in the menu.
SelectionIsLive ==
  started /\ Idle => sel = ver

\* Failed teardown is terminal, "never enable another producer on top"
\* (tr_restart): an attempt, first or rollback, runs only with exactly the
\* parts its own earlier stages enabled.
NoProducerOnTop ==
  pc = "stage" =>
    enabled = (IF stage > TR_BS_ENABLE THEN {BS} ELSE {}) \cup
              (IF stage > TR_RX_ENABLE THEN {RX} ELSE {}) \cup
              (IF stage > TR_TX_ENABLE THEN {TX} ELSE {})

\* Live means complete: all parts enabled, TX fed from the raw ring and the
\* ring visible to the observers, except inside quiesce itself.
LiveIsComplete ==
  started /\ pc # "mark" => enabled = Parts /\ feed = "ring" /\ nodes

\* The menu raster and live video never both count as the picture source,
\* and a latched fault always reads as not live (VIDEO_OUTPUT source=OFF).
OneSource ==
  started => feed # "chain" /\ ~fault

\* Observers hold ring nodes only while RX is enabled, outside quiesce.
NodesNeedRx ==
  nodes /\ pc # "mark" => RX \in enabled

\* The picture is whole or off: a half state, with a part stopped, the menu's
\* raster on TX or the observers cut off, never counts as live, and the
\* observers are never served from a ring that RX no longer writes.
PictureComplete == LiveIsComplete /\ OneSource /\ NodesNeedRx

\* A latched fault is final until the next power on: no part is enabled
\* again, nothing goes live and no call clears it (resume_live,
\* transport_start_chain).
FaultIsFinal ==
  [][fault /\ boot' # "load" => fault' /\ ~started' /\ enabled' \subseteq enabled]_vars

\* Flash remembers only an output level that is live and verified
\* ("A failed restart or rollback returns above and cannot replace the
\* remembered output"), also when the level was chosen in the menu.
OutputSavedLive ==
  [][nvs'.output # nvs.output => started /\ nvs'.output = ver.output /\ ramLut = ver]_vars

\* Every restart settles: live again, on the new or on the previous
\* configuration, or latched off, or interrupted by a power cut.
RestartSettles ==
  (pc = "stop") ~> ((Idle /\ (started \/ fault)) \/ boot = "load")

-----------------------------------------------------------------------------
(* What the transport promises (LiveVideo.tla), read off its state.        *)

Image(c) == [prog |-> c.demod, lut |-> c]
Images == {Image(c) : c \in Configs}
NoImage == [prog |-> Garbage, lut |-> Garbage]
State == IF fault THEN "latched"
         ELSE IF started /\ pc # "publish" THEN "live" ELSE "off"
Shown == IF State = "live" THEN [prog |-> ramProg, lut |-> ramLut] ELSE NoImage
Good == IF haveVerified THEN Image(ver) ELSE NoImage

\* The detailed transport implements the abstract picture source: live
\* video is always a verified image, a rollback shows the previous one, a
\* latch is final, and flash remembers only what is showing.
LV == INSTANCE LiveVideo WITH
  OutputOf <- [i \in Images |-> i.lut.output],
  state <- State, shown <- Shown, good <- Good, kept <- nvs.output

ImplementsLiveVideo == LV!Spec

-----------------------------------------------------------------------------
(* Statements of the repository that the code does not keep. *)

\* main.c: NVS "demod" is "the decoder of the last session": with no call in
\* progress and a flash that never refuses a store, the kept decoder is the
\* one live video runs.  A decoder chosen in the menu is kept before it is
\* applied, and the rollback on menu exit does not take it back.
DemodKeptIsLive ==
  started /\ Idle => nvs.demod = ver.demod

\* menu.c: "GDMA no longer references the chain" when menu_close frees it.
FreedChainUnused == ~chain => feed # "chain"
=============================================================================
