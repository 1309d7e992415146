--------------------------- MODULE TransportBench ---------------------------
(***************************************************************************)
(* The self-noise bench test (calibration_bench.c, self_noise_test) next   *)
(* to the menu.  It runs in the calibration task and alternates between    *)
(* live TX and stopped TX; only its start looks at the menu.  A call of    *)
(* the control task (Transport.tla) may run between any two of its calls.  *)
(***************************************************************************)
EXTENDS Transport

VARIABLE bench   \* "off", or the test has TX "lit" or "dark"

benchVars == <<vars, bench>>

BenchInit == Init /\ bench = "off"

\* quiet_owner: nothing else owns the receiver when the test starts.
SelfNoiseBegin ==
  /\ Ready /\ ~menu
  /\ bench = "off" /\ bench' = "lit"
  /\ UNCHANGED vars

\* transport_stop_tx before the "output off" measurement.
SelfNoiseDark ==
  /\ Ready
  /\ bench = "lit" /\ bench' = "dark"
  /\ Call("bench", "stopTx")
  /\ UNCHANGED <<boot, started, fault, config, work, ram, hw, cool, nvs, ui>>

\* transport_resume_live after it, refused by a latched fault.
SelfNoiseLit ==
  /\ Ready
  /\ bench = "dark" /\ bench' = "lit"
  /\ IF fault THEN cool' = Gap /\ UNCHANGED <<work, ctl>>
              ELSE Restart("resume", sel) /\ UNCHANGED cool
  /\ UNCHANGED <<boot, started, fault, config, ram, hw, nvs, ui>>

\* Mutant of SelfNoiseEnd: the test may end with TX dark.
SelfNoiseEndAnywhere ==
  /\ Idle
  /\ bench # "off" /\ bench' = "off"
  /\ UNCHANGED vars

SelfNoiseEnd ==
  /\ Idle
  /\ bench = "lit" /\ bench' = "off"
  /\ UNCHANGED vars

Receiver == Next /\ bench' = IF boot' = "load" THEN "off" ELSE bench

BenchNext == SelfNoiseBegin \/ SelfNoiseDark \/ SelfNoiseLit \/ SelfNoiseEnd \/ Receiver

BenchSpec == BenchInit /\ [][BenchNext]_benchVars

\* The test leaves live video as it found it: whatever the menu did
\* meanwhile, without a fault and with the menu closed video is live again
\* as soon as no call is in progress and the test does not hold TX off.
SelfNoiseLeavesLive ==
  Ready /\ ~fault /\ ~menu /\ bench # "dark" => started

\* menu.c: the raster "owns TX while the menu is open; live video resumes
\* with the exact boot topology on exit".
RasterOwnsTx == Idle /\ menu => ~started
=============================================================================
