---------------------------- MODULE MCTransport ----------------------------
(* TLC instance of Transport with a history variable for the cooldown.      *)
EXTENDS Transport

VARIABLE quiet   \* ticks since a restart last ended, as far as the clock is modelled

MCvars == <<vars, quiet>>

MCInit == Init /\ quiet = Gap

MCNext ==
  /\ Next
  /\ quiet' = IF boot' = "load" THEN Gap
              ELSE IF pc = "return" /\ op # "boot" THEN 0
              ELSE IF cool' < cool THEN quiet + 1
              ELSE quiet

\* FairSpec of Transport.
MCSpec == MCInit /\ [][MCNext]_MCvars /\ WF_vars(CallStep)

\* Every change of live video shares one cooldown (transport_guard.h): live
\* video is interrupted for another decoder, output level or profile only
\* when the whole gap has passed since any restart ended, menu exits included.
SpacedRestarts ==
  [][ op = "none" /\ op' \in {"demod", "output", "profile"} /\ pc' = "stop" => quiet >= Gap ]_MCvars
=============================================================================
