------------------------------ MODULE LiveVideo ------------------------------
(***************************************************************************)
(* What the rest of the receiver may rely on about live video, without a   *)
(* word on how a restart works: the picture is off, live with one image    *)
(* the hardware was verified to hold, or latched off until the next power  *)
(* on.  After an interruption it comes back with a newly verified image or *)
(* with the last good one.  Flash remembers the output level of the image  *)
(* that is live, and nothing else.                                         *)
(***************************************************************************)
CONSTANTS
  Images,    \* decoder images
  NoImage,   \* no image
  OutputOf   \* the output level of each image

VARIABLES
  state,     \* "off", "live" or "latched"
  shown,     \* the image live video is decoded with
  good,      \* the last image verified since power on
  kept       \* the output level remembered in flash

vars == <<state, shown, good, kept>>

Init == state = "off" /\ shown = NoImage /\ good = NoImage

Interrupt ==
  /\ state = "live" /\ state' = "off"
  /\ shown' = NoImage
  /\ UNCHANGED <<good, kept>>

\* A new image passed every check of a restart.
ShowNew ==
  /\ state = "off" /\ state' = "live"
  /\ good' \in Images
  /\ shown' = good'
  /\ UNCHANGED kept

\* It did not, and the previous image passed them instead.
ShowPrevious ==
  /\ state = "off" /\ state' = "live"
  /\ good \in Images
  /\ shown' = good
  /\ UNCHANGED <<good, kept>>

LatchOff ==
  /\ state # "latched" /\ state' = "latched"
  /\ shown' = NoImage
  /\ UNCHANGED <<good, kept>>

Remember ==
  /\ state = "live"
  /\ kept' = OutputOf[shown]
  /\ UNCHANGED <<state, shown, good>>

PowerCycle ==
  /\ state' = "off" /\ shown' = NoImage /\ good' = NoImage
  /\ UNCHANGED kept

Next == Interrupt \/ ShowNew \/ ShowPrevious \/ LatchOff \/ Remember \/ PowerCycle

Spec == Init /\ [][Next]_vars
=============================================================================
