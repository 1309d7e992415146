----------------------------- MODULE MCDcServo -----------------------------
(* Either polarity of the hardware and two sizes of its slope, with noise of *)
(* half a cell, where the share of signs saturates within two codes, and of  *)
(* two; a stored code that is nearly right, off by a few codes, or far off,  *)
(* with the zero on a code or between two.                                   *)
EXTENDS DcServo

MCStored == {27100, 18000, 8000, -1240, -16100}
MCSlopes == {400, -400, 180}
MCJumps  == {-7300, 3300}
=============================================================================
