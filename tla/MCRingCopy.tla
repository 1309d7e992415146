----------------------------- MODULE MCRingCopy -----------------------------
(***************************************************************************)
(* RingCopy on a ring of the real shape in small: equal descriptors, a     *)
(* tail too short to be a source, and a snapshot longer than a descriptor. *)
(***************************************************************************)
EXTENDS RingCopy

MCLengths == <<3, 3, 3, 3, 1>>
MCBases == [n \in 0 .. 5 |-> IF n = 5 THEN 13 ELSE 3 * n]
=============================================================================
