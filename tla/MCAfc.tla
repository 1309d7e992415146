------------------------------- MODULE MCAfc -------------------------------
(* Two channels: on the second the VTX is further off than one burst of     *)
(* corrections reaches, on the first it is off the other way.               *)
EXTENDS Afc

MCCarrier == [c \in Channels |-> IF c = "A1" THEN -12 ELSE 22]
=============================================================================
