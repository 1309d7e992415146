----------------------------- MODULE MCProfile -----------------------------
(***************************************************************************)
(* Two channels, three VTXs on one and one on the other.  104 and 107 lie  *)
(* on the two sides of the narrow limit and within the 5 % of each other.  *)
(***************************************************************************)
EXTENDS Profile

MCCarried == [A1 |-> {104, 107, 170}, B2 |-> {130}]

\* On the channel with the choice of VTXs, with the live switch on, AUTO or
\* with a saved FILTER.
MCInit == Init /\ ch = "A1" /\ liveMode /\ sel \in {SelectAuto, "narrow"} /\ ready \in {{}, {"A1"}}
MCSpec == MCInit /\ [][Next]_vars /\ Fairness
=============================================================================
