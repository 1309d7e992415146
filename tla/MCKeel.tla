------------------------------- MODULE MCKeel -------------------------------
(* TLC instance of Keel: four home rows, two rows below them, and a reset   *)
(* that starts the core no lower than the second home row.                  *)
EXTENDS Keel

MCModel == [r \in 0 .. 5 |-> CASE r = 0 -> -8 [] r = 1 -> -4 [] r = 2 -> 0
                               [] r = 3 -> 12 [] r = 4 -> 24 [] r = 5 -> 36]
\* The step into the top home row is 2.5 dB larger than believed.
MCSteep == [MCModel EXCEPT ![5] = @ + 10]
MCTables == {MCModel, MCSteep}
\* Gone, at the edge of a release into the steep row, strong, saturating the lowest home row.
MCSignals == {-100, -40, -20, 12}
MCNoise == -50

ASSUME BelievableAssumption == Believable
=============================================================================
