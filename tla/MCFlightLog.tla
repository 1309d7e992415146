---------------------------- MODULE MCFlightLog ----------------------------
(* TLC instance of FlightLog: the two rings share a session, a lock and the *)
(* queue; to keep both explorable at once a behaviour stresses one of them: *)
(* records without snapshot requests, or snapshots with no record but those *)
(* the log makes itself.                                                    *)
EXTENDS FlightLog

VARIABLE stress

MCvars == <<vars, stress>>

MCInit == Init /\ stress \in {"records", "snapshots"}

MCNext ==
  /\ Next
  /\ stress = "records" => ~SnapRequest
  /\ stress = "snapshots" => ~Record
  /\ UNCHANGED stress

MCSpec == MCInit /\ [][MCNext]_MCvars
=============================================================================
