------------------------------ MODULE RingCopy ------------------------------
(***************************************************************************)
(* The observers' copies out of the RX ring (main/transport.c, main/       *)
(* control_window.h, main/snapshot.h).  RX DMA writes a ring of descriptors *)
(* for ever; a reader may only see which descriptor is active, never the   *)
(* byte being written.  It picks a source behind the active descriptor,    *)
(* copies it while RX goes on, then decides from the active descriptor     *)
(* and from the microseconds that passed whether RX can have reached the   *)
(* source meanwhile.  A whole lap leaves the active descriptor where it    *)
(* was, and the clock counts whole microseconds only.                      *)
(*                                                                         *)
(* RX runs at a fixed rate, so its position is also the time: one step of  *)
(* RX writes one unit of the ring, Rate units are a microsecond.  A reader *)
(* that is preempted is one whose next step comes many units later.        *)
(***************************************************************************)
EXTENDS Naturals, Sequences, FiniteSetsExt

CONSTANTS
    Lengths,      \* the lengths of the descriptors, the short tail last
    Bases,        \* where the buffer of each begins, and where the ring ends
    Rate,         \* ring units RX writes in a microsecond (IQ_RATE_HZ / 10^6)
    Need,         \* units of a control copy; the probe and sentinel regions lie in them
    Level,        \* units of a snapshot (C5V4_LEVEL_SAMPLE_BYTES)
    ProbeLimit,   \* microseconds after which a probe is refused (300)
    Prompt,       \* microseconds of a copy that nothing delayed
    MaxClock      \* bound: units RX may write while a copy is under way

Count == Len(Lengths)
Nodes == 0 .. Count - 1
Length(n) == Lengths[n + 1]
Base(n) == Bases[n]
Ring == Base(Count)
Kinds == {"control", "probe", "sentinel", "snapshot"}

ASSUME GeometryAssumption ==
    /\ Lengths \in Seq(Nat \ {0}) /\ Count > 3
    /\ Rate \in Nat \ {0} /\ Need \in Nat \ {0} /\ Level \in Nat \ {0} /\ MaxClock \in Nat \ {0}
    /\ ProbeLimit \in Nat /\ Prompt \in Nat

\* The buffers lie one after another and make up the ring, as copy_snapshot
\* checks segment by segment; units are counted from the first of them.
ASSUME ContiguousAssumption ==
    /\ DOMAIN Bases = 0 .. Count /\ Base(0) = 0
    /\ \A n \in Nodes : Base(n + 1) = Base(n) + Length(n)

VARIABLES
    pos,      \* the unit of the ring RX writes next
    now,      \* units since the whole microsecond before the copy began
    moved,    \* units RX wrote since the reader looked at the active descriptor
    at,       \* where the reader is
    kind,     \* which copy it makes
    active,   \* the descriptor it found active
    plan,     \* the source: first unit, units, distance and safe units
    copied,   \* units copied so far
    torn,     \* whether a copied unit had been overwritten
    took,     \* microseconds it measured
    later,    \* the descriptor it found active after the copy
    verdict   \* what it decided

vars == <<pos, now, moved, at, kind, active, plan, copied, torn, took, later, verdict>>
reader == <<at, kind, active, plan, copied, torn, took, later, verdict>>

\* Distances and positions around a ring, of units or of descriptors.
Ahead(from, to, size) == IF from <= to THEN to - from ELSE to + size - from
Onward(from, n, size) == IF from + n < size THEN from + n ELSE from + n - size
Behind(from, n, size) == IF n <= from THEN from - n ELSE from + size - n

NodeAt(p) == CHOOSE n \in Nodes : Base(n) <= p /\ p < Base(n) + Length(n)

NoPlan == [offset |-> 0, units |-> 0, distance |-> 0, safe |-> 0]

----------------------------------------------------------------------------
(* Choosing the source. *)

\* control_copy_plan: the newest completed descriptor that is long enough,
\* with at least one descriptor between the active one and it: the time RX
\* needs for those in between is safe.
ControlPlan(a) ==
    LET back  == {b \in 1 .. Count - 1 : Length(Behind(a, b, Count)) >= Need}
        index == Behind(a, Min(back), Count)
        d     == Ahead(a, index, Count)
        safe  == Ahead(Onward(Base(a), Length(a), Ring), Base(index), Ring)
    IN  IF back = {} \/ safe = 0 THEN NoPlan
        ELSE [offset |-> Base(index), units |-> Need, distance |-> d, safe |-> safe]

\* c5v4_snapshot_plan: the Level units that end where the active descriptor
\* begins, wherever the descriptors in between end.
SnapshotPlan(a) ==
    IF Level >= Ring - Length(a) THEN NoPlan
    ELSE [offset |-> Behind(Base(a), Level, Ring), units |-> Level,
          distance |-> 0, safe |-> Ring - Level - Length(a)]

PlanOf(k, a) == IF k = "snapshot" THEN SnapshotPlan(a) ELSE ControlPlan(a)

\* The tenth that the snapshot keeps in reserve is worth the microsecond that
\* its clock may not have counted.
ASSUME ReserveAssumption ==
    \A a \in Nodes, us \in 0 .. Ring :
        LET safe == SnapshotPlan(a).safe IN us * Rate * 11 < safe * 10 => (us + 1) * Rate <= safe

\* A prompt copy has a source and ends, its last microsecond counted whole,
\* before RX comes to it.
ASSUME PromptAssumption ==
    /\ Prompt <= ProbeLimit
    /\ \A a \in Nodes, k \in Kinds :
          PlanOf(k, a) # NoPlan /\ (Prompt + 1) * Rate <= PlanOf(k, a).safe
    /\ \A a \in Nodes : Prompt * Rate * 11 < SnapshotPlan(a).safe * 10
    /\ \A a \in Nodes, l \in Nodes : Length(l) + (Prompt + 1) * Rate <= SnapshotPlan(a).safe + 1

----------------------------------------------------------------------------
(* Deciding whether the copy is whole. *)

ControlCurrentUntimed(p, a, l, us) == Ahead(a, l, Count) < p.distance

ControlCurrent(p, a, l, us) ==
    /\ Ahead(a, l, Count) < p.distance
    /\ us < p.safe \div Rate

SnapshotCurrentStill(p, a, l, us) ==
    a = l /\ us * Rate * 11 < p.safe * 10

SnapshotCurrent(p, a, l, us) ==
    /\ Ahead(Base(a), Base(l), Ring) + Length(l) <= Ring - Level
    /\ us * Rate * 11 < p.safe * 10

Current(k, p, a, l, us) ==
    CASE k = "snapshot" -> SnapshotCurrent(p, a, l, us)
      [] k = "probe"    -> us <= ProbeLimit /\ ControlCurrent(p, a, l, us)
      [] OTHER          -> ControlCurrent(p, a, l, us)

----------------------------------------------------------------------------
Init ==
    /\ pos \in 0 .. Ring - 1
    /\ now = 0 /\ moved = 0 /\ at = "idle" /\ kind = "control"
    /\ active = 0 /\ plan = NoPlan /\ copied = 0 /\ torn = FALSE
    /\ took = 0 /\ later = 0 /\ verdict = "none"

RxOverrun ==
    /\ now < MaxClock
    /\ pos' = Onward(pos, 1, Ring + 1)
    /\ now' = IF at = "idle" THEN 0 ELSE now + 1
    /\ moved' = IF at \in {"idle", "look"} THEN 0 ELSE moved + 1
    /\ UNCHANGED reader

\* RX writes the next unit; nothing the reader does can hold it.
Rx ==
    /\ now < MaxClock
    /\ pos' = Onward(pos, 1, Ring)
    /\ now' = IF at = "idle" THEN 0 ELSE now + 1
    /\ moved' = IF at \in {"idle", "look"} THEN 0 ELSE moved + 1
    /\ UNCHANGED reader

\* The reader takes the time, somewhere in a microsecond.
Begin(k) ==
    /\ at = "idle"
    /\ \E phase \in 0 .. Rate - 1 : now' = phase
    /\ at' = "look" /\ kind' = k
    /\ UNCHANGED <<pos, moved, active, plan, copied, torn, took, later, verdict>>

\* It reads the active descriptor and chooses the source.
Look ==
    LET a == NodeAt(pos)  p == PlanOf(kind, a) IN
    /\ at = "look"
    /\ active' = a /\ plan' = p
    /\ IF p = NoPlan THEN at' = "done" /\ verdict' = "refused"
                     ELSE at' = "copy" /\ UNCHANGED verdict
    /\ UNCHANGED <<pos, now, moved, kind, copied, torn, took, later>>

\* The unit of the ring the copy reads next, and whether RX has written it
\* again since the source was chosen.
Source == Onward(plan.offset, copied, Ring)
Overwritten == Ahead(Onward(Source, 1, Ring), pos, Ring) < moved

\* memcpy, one unit; a snapshot that runs past the end of the ring goes on at
\* its beginning.
Copy ==
    /\ at = "copy" /\ copied < plan.units
    /\ copied' = copied + 1
    /\ torn' = (torn \/ Overwritten)
    /\ UNCHANGED <<pos, now, moved, at, kind, active, plan, took, later, verdict>>

\* The probe and the snapshot stop the clock before they look again, the
\* control and the sentinel copies after.
StampFirst(k) == k \in {"probe", "snapshot"}

Copied == at = "copy" /\ copied = plan.units

Stamp ==
    /\ \/ Copied /\ StampFirst(kind) /\ at' = "again"
       \/ at = "stamp" /\ at' = "judge"
    /\ took' = now \div Rate
    /\ UNCHANGED <<pos, now, moved, kind, active, plan, copied, torn, later, verdict>>

LookAgain ==
    /\ \/ Copied /\ ~StampFirst(kind) /\ at' = "stamp"
       \/ at = "again" /\ at' = "judge"
    /\ later' = NodeAt(pos)
    /\ UNCHANGED <<pos, now, moved, kind, active, plan, copied, torn, took, verdict>>

Judge ==
    /\ at = "judge"
    /\ at' = "done"
    /\ verdict' = IF Current(kind, plan, active, later, took) THEN "accepted" ELSE "refused"
    /\ UNCHANGED <<pos, now, moved, kind, active, plan, copied, torn, took, later>>

\* The caller has used or dropped the copy.
Finish ==
    /\ at = "done"
    /\ at' = "idle" /\ now' = 0 /\ moved' = 0 /\ verdict' = "none"
    /\ active' = 0 /\ plan' = NoPlan /\ copied' = 0 /\ torn' = FALSE
    /\ took' = 0 /\ later' = 0 /\ kind' = "control"
    /\ UNCHANGED pos

Next ==
    \/ Rx
    \/ \E k \in Kinds : Begin(k)
    \/ Look \/ Copy \/ Stamp \/ LookAgain \/ Judge \/ Finish

Spec == Init /\ [][Next]_vars

----------------------------------------------------------------------------
\* Every variable keeps its range: the clock stays under its bound and the
\* positions inside the ring.
TypeOK ==
    /\ pos \in 0 .. Ring - 1 /\ now \in 0 .. MaxClock + Rate /\ moved \in 0 .. MaxClock + Rate
    /\ at \in {"idle", "look", "copy", "stamp", "again", "judge", "done"}
    /\ kind \in Kinds /\ active \in Nodes /\ later \in Nodes
    /\ plan \in [offset : 0 .. Ring - 1, units : {0, Need, Level},
                 distance : 0 .. Count, safe : 0 .. Ring]
    /\ copied \in 0 .. plan.units /\ torn \in BOOLEAN
    /\ took \in 0 .. MaxClock + Rate /\ verdict \in {"none", "accepted", "refused"}

\* An accepted copy is whole: RX wrote none of its units between the choice
\* of the source and the copy of the unit, whatever preempted the reader,
\* also when RX lapped the ring and the active descriptor looks unchanged
\* (control_window.h:31, snapshot.h:38).
AcceptedIsWhole == verdict = "accepted" => ~torn

\* A copy as quick as Prompt is always accepted: the short tail, the turn of
\* the ring and the whole-descriptor view of RX never cost an observer its
\* window (the board's copies take up to 234 us, snapshot.h:36-37).
PromptIsAccepted == (at = "done" /\ now \div Rate <= Prompt) => verdict = "accepted"
=============================================================================
