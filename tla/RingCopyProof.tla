---------------------------- MODULE RingCopyProof ----------------------------
(***************************************************************************)
(* The observers' copies for a ring of any geometry, any rate of RX and any *)
(* lengths of the copies: RX comes to a copied unit only after the safe     *)
(* units of the plan, and the clock shows it whatever the active descriptor *)
(* looks like.                                                             *)
(***************************************************************************)
EXTENDS RingCopy, NaturalsInduction, WellFoundedInduction, TLAPS

-----------------------------------------------------------------------------
(* Whole microseconds. *)

LEMMA Microseconds ==
  ASSUME NEW n \in Nat, NEW r \in Nat \ {0}
  PROVE  /\ n \div r \in Nat /\ (n \div r) * r <= n /\ n < (n \div r) * r + r
         /\ n \div r <= n
<1>1. n \div r \in Nat /\ (n \div r) * r <= n /\ n < (n \div r) * r + r
  OBVIOUS
<1>2. ASSUME NEW q \in Nat PROVE q <= q * r
  OBVIOUS
<1>3. n \div r <= (n \div r) * r
  BY <1>1, <1>2
<1>4. QED
  BY <1>1, <1>3

LEMMA Product ==
  ASSUME NEW u \in Nat, NEW r \in Nat
  PROVE  u * r \in Nat
  OBVIOUS

LEMMA WithinWhole ==
  ASSUME NEW n \in Nat, NEW r \in Nat \ {0}, NEW u \in Nat
  PROVE  u < n \div r <=> u * r + r <= n
<1>1. n \div r \in Nat /\ (n \div r) * r <= n /\ n < (n \div r) * r + r
  BY Microseconds
<1> DEFINE q == n \div r
<1> HIDE DEF q
<1>2. q \in Nat /\ q * r <= n /\ n < q * r + r
  BY <1>1 DEF q
<1>3. u < q => u * r + r <= q * r
  BY <1>2
<1>4. q <= u => q * r <= u * r
  BY <1>2
<1>5. QED
  BY <1>2, <1>3, <1>4 DEF q

LEMMA FewerMicroseconds ==
  ASSUME NEW u \in Nat, NEW w \in Nat, NEW r \in Nat \ {0}, u * r < w * r + r
  PROVE  u <= w
<1>1. u > w => u * r >= (w + 1) * r
  OBVIOUS
<1>2. (w + 1) * r = w * r + r
  OBVIOUS
<1>3. u * r \in Nat /\ w * r \in Nat
  OBVIOUS
<1>4. QED
  BY <1>1, <1>2, <1>3

-----------------------------------------------------------------------------
(* The ring. *)

LEMMA Least ==
  ASSUME NEW T \in SUBSET Nat, T # {}
  PROVE  \E x \in T : \A y \in T : x <= y
<1>1. PICK x \in T : \A y \in T : ~(<<y, x>> \in OpToRel(<, Nat))
  BY NatLessThanWellFounded, WFMin
<1>2. \A y \in T : ~(y < x)
  BY <1>1 DEF OpToRel
<1>3. QED
  BY <1>2

LEMMA Lengthy ==
  /\ Count \in Nat /\ Count > 3 /\ Rate \in Nat \ {0}
  /\ \A n \in Nodes : n \in Nat /\ Length(n) \in Nat \ {0}
<1>1. Lengths \in Seq(Nat \ {0}) /\ Count > 3
  BY GeometryAssumption
<1>2. Len(Lengths) \in Nat /\ \A i \in 1 .. Len(Lengths) : Lengths[i] \in Nat \ {0}
  BY <1>1
<1>3. Count \in Nat
  BY <1>2 DEF Count
<1>4. ASSUME NEW n \in Nodes PROVE n \in Nat /\ Length(n) \in Nat \ {0}
  <2>1. n \in Nat /\ n + 1 \in 1 .. Len(Lengths)
    BY <1>3 DEF Nodes, Count
  <2>2. QED
    BY <1>2, <2>1 DEF Length
<1>5. QED
  BY <1>1, <1>3, <1>4, GeometryAssumption

LEMMA BasesNat == \A n \in 0 .. Count : Base(n) \in Nat
<1> DEFINE T == {n \in 0 .. Count : Base(n) \notin Nat}
<1> SUFFICES ASSUME T # {} PROVE FALSE
  OBVIOUS
<1>1. T \in SUBSET Nat
  OBVIOUS
<1>2. PICK n \in T : \A m \in T : n <= m
  BY <1>1, Least
<1>3. n # 0
  BY <1>2, ContiguousAssumption
<1>4. n - 1 \in Nodes /\ n - 1 \in 0 .. Count /\ (n - 1) + 1 = n
  BY <1>3, Lengthy DEF Nodes
<1>5. Base(n - 1) \in Nat
  BY <1>2, <1>4
<1>6. Base(n) = Base(n - 1) + Length(n - 1)
  BY <1>4, ContiguousAssumption
<1>7. QED
  BY <1>2, <1>4, <1>5, <1>6, Lengthy

\* A descriptor ends where the next one begins, so the bases grow.
LEMMA BasesGrow ==
  ASSUME NEW n \in Nodes, NEW m \in 0 .. Count, n < m
  PROVE  Base(n) + Length(n) <= Base(m)
<1> DEFINE T == {k \in 0 .. Count : n < k /\ ~(Base(n) + Length(n) <= Base(k))}
<1> SUFFICES ASSUME T # {} PROVE FALSE
  OBVIOUS
<1>1. T \in SUBSET Nat
  OBVIOUS
<1>2. PICK k \in T : \A j \in T : k <= j
  BY <1>1, Least
<1>3. k - 1 \in Nodes /\ k - 1 \in 0 .. Count /\ (k - 1) + 1 = k /\ n \in 0 .. Count
  BY <1>2, Lengthy DEF Nodes
<1>4. Base(k) = Base(k - 1) + Length(k - 1)
  BY <1>3, ContiguousAssumption
<1>5. Base(k - 1) \in Nat /\ Base(n) \in Nat /\ Length(n) \in Nat /\ Length(k - 1) \in Nat
  BY <1>3, BasesNat, Lengthy
<1>6. CASE k - 1 = n
  BY <1>2, <1>4, <1>5, <1>6
<1>7. CASE k - 1 # n
  <2>1. n < k - 1 /\ k - 1 \notin T
    BY <1>2, <1>3, <1>7, Lengthy
  <2>2. Base(n) + Length(n) <= Base(k - 1)
    BY <1>3, <2>1
  <2>3. QED
    BY <1>2, <1>4, <1>5, <2>2
<1>8. QED
  BY <1>6, <1>7

LEMMA RingOf ==
  /\ Ring \in Nat \ {0}
  /\ \A n \in Nodes : Base(n) \in Nat /\ Base(n) + Length(n) <= Ring /\ Base(n) < Ring
<1>1. Count \in 0 .. Count /\ Ring \in Nat
  BY Lengthy, BasesNat DEF Ring
<1>2. ASSUME NEW n \in Nodes PROVE Base(n) \in Nat /\ Base(n) + Length(n) <= Ring
  BY <1>1, BasesGrow, BasesNat, Lengthy DEF Nodes, Ring
<1>3. 0 \in Nodes
  BY Lengthy DEF Nodes
<1>4. QED
  BY <1>1, <1>2, <1>3, Lengthy

Inside(p, n) == Base(n) <= p /\ p < Base(n) + Length(n)

\* Every unit of the ring lies in the descriptor that is found active there.
LEMMA NodeFound ==
  ASSUME NEW p \in 0 .. Ring - 1
  PROVE  NodeAt(p) \in Nodes /\ Inside(p, NodeAt(p))
<1> DEFINE T == {m \in 0 .. Count : p < Base(m)}
<1>1. T \in SUBSET Nat /\ Count \in T
  BY Lengthy, RingOf DEF Ring
<1>2. PICK m \in T : \A k \in T : m <= k
  BY <1>1, Least
<1>3. m # 0
  BY <1>2, ContiguousAssumption
<1>4. m - 1 \in Nodes /\ m - 1 \in 0 .. Count /\ (m - 1) + 1 = m
  BY <1>2, <1>3, Lengthy DEF Nodes
<1>5. ~(p < Base(m - 1)) /\ p < Base(m)
  BY <1>2, <1>4
<1>6. Base(m) = Base(m - 1) + Length(m - 1) /\ Base(m - 1) \in Nat
  BY <1>4, ContiguousAssumption, BasesNat
<1>7. \E n \in Nodes : Base(n) <= p /\ p < Base(n) + Length(n)
  BY <1>4, <1>5, <1>6, RingOf
<1>8. QED
  BY <1>7 DEF NodeAt, Inside

\* Positions and descriptors are in the same order.
LEMMA SameOrder ==
  ASSUME NEW a \in Nodes, NEW l \in Nodes, NEW p \in Nat, Inside(p, l)
  PROVE  (Base(a) <= p => a <= l) /\ (p < Base(a) => l < a)
<1>1. /\ Base(a) \in Nat /\ Base(l) \in Nat /\ Length(l) \in Nat /\ Length(a) \in Nat
      /\ a \in Nat /\ l \in Nat /\ a \in 0 .. Count /\ l \in 0 .. Count
  BY RingOf, Lengthy DEF Nodes
<1>2. l < a => Base(l) + Length(l) <= Base(a)
  BY <1>1, BasesGrow
<1>3. a < l => Base(a) + Length(a) <= Base(l)
  BY <1>1, BasesGrow
<1>4. QED
  BY <1>1, <1>2, <1>3 DEF Inside

-----------------------------------------------------------------------------
(* The plans.  Units of the ring are counted from the base of the active    *)
(* descriptor: what is safe follows it, then come the units to copy.        *)

PlanOK(p, a) ==
  /\ p.offset \in 0 .. Ring - 1 /\ p.units \in {Need, Level}
  /\ p.distance \in 0 .. Count /\ p.safe \in 0 .. Ring
  /\ Base(a) + Length(a) + p.safe \in {p.offset, p.offset + Ring}
  /\ Length(a) + p.safe + p.units <= Ring

\* The source of a control copy is a descriptor of its own.
NodePlan(p, a) ==
  \E index \in Nodes :
    /\ index # a /\ p.offset = Base(index) /\ p.distance = Ahead(a, index, Count)

LEMMA MinIn ==
  ASSUME NEW T \in SUBSET Nat, T # {}
  PROVE  Min(T) \in T
<1>1. \E x \in T : \A y \in T : x =< y
  BY Least
<1>2. QED
  BY <1>1 DEF Min

LEMMA BehindNode ==
  ASSUME NEW a \in Nodes, NEW b \in 1 .. Count - 1
  PROVE  Behind(a, b, Count) \in Nodes /\ Behind(a, b, Count) # a
  BY Lengthy DEF Nodes, Behind

LEMMA ControlPlanned ==
  ASSUME NEW a \in Nodes, ControlPlan(a) # NoPlan
  PROVE  /\ PlanOK(ControlPlan(a), a) /\ NodePlan(ControlPlan(a), a)
         /\ ControlPlan(a) \in [offset : Nat, units : {Need}, distance : Nat, safe : Nat]
<1> DEFINE back == {b \in 1 .. Count - 1 : Length(Behind(a, b, Count)) >= Need}
           i == Behind(a, Min(back), Count)
           d == Ahead(a, i, Count)
           s == Ahead(Onward(Base(a), Length(a), Ring), Base(i), Ring)
<1>1. ControlPlan(a) = [offset |-> Base(i), units |-> Need, distance |-> d, safe |-> s] /\ back # {}
  BY DEF ControlPlan
<1>2. Min(back) \in back
  <2>1. back \in SUBSET Nat
    OBVIOUS
  <2>2. QED
    BY <1>1, <2>1, MinIn
<1>3. i \in Nodes /\ i # a /\ Length(i) >= Need
  BY <1>2, BehindNode
<1> HIDE DEF back, i
<1>4. /\ Base(a) \in Nat /\ Length(a) \in Nat /\ Base(a) + Length(a) <= Ring
      /\ Base(i) \in Nat /\ Length(i) \in Nat /\ Base(i) + Length(i) <= Ring
      /\ a \in 0 .. Count - 1 /\ i \in 0 .. Count - 1 /\ Ring \in Nat /\ Count \in Nat
      /\ Need \in Nat /\ Length(a) > 0 /\ Length(i) > 0
  BY <1>3, RingOf, Lengthy, GeometryAssumption DEF Nodes
<1>5. /\ i < a => Base(i) + Length(i) <= Base(a)
      /\ a < i => Base(a) + Length(a) <= Base(i)
  BY <1>3, <1>4, BasesGrow
<1>6. d \in 0 .. Count
  BY <1>3, <1>4 DEF Ahead
<1>7. s \in 0 .. Ring /\ Base(a) + Length(a) + s \in {Base(i), Base(i) + Ring}
  <2>1. CASE a < i
    BY <1>4, <1>5, <2>1 DEF Ahead, Onward
  <2>2. CASE i < a
    BY <1>4, <1>5, <2>2 DEF Ahead, Onward
  <2>3. QED
    BY <1>3, <1>4, <2>1, <2>2
<1>8. Length(a) + s + Need <= Ring
  <2>1. CASE a < i
    <3>1. Base(a) + Length(a) + s = Base(i)
      BY <1>4, <1>5, <2>1 DEF Ahead, Onward
    <3>2. QED
      BY <1>3, <1>4, <1>7, <3>1
  <2>2. CASE i < a
    <3>1. Base(a) + Length(a) + s = Base(i) + Ring
      BY <1>4, <1>5, <1>7, <2>2
    <3>2. QED
      BY <1>3, <1>4, <1>5, <1>7, <2>2, <3>1
  <2>3. QED
    BY <1>3, <1>4, <2>1, <2>2
<1> HIDE DEF d, s
<1>9. PlanOK(ControlPlan(a), a)
  BY <1>1, <1>3, <1>4, <1>6, <1>7, <1>8, RingOf DEF PlanOK
<1>10. NodePlan(ControlPlan(a), a)
  BY <1>1, <1>3 DEF NodePlan, d
<1>11. QED
  BY <1>1, <1>4, <1>6, <1>7, <1>9, <1>10

LEMMA SnapshotPlanned ==
  ASSUME NEW a \in Nodes, SnapshotPlan(a) # NoPlan
  PROVE  /\ PlanOK(SnapshotPlan(a), a)
         /\ SnapshotPlan(a).safe = Ring - Level - Length(a) /\ SnapshotPlan(a).units = Level
         /\ SnapshotPlan(a) \in [offset : Nat, units : {Level}, distance : Nat, safe : Nat]
<1>1. /\ Level < Ring - Length(a)
      /\ SnapshotPlan(a) = [offset |-> Behind(Base(a), Level, Ring), units |-> Level,
                            distance |-> 0, safe |-> Ring - Level - Length(a)]
  <2>1. ~(Level >= Ring - Length(a))
    BY DEF SnapshotPlan
  <2>2. QED
    BY <2>1, Lengthy, RingOf, GeometryAssumption DEF SnapshotPlan
<1>2. /\ Base(a) \in Nat /\ Length(a) \in Nat /\ Base(a) + Length(a) <= Ring /\ Base(a) < Ring
      /\ Ring \in Nat /\ Count \in Nat /\ Level \in Nat /\ Length(a) > 0 /\ Level > 0
  BY RingOf, Lengthy, GeometryAssumption
<1>3. Behind(Base(a), Level, Ring) \in 0 .. Ring - 1
  BY <1>1, <1>2 DEF Behind
<1>4. Base(a) + Length(a) + (Ring - Level - Length(a)) \in
        {Behind(Base(a), Level, Ring), Behind(Base(a), Level, Ring) + Ring}
  BY <1>1, <1>2 DEF Behind
<1>5. Ring - Level - Length(a) \in 0 .. Ring
  BY <1>1, <1>2
<1>6. Length(a) + (Ring - Level - Length(a)) + Level <= Ring
  BY <1>1, <1>2
<1>7. QED
  BY <1>1, <1>2, <1>3, <1>4, <1>5, <1>6 DEF PlanOK

LEMMA Planned ==
  ASSUME NEW a \in Nodes, NEW k \in Kinds, PlanOf(k, a) # NoPlan
  PROVE  /\ PlanOK(PlanOf(k, a), a) /\ (k # "snapshot" => NodePlan(PlanOf(k, a), a))
         /\ PlanOf(k, a) \in [offset : Nat, units : {Need, Level}, distance : Nat, safe : Nat]
  BY ControlPlanned, SnapshotPlanned DEF PlanOf

\* A plan never leaves RX on the source.
LEMMA SafeRing ==
  ASSUME NEW a \in Nodes, NEW k \in Kinds, PlanOf(k, a) # NoPlan
  PROVE  PlanOf(k, a).safe < Ring /\ PlanOf(k, a).units > 0
<1> DEFINE p == PlanOf(k, a)
<1>1. /\ p.units \in {Need, Level} /\ p.safe \in 0 .. Ring
      /\ Length(a) + p.safe + p.units <= Ring
  BY Planned DEF PlanOK
<1>2. p.units \in Nat \ {0}
  BY <1>1, GeometryAssumption
<1>3. Length(a) \in Nat \ {0} /\ Ring \in Nat
  BY Lengthy, RingOf
<1> HIDE DEF p
<1>4. p.safe < Ring /\ p.units > 0
  BY <1>1, <1>2, <1>3
<1>5. QED
  BY <1>4 DEF p

\* The arithmetic of one unit: RX, `mv` units on from unit x of a descriptor
\* of n units, has not written unit c of a source that begins `safe` units
\* after it.
LEMMA NotYet ==
  ASSUME NEW ring \in Nat, NEW b \in Nat, NEW n \in Nat, NEW safe \in Nat, NEW units \in Nat,
         NEW o \in 0 .. ring - 1, NEW c \in 0 .. units - 1, NEW x \in 0 .. n - 1, NEW mv \in 0 .. safe,
         NEW p \in 0 .. ring - 1,
         b + n + safe \in {o, o + ring}, n + safe + units <= ring, b + n <= ring,
         b + x + mv \in {p, p + ring}
  PROVE  ~(Ahead(Onward(Onward(o, c, ring), 1, ring), p, ring) < mv)
<1> DEFINE s == Onward(o, c, ring)
           s1 == Onward(s, 1, ring)
<1>1. b + n + safe + c \in {s, s + ring} /\ s \in 0 .. ring - 1
  BY DEF Onward
<1> HIDE DEF s
<1>2. b + n + safe + c + 1 \in {s1, s1 + ring, s1 + ring + ring} /\ s1 \in 0 .. ring - 1
  BY <1>1 DEF Onward
<1> HIDE DEF s1
<1>3. ~(Ahead(s1, p, ring) < mv)
  BY <1>1, <1>2 DEF Ahead
<1>4. QED
  BY <1>3 DEF s, s1

-----------------------------------------------------------------------------
(* Where RX is.  As long as it has not come round, its position tells how    *)
(* far it went from a unit of the active descriptor.                         *)

Working == {"copy", "stamp", "again", "judge"}

Reached(a, m, p) == \E x \in 0 .. Length(a) - 1 : Base(a) + x + m \in {p, p + Ring}

RunInv ==
  /\ TypeOK
  /\ moved <= now
  /\ at \in {"idle", "look"} => moved = 0 /\ ~torn /\ plan = NoPlan /\ copied = 0
  /\ at \in Working \cup {"idle", "look"} => verdict = "none"
  /\ at \in Working => /\ plan = PlanOf(kind, active) /\ plan # NoPlan
                       /\ moved < Ring => Reached(active, moved, pos)

LEMMA Sizes ==
  /\ Ring \in Nat \ {0} /\ Count \in Nat /\ Count > 3 /\ Rate \in Nat \ {0} /\ MaxClock \in Nat \ {0}
  /\ Need \in Nat \ {0} /\ Level \in Nat \ {0} /\ Prompt \in Nat /\ ProbeLimit \in Nat
  BY RingOf, Lengthy, GeometryAssumption

LEMMA FirstNode == 0 \in Nodes
  BY Lengthy DEF Nodes

LEMMA RunInit == Init => RunInv
<1> SUFFICES ASSUME Init PROVE RunInv
  OBVIOUS
<1>1. /\ NoPlan \in [offset : 0 .. Ring - 1, units : {0, Need, Level}, distance : 0 .. Count, safe : 0 .. Ring]
      /\ NoPlan.units = 0
  BY Sizes DEF NoPlan
<1>2. TypeOK
  <2>1. plan \in [offset : 0 .. Ring - 1, units : {0, Need, Level}, distance : 0 .. Count, safe : 0 .. Ring]
    BY <1>1 DEF Init
  <2>2. copied \in 0 .. plan.units
    BY <1>1 DEF Init
  <2>3. pos \in 0 .. Ring - 1 /\ active \in Nodes /\ later \in Nodes /\ kind \in Kinds
    BY FirstNode DEF Init, Kinds
  <2>4. now \in 0 .. MaxClock + Rate /\ moved \in 0 .. MaxClock + Rate /\ took \in 0 .. MaxClock + Rate
    BY Sizes DEF Init
  <2>5. QED
    BY <2>1, <2>2, <2>3, <2>4 DEF Init, TypeOK
<1>3. QED
  BY <1>2 DEF Init, RunInv, Working

LEMMA RunRx ==
  ASSUME RunInv, Rx
  PROVE  RunInv'
<1> USE Sizes
<1>1. pos' \in 0 .. Ring - 1 /\ pos' \in {pos + 1, pos + 1 - Ring} /\ (pos' = pos + 1 \/ pos + 1 = Ring)
  BY DEF RunInv, TypeOK, Rx, Onward
<1>2. now' \in 0 .. MaxClock + Rate /\ moved' \in 0 .. MaxClock + Rate /\ moved' <= now'
  BY DEF RunInv, TypeOK, Rx
<1>3. TypeOK'
  BY <1>1, <1>2 DEF RunInv, TypeOK, Rx, reader
<1>4. ASSUME at' \in Working, moved' < Ring PROVE Reached(active', moved', pos')
  <2>1. moved' = moved + 1 /\ active' = active /\ at' = at
    BY <1>4 DEF Rx, reader, Working
  <2>2. Reached(active, moved, pos) /\ active \in Nodes /\ moved \in Nat /\ pos \in 0 .. Ring - 1
    BY <1>4, <2>1 DEF RunInv, TypeOK
  <2>3. PICK x \in 0 .. Length(active) - 1 : Base(active) + x + moved \in {pos, pos + Ring}
    BY <2>2 DEF Reached
  <2>4. Base(active) \in Nat /\ Length(active) \in Nat /\ Base(active) + Length(active) <= Ring
    BY <2>2, RingOf, Lengthy
  <2>5. Base(active) + x + (moved + 1) \in {pos', pos' + Ring}
    BY <1>1, <1>4, <2>1, <2>2, <2>3, <2>4
  <2>6. QED
    BY <2>1, <2>3, <2>5 DEF Reached
<1>5. QED
  BY <1>2, <1>3, <1>4 DEF RunInv, Rx, reader, Working

LEMMA RunLook ==
  ASSUME RunInv, Look
  PROVE  RunInv'
<1> USE Sizes
<1>1. /\ active' = NodeAt(pos) /\ plan' = PlanOf(kind, NodeAt(pos)) /\ at = "look"
      /\ UNCHANGED <<pos, now, moved, kind, copied, torn, took, later>>
      /\ \/ plan' = NoPlan /\ at' = "done" /\ verdict' = "refused"
         \/ plan' # NoPlan /\ at' = "copy" /\ verdict' = verdict
  BY DEF Look
<1>2. NodeAt(pos) \in Nodes /\ Inside(pos, NodeAt(pos)) /\ kind \in Kinds
  BY NodeFound DEF RunInv, TypeOK
<1>3. plan' \in [offset : 0 .. Ring - 1, units : {0, Need, Level}, distance : 0 .. Count, safe : 0 .. Ring]
  <2>1. CASE plan' = NoPlan
    BY <2>1 DEF NoPlan
  <2>2. CASE plan' # NoPlan
    <3> DEFINE q == PlanOf(kind, NodeAt(pos))
    <3>1. PlanOK(q, NodeAt(pos)) /\ q \in [offset : Nat, units : {Need, Level}, distance : Nat, safe : Nat]
      BY <1>1, <1>2, <2>2, Planned
    <3> HIDE DEF q
    <3>2. q \in [offset : 0 .. Ring - 1, units : {0, Need, Level}, distance : 0 .. Count, safe : 0 .. Ring]
      BY <3>1 DEF PlanOK
    <3>3. QED
      BY <1>1, <3>2 DEF q
  <2>3. QED
    BY <2>1, <2>2
<1>4. copied' = 0 /\ plan'.units \in Nat
  BY <1>1, <1>3 DEF RunInv
<1>5. TypeOK'
  <2>1. at' \in {"idle", "look", "copy", "stamp", "again", "judge", "done"}
    BY <1>1
  <2>2. verdict' \in {"none", "accepted", "refused"}
    BY <1>1 DEF RunInv, TypeOK
  <2>3. QED
    BY <1>1, <1>2, <1>3, <1>4, <2>1, <2>2 DEF RunInv, TypeOK
<1>6. Reached(active', moved', pos')
  <2>1. moved' = 0 /\ pos' = pos /\ pos \in Nat
    BY <1>1 DEF RunInv, TypeOK
  <2>2. Base(NodeAt(pos)) \in Nat /\ Length(NodeAt(pos)) \in Nat
    BY <1>2, RingOf, Lengthy
  <2>3. pos - Base(NodeAt(pos)) \in 0 .. Length(NodeAt(pos)) - 1
    BY <1>2, <2>1, <2>2 DEF Inside
  <2>4. QED
    BY <1>1, <2>1, <2>2, <2>3 DEF Reached
<1>7. QED
  BY <1>1, <1>5, <1>6 DEF RunInv, Working

\* The steps that neither move RX nor change the plan.
LEMMA RunRest ==
  ASSUME RunInv, Copy \/ Stamp \/ LookAgain \/ Judge \/ Finish \/ \E k \in Kinds : Begin(k)
  PROVE  RunInv'
<1> USE Sizes
<1>1. CASE Copy
  <2>1. TypeOK'
    BY <1>1 DEF RunInv, TypeOK, Copy, Overwritten
  <2>2. QED
    BY <1>1, <2>1 DEF RunInv, Copy, Working
<1>2. CASE Stamp
  <2>1. now \div Rate \in 0 .. MaxClock + Rate
    BY Microseconds DEF RunInv, TypeOK
  <2>2. TypeOK'
    BY <1>2, <2>1 DEF RunInv, TypeOK, Stamp
  <2>3. at \in Working /\ at' \in Working
    BY <1>2 DEF Stamp, Copied, Working
  <2>4. QED
    BY <1>2, <2>2, <2>3 DEF RunInv, Stamp, Working
<1>3. CASE LookAgain
  <2>1. NodeAt(pos) \in Nodes
    BY NodeFound DEF RunInv, TypeOK
  <2>2. TypeOK'
    BY <1>3, <2>1 DEF RunInv, TypeOK, LookAgain
  <2>3. at \in Working /\ at' \in Working
    BY <1>3 DEF LookAgain, Copied, Working
  <2>4. QED
    BY <1>3, <2>2, <2>3 DEF RunInv, LookAgain, Working
<1>4. CASE Judge
  <2>1. TypeOK'
    BY <1>4 DEF RunInv, TypeOK, Judge
  <2>2. QED
    BY <1>4, <2>1 DEF RunInv, Judge, Working
<1>5. CASE Finish
  <2>1. /\ NoPlan \in [offset : 0 .. Ring - 1, units : {0, Need, Level}, distance : 0 .. Count, safe : 0 .. Ring]
        /\ NoPlan.units = 0
    BY DEF NoPlan
  <2>2. plan' \in [offset : 0 .. Ring - 1, units : {0, Need, Level}, distance : 0 .. Count, safe : 0 .. Ring]
    BY <1>5, <2>1 DEF Finish
  <2>3. copied' \in 0 .. plan'.units
    BY <1>5, <2>1 DEF Finish
  <2>4. pos' \in 0 .. Ring - 1 /\ active' \in Nodes /\ later' \in Nodes /\ kind' \in Kinds
    BY <1>5, FirstNode DEF Finish, Kinds, RunInv, TypeOK
  <2>5. TypeOK'
    <3>1. now' \in 0 .. MaxClock + Rate /\ moved' \in 0 .. MaxClock + Rate /\ took' \in 0 .. MaxClock + Rate
      BY <1>5 DEF Finish
    <3>2. QED
      BY <1>5, <2>2, <2>3, <2>4, <3>1 DEF Finish, TypeOK
  <2>6. QED
    BY <1>5, <2>5 DEF RunInv, Finish, Working
<1>6. ASSUME NEW k \in Kinds, Begin(k) PROVE RunInv'
  <2>1. TypeOK'
    BY <1>6 DEF RunInv, TypeOK, Begin
  <2>2. QED
    BY <1>6, <2>1 DEF RunInv, TypeOK, Begin, Working
<1>7. QED
  BY <1>1, <1>2, <1>3, <1>4, <1>5, <1>6

LEMMA RunStep == RunInv /\ [Next]_vars => RunInv'
<1>1. RunInv /\ UNCHANGED vars => RunInv'
  <2> SUFFICES ASSUME RunInv, UNCHANGED vars PROVE RunInv'
    OBVIOUS
  <2>1. TypeOK'
    BY DEF RunInv, TypeOK, vars
  <2>2. QED
    BY <2>1 DEF RunInv, vars, Working
<1>2. QED
  BY <1>1, RunRx, RunLook, RunRest DEF Next

\* Every variable keeps its range on every ring.
THEOREM TypeCorrect == Spec => []TypeOK
  BY RunInit, RunStep, PTL DEF Spec, RunInv

-----------------------------------------------------------------------------
(* An accepted copy is whole.  A torn unit means that RX wrote more than the *)
(* safe units, however often it came round; the clock, stopped afterwards,   *)
(* has counted them but for its last microsecond.                            *)

WholeInv ==
  /\ torn /\ at \in Working => moved > plan.safe
  /\ torn /\ at \in {"again", "judge"} => plan.safe < took * Rate + Rate
  /\ AcceptedIsWhole

LEMMA PlanNow ==
  ASSUME RunInv, at \in Working
  PROVE  /\ active \in Nodes /\ kind \in Kinds /\ PlanOf(kind, active) # NoPlan
         /\ plan = PlanOf(kind, active) /\ PlanOK(plan, active)
         /\ plan.safe \in Nat /\ plan.safe < Ring /\ plan.units \in Nat /\ plan.offset \in 0 .. Ring - 1
  BY Planned, SafeRing, Sizes DEF RunInv, TypeOK, PlanOK

\* A unit that was overwritten when it was copied.
LEMMA TornLate ==
  ASSUME RunInv, Copy, Overwritten
  PROVE  moved > plan.safe
<1> USE Sizes
<1>1. at \in Working /\ copied < plan.units
  BY DEF Copy, Working
<1>2. /\ active \in Nodes /\ PlanOK(plan, active)
      /\ plan.safe \in Nat /\ plan.safe < Ring /\ plan.units \in Nat /\ plan.offset \in 0 .. Ring - 1
  BY <1>1, PlanNow
<1>3. moved \in Nat /\ pos \in 0 .. Ring - 1 /\ copied \in Nat
  BY DEF RunInv, TypeOK
<1> SUFFICES ASSUME moved <= plan.safe PROVE FALSE
  BY <1>2, <1>3
<1>4. moved < Ring
  BY <1>2, <1>3
<1>5. PICK x \in 0 .. Length(active) - 1 : Base(active) + x + moved \in {pos, pos + Ring}
  BY <1>1, <1>4 DEF RunInv, Reached
<1>6. /\ Base(active) \in Nat /\ Length(active) \in Nat /\ Base(active) + Length(active) <= Ring
      /\ Base(active) + Length(active) + plan.safe \in {plan.offset, plan.offset + Ring}
      /\ Length(active) + plan.safe + plan.units <= Ring
  BY <1>2, RingOf, Lengthy DEF PlanOK
<1>7. copied \in 0 .. plan.units - 1 /\ moved \in 0 .. plan.safe
  BY <1>1, <1>2, <1>3
<1>8. ~(Ahead(Onward(Onward(plan.offset, copied, Ring), 1, Ring), pos, Ring) < moved)
  BY <1>2, <1>3, <1>5, <1>6, <1>7, NotYet
<1>9. QED
  BY <1>8 DEF Overwritten, Source

\* What each rule says about the clock: its last microsecond counted whole,
\* RX still wrote no more than the safe units.
LEMMA ControlInTime ==
  ASSUME NEW p \in [offset : Nat, units : Nat, distance : Nat, safe : Nat], NEW a, NEW l, NEW us \in Nat,
         ControlCurrent(p, a, l, us)
  PROVE  us * Rate + Rate <= p.safe
<1>1. p.safe \in Nat /\ us < p.safe \div Rate /\ Rate \in Nat \ {0}
  BY Sizes DEF ControlCurrent
<1>2. QED
  BY <1>1, WithinWhole

LEMMA SnapshotInTime ==
  ASSUME NEW a \in Nodes, SnapshotPlan(a) # NoPlan, NEW l, NEW us \in Nat,
         SnapshotCurrent(SnapshotPlan(a), a, l, us)
  PROVE  us * Rate + Rate <= SnapshotPlan(a).safe
<1> DEFINE s == SnapshotPlan(a).safe
<1>1. s \in Nat /\ s <= Ring
  BY SnapshotPlanned, Sizes DEF PlanOK
<1>2. us * Rate * 11 < s * 10
  BY DEF SnapshotCurrent
<1> HIDE DEF s
<1>3. us <= us * Rate /\ us * Rate \in Nat /\ (us + 1) * Rate = us * Rate + Rate
  BY Sizes
<1>4. us \in 0 .. Ring
  BY <1>1, <1>2, <1>3, Sizes
<1>5. (us + 1) * Rate <= s
  BY <1>2, <1>4, ReserveAssumption DEF s
<1>6. QED
  BY <1>3, <1>5 DEF s

LEMMA AcceptedInTime ==
  ASSUME RunInv, at = "judge", Current(kind, plan, active, later, took)
  PROVE  took * Rate + Rate <= plan.safe
<1>1. /\ active \in Nodes /\ kind \in Kinds /\ plan = PlanOf(kind, active) /\ plan # NoPlan
      /\ took \in Nat
      /\ plan \in [offset : Nat, units : Nat, distance : Nat, safe : Nat]
  <2>1. at \in Working /\ took \in Nat
    BY Sizes DEF Working, RunInv, TypeOK
  <2>2. /\ active \in Nodes /\ kind \in Kinds /\ plan = PlanOf(kind, active) /\ PlanOf(kind, active) # NoPlan
    BY <2>1, PlanNow
  <2>3. plan \in [offset : Nat, units : {Need, Level}, distance : Nat, safe : Nat]
    BY <2>2, Planned
  <2>4. {Need, Level} \subseteq Nat
    BY Sizes
  <2>5. QED
    BY <2>1, <2>2, <2>3, <2>4
<1>2. CASE kind = "snapshot"
  <2>1. plan = SnapshotPlan(active) /\ SnapshotCurrent(plan, active, later, took)
    BY <1>1, <1>2 DEF PlanOf, Current
  <2>2. QED
    BY <1>1, <2>1, SnapshotInTime
<1>3. CASE kind # "snapshot"
  <2>1. ControlCurrent(plan, active, later, took)
    <3>1. CASE kind = "probe"
      BY <3>1 DEF Current
    <3>2. CASE kind # "probe"
      BY <1>3, <3>2 DEF Current
    <3>3. QED
      BY <3>1, <3>2
  <2>2. QED
    BY <1>1, <2>1, ControlInTime
<1>4. QED
  BY <1>2, <1>3

LEMMA WholeStep ==
  ASSUME RunInv, WholeInv, [Next]_vars
  PROVE  WholeInv'
<1> USE Sizes
<1>1. at \in Working => plan.safe \in Nat
  BY PlanNow
<1>2. moved \in Nat /\ now \in Nat /\ took \in Nat /\ torn \in BOOLEAN /\ moved <= now
  BY DEF RunInv, TypeOK
<1>3. CASE Rx
  BY <1>1, <1>2, <1>3 DEF Rx, reader, WholeInv, Working, AcceptedIsWhole
<1>4. CASE Look
  BY <1>4 DEF Look, RunInv, WholeInv, Working, AcceptedIsWhole
<1>5. CASE Copy
  <2>1. at' = "copy" /\ at = "copy" /\ verdict' = verdict /\ verdict = "none"
    BY <1>5 DEF Copy, RunInv, Working
  <2>2. torn' => torn \/ Overwritten
    BY <1>5 DEF Copy
  <2>3. torn' => moved > plan.safe
    BY <1>5, <2>1, <2>2, TornLate DEF WholeInv, Working
  <2>4. QED
    BY <1>5, <2>1, <2>3 DEF Copy, WholeInv, AcceptedIsWhole
<1>6. CASE Stamp
  <2>1. took' * Rate + Rate > now
    BY <1>2, <1>6, Microseconds DEF Stamp
  <2>2. at \in Working /\ at' \in {"again", "judge"} /\ verdict' = "none"
    BY <1>6 DEF Stamp, Copied, Working, RunInv
  <2>3. torn => moved > plan.safe
    BY <2>2 DEF WholeInv
  <2>4. took' \in Nat
    BY <1>2, <1>6, Microseconds DEF Stamp
  <2>5. torn' => moved' > plan'.safe /\ plan'.safe < took' * Rate + Rate
    <3>1. torn' = torn /\ moved' = moved /\ plan' = plan
      BY <1>6 DEF Stamp
    <3>2. took' * Rate \in Nat
      BY <2>4, Product, Sizes
    <3>3. QED
      BY <1>1, <1>2, <2>1, <2>2, <2>3, <3>1, <3>2
  <2>6. QED
    BY <2>2, <2>5 DEF WholeInv, AcceptedIsWhole
<1>7. CASE LookAgain
  <2>1. /\ (at = "copy" /\ at' = "stamp") \/ (at = "again" /\ at' = "judge")
        /\ UNCHANGED <<moved, plan, torn, took, verdict>> /\ verdict = "none"
    BY <1>7 DEF LookAgain, Copied, RunInv, Working
  <2>2. QED
    BY <2>1 DEF WholeInv, Working, AcceptedIsWhole
<1>8. CASE Judge
  <2>1. at = "judge" /\ at' = "done" /\ torn' = torn
    BY <1>8 DEF Judge
  <2>2. verdict' = "accepted" => Current(kind, plan, active, later, took)
    BY <1>8 DEF Judge
  <2>3. verdict' = "accepted" => took * Rate + Rate <= plan.safe
    BY <2>1, <2>2, AcceptedInTime
  <2>4. torn => plan.safe < took * Rate + Rate
    BY <2>1 DEF WholeInv
  <2>5. took * Rate \in Nat /\ plan.safe \in Nat
    BY <1>1, <1>2, <2>1 DEF Working
  <2>6. QED
    BY <2>1, <2>3, <2>4, <2>5 DEF WholeInv, Working, AcceptedIsWhole
<1>9. CASE Finish
  BY <1>9 DEF Finish, WholeInv, Working, AcceptedIsWhole
<1>10. ASSUME NEW k \in Kinds, Begin(k) PROVE WholeInv'
  BY <1>10 DEF Begin, RunInv, WholeInv, Working, AcceptedIsWhole
<1>11. CASE UNCHANGED vars
  BY <1>11 DEF vars, WholeInv, Working, AcceptedIsWhole
<1>12. QED
  BY <1>3, <1>4, <1>5, <1>6, <1>7, <1>8, <1>9, <1>10, <1>11 DEF Next

\* No observation is drawn from bytes RX wrote over: on every ring, for every
\* rate and every preemption an accepted copy is whole, also when RX lapped
\* the ring and the active descriptor looks unchanged.
THEOREM AcceptedWhole == Spec => []AcceptedIsWhole
<1>1. Init => WholeInv
  BY DEF Init, WholeInv, Working, AcceptedIsWhole
<1>2. RunInv /\ WholeInv /\ [Next]_vars => WholeInv'
  BY WholeStep
<1>3. WholeInv => AcceptedIsWhole
  BY DEF WholeInv
<1>4. QED
  BY <1>1, <1>2, <1>3, RunInit, RunStep, PTL DEF Spec

-----------------------------------------------------------------------------
(* A prompt copy is accepted.  Until RX has written the safe units, the      *)
(* descriptor found active lies between the first one and the source.        *)

Seen(a, l, m) == \E p \in 0 .. Ring - 1 : l = NodeAt(p) /\ (m < Ring => Reached(a, m, p))

PromptInv ==
  /\ at \in {"again", "judge"} => took * Rate <= now
  /\ at \in {"stamp", "judge"} => \E m \in 0 .. moved : Seen(active, later, m)
  /\ at = "done" /\ now < Prompt * Rate + Rate => verdict = "accepted"

\* From the base of the active descriptor, RX has come r units on and stands
\* in descriptor l, which is not past it.
LEMMA StandsIn ==
  ASSUME NEW a \in Nodes, NEW l \in Nodes, NEW p \in 0 .. Ring - 1, Inside(p, l),
         NEW r \in 0 .. Ring - 1, Base(a) + r \in {p, p + Ring}
  PROVE  /\ \/ Base(a) <= p /\ a <= l /\ p = Base(a) + r
            \/ p < Base(a) /\ l < a /\ p + Ring = Base(a) + r
         /\ Ahead(Base(a), Base(l), Ring) \in 0 .. r
<1>1. /\ Base(a) \in Nat /\ Base(a) < Ring /\ Base(l) \in Nat /\ Length(l) \in Nat /\ Ring \in Nat
      /\ a \in Nat /\ l \in Nat
  BY RingOf, Lengthy
<1>2. (Base(a) <= p => a <= l) /\ (p < Base(a) => l < a)
  BY SameOrder
<1>3. a < l => Base(a) <= Base(l)
  <2>1. l \in 0 .. Count /\ Length(a) \in Nat
    BY Lengthy DEF Nodes
  <2>2. QED
    BY <1>1, <2>1, BasesGrow
<1>4. Base(a) <= p => Base(a) <= Base(l)
  BY <1>1, <1>2, <1>3
<1>5. QED
  BY <1>1, <1>2, <1>4 DEF Inside, Ahead

\* RX is before the source of a control copy: so is the descriptor.
LEMMA BeforeSource ==
  ASSUME NEW a \in Nodes, NEW i \in Nodes, NEW l \in Nodes, i # a,
         NEW p \in 0 .. Ring - 1, Inside(p, l), NEW d \in 0 .. Ring - 1, Base(a) + d \in {Base(i), Base(i) + Ring},
         NEW r \in 0 .. Ring - 1, r < d, Base(a) + r \in {p, p + Ring}
  PROVE  Ahead(a, l, Count) < Ahead(a, i, Count)
<1>1. /\ Base(a) \in Nat /\ Base(a) < Ring /\ Base(i) \in Nat /\ Base(i) < Ring /\ Ring \in Nat
      /\ a \in 0 .. Count - 1 /\ l \in 0 .. Count - 1 /\ i \in 0 .. Count - 1 /\ Count \in Nat
  BY RingOf, Lengthy DEF Nodes
<1>2. \/ Base(a) <= p /\ a <= l /\ p = Base(a) + r
      \/ p < Base(a) /\ l < a /\ p + Ring = Base(a) + r
  BY StandsIn
<1>3. /\ Base(i) <= p => i <= l
      /\ p < Base(i) => l < i
  BY SameOrder
<1>4. /\ i < a => Base(i) < Base(a)
      /\ a < i => Base(a) < Base(i)
  <2>1. a \in 0 .. Count /\ i \in 0 .. Count /\ Length(a) \in Nat \ {0} /\ Length(i) \in Nat \ {0}
    BY <1>1, Lengthy
  <2>2. QED
    BY <1>1, <2>1, BasesGrow
<1>5. CASE a < i
  <2>1. p = Base(a) + r /\ a <= l => l < i
    BY <1>1, <1>3, <1>4, <1>5
  <2>2. p + Ring = Base(a) + r => FALSE
    BY <1>1, <1>4, <1>5
  <2>3. QED
    BY <1>1, <1>2, <1>5, <2>1, <2>2 DEF Ahead
<1>6. CASE i < a
  <2>1. p + Ring = Base(a) + r => l < i
    BY <1>1, <1>3, <1>4, <1>6
  <2>2. QED
    BY <1>1, <1>2, <1>6, <2>1 DEF Ahead
<1>7. QED
  BY <1>1, <1>5, <1>6

\* The rules accept a copy that ends while the clock shows Prompt at most.
LEMMA PromptCurrent ==
  ASSUME RunInv, PromptInv, at = "judge", now < Prompt * Rate + Rate
  PROVE  Current(kind, plan, active, later, took)
<1> USE Sizes
<1>1. /\ active \in Nodes /\ kind \in Kinds /\ PlanOf(kind, active) # NoPlan
      /\ plan = PlanOf(kind, active) /\ PlanOK(plan, active)
      /\ plan.safe \in Nat /\ plan.safe < Ring
  BY PlanNow DEF Working
<1>2. now \in Nat /\ moved \in Nat /\ moved <= now /\ took \in Nat
  BY DEF RunInv, TypeOK
<1>3. took <= Prompt
  <2>1. took * Rate <= now
    BY DEF PromptInv
  <2>2. took * Rate < Prompt * Rate + Rate
    BY <1>2, <2>1, Product
  <2>3. QED
    BY <1>2, <2>2, FewerMicroseconds
<1>4. took * Rate <= Prompt * Rate /\ took * Rate \in Nat /\ Prompt * Rate \in Nat
      /\ (Prompt + 1) * Rate = Prompt * Rate + Rate
  BY <1>2, <1>3
<1>5. Prompt * Rate + Rate <= plan.safe
  BY <1>1, <1>4, PromptAssumption
<1>6. PICK m \in 0 .. moved : Seen(active, later, m)
  BY DEF PromptInv
<1>7. m \in Nat /\ m < Prompt * Rate + Rate /\ m < plan.safe /\ m < Ring
  BY <1>1, <1>2, <1>4, <1>5, <1>6
<1>8. PICK p \in 0 .. Ring - 1 : later = NodeAt(p) /\ Reached(active, m, p)
  BY <1>6, <1>7 DEF Seen
<1>9. PICK x \in 0 .. Length(active) - 1 : Base(active) + x + m \in {p, p + Ring}
  BY <1>8 DEF Reached
<1>10. later \in Nodes /\ Inside(p, later)
  BY <1>8, NodeFound
<1>11. /\ Base(active) \in Nat /\ Length(active) \in Nat \ {0} /\ Base(active) + Length(active) <= Ring
       /\ Length(later) \in Nat
       /\ Base(active) + Length(active) + plan.safe \in {plan.offset, plan.offset + Ring}
       /\ Length(active) + plan.safe + plan.units <= Ring /\ plan.units > 0 /\ plan.units \in Nat
  BY <1>1, <1>10, RingOf, Lengthy, SafeRing DEF PlanOK
<1> DEFINE r == x + m
<1>12. r \in 0 .. Ring - 1 /\ r < Length(active) + plan.safe /\ Base(active) + r \in {p, p + Ring}
       /\ r + 1 < Length(active) + Prompt * Rate + Rate
  BY <1>1, <1>4, <1>7, <1>9, <1>11
<1> HIDE DEF r
<1>13. CASE kind = "snapshot"
  <2>1. plan = SnapshotPlan(active) /\ plan.safe = Ring - Level - Length(active)
    BY <1>1, <1>13, SnapshotPlanned DEF PlanOf
  <2>2. Ahead(Base(active), Base(later), Ring) \in 0 .. r
    BY <1>1, <1>10, <1>12, StandsIn
  <2>3. Length(later) + Prompt * Rate + Rate <= plan.safe + 1
    <3>1. Length(later) + (Prompt + 1) * Rate <= SnapshotPlan(active).safe + 1
      BY <1>1, <1>10, PromptAssumption
    <3>2. QED
      BY <1>1, <1>4, <1>11, <2>1, <3>1
  <2>4. Ahead(Base(active), Base(later), Ring) + Length(later) <= Ring - Level
    BY <1>1, <1>4, <1>11, <1>12, <2>1, <2>2, <2>3
  <2>5. Prompt * Rate * 11 < plan.safe * 10
    BY <1>1, <2>1, PromptAssumption
  <2>6. took * Rate * 11 < plan.safe * 10
    BY <1>1, <1>4, <2>5
  <2>7. QED
    BY <1>13, <2>4, <2>6 DEF Current, SnapshotCurrent
<1>14. CASE kind # "snapshot"
  <2>1. PICK i \in Nodes : i # active /\ plan.offset = Base(i) /\ plan.distance = Ahead(active, i, Count)
    BY <1>1, <1>14, Planned DEF NodePlan
  <2>2. Ahead(active, later, Count) < plan.distance
    <3>1. Length(active) + plan.safe \in 0 .. Ring - 1
      BY <1>1, <1>11
    <3>2. Base(active) + (Length(active) + plan.safe) \in {Base(i), Base(i) + Ring}
      BY <1>1, <1>11, <2>1
    <3>3. QED
      BY <1>1, <1>10, <1>12, <2>1, <3>1, <3>2, BeforeSource
  <2>3. took < plan.safe \div Rate
    <3>1. took * Rate + Rate <= plan.safe
      BY <1>1, <1>4, <1>5
    <3>2. QED
      BY <1>1, <1>2, <3>1, WithinWhole
  <2>4. ControlCurrent(plan, active, later, took)
    BY <2>2, <2>3 DEF ControlCurrent
  <2>5. took <= ProbeLimit
    BY <1>2, <1>3, PromptAssumption
  <2>6. CASE kind = "probe"
    BY <2>4, <2>5, <2>6 DEF Current
  <2>7. CASE kind # "probe"
    BY <1>14, <2>4, <2>7 DEF Current
  <2>8. QED
    BY <2>6, <2>7
<1>15. QED
  BY <1>13, <1>14

LEMMA PromptStep ==
  ASSUME RunInv, PromptInv, [Next]_vars
  PROVE  PromptInv'
<1> USE Sizes
<1>1. moved \in Nat /\ now \in Nat /\ took \in Nat /\ moved <= now /\ pos \in 0 .. Ring - 1
  BY DEF RunInv, TypeOK
<1>2. took * Rate \in Nat /\ Prompt * Rate \in Nat
  BY <1>1, Product
<1>3. CASE Rx
  <2>1. UNCHANGED reader
    BY <1>3 DEF Rx
  <2>2. at # "idle" => now' = now + 1
    BY <1>3 DEF Rx
  <2>3. at \notin {"idle", "look"} => moved' = moved + 1
    BY <1>3 DEF Rx
  <2>4. at \in {"again", "judge"} => took * Rate <= now'
    BY <1>1, <1>2, <2>2 DEF PromptInv
  <2>5. ASSUME at \in {"stamp", "judge"} PROVE \E m \in 0 .. moved' : Seen(active, later, m)
    <3>1. PICK m \in 0 .. moved : Seen(active, later, m)
      BY <2>5 DEF PromptInv
    <3>2. m \in 0 .. moved'
      BY <1>1, <2>3, <2>5
    <3>3. QED
      BY <3>1, <3>2
  <2>6. at = "done" /\ now' < Prompt * Rate + Rate => verdict = "accepted"
    BY <1>1, <1>2, <2>2 DEF PromptInv
  <2>7. QED
    BY <2>1, <2>4, <2>5, <2>6 DEF PromptInv, reader
<1>4. CASE Look
  <2>1. NodeAt(pos) \in Nodes /\ kind \in Kinds
    BY <1>1, NodeFound DEF RunInv, TypeOK
  <2>2. PlanOf(kind, NodeAt(pos)) # NoPlan
    BY <2>1, PromptAssumption
  <2>3. at' = "copy"
    BY <1>4, <2>2 DEF Look
  <2>4. QED
    BY <2>3 DEF PromptInv
<1>5. CASE Copy
  BY <1>5 DEF Copy, PromptInv
<1>6. CASE Stamp
  <2>1. took' * Rate <= now
    BY <1>1, <1>6, Microseconds DEF Stamp
  <2>2. /\ UNCHANGED <<now, moved, active, later, verdict>>
        /\ at' = "again" \/ (at = "stamp" /\ at' = "judge")
    BY <1>6 DEF Stamp
  <2>3. at' \in {"stamp", "judge"} => \E m \in 0 .. moved : Seen(active, later, m)
    BY <2>2 DEF PromptInv
  <2>4. QED
    BY <2>1, <2>2, <2>3 DEF PromptInv
<1>7. CASE LookAgain
  <2>1. /\ UNCHANGED <<now, moved, active, took, verdict>> /\ later' = NodeAt(pos)
        /\ (at = "copy" /\ at' = "stamp") \/ (at = "again" /\ at' = "judge")
    BY <1>7 DEF LookAgain, Copied
  <2>2. moved < Ring => Reached(active, moved, pos)
    BY <2>1 DEF RunInv, Working
  <2>3. Seen(active, later', moved)
    BY <1>1, <2>1, <2>2 DEF Seen
  <2>4. moved \in 0 .. moved
    BY <1>1
  <2>5. \E m \in 0 .. moved : Seen(active, later', m)
    BY <2>3, <2>4
  <2>6. QED
    BY <2>1, <2>5 DEF PromptInv
<1>8. CASE Judge
  <2>1. at = "judge" /\ at' = "done" /\ now' = now
    BY <1>8 DEF Judge
  <2>2. now < Prompt * Rate + Rate => verdict' = "accepted"
    BY <1>8, <2>1, PromptCurrent DEF Judge
  <2>3. QED
    BY <2>1, <2>2 DEF PromptInv
<1>9. CASE Finish
  BY <1>9 DEF Finish, PromptInv
<1>10. ASSUME NEW k \in Kinds, Begin(k) PROVE PromptInv'
  BY <1>10 DEF Begin, PromptInv
<1>11. CASE UNCHANGED vars
  BY <1>11 DEF vars, PromptInv
<1>12. QED
  BY <1>3, <1>4, <1>5, <1>6, <1>7, <1>8, <1>9, <1>10, <1>11 DEF Next

\* Safety is not bought with refusals: where the geometry leaves the time, a
\* copy as quick as Prompt is accepted wherever RX stood when it began.
THEOREM PromptAccepted == Spec => []PromptIsAccepted
<1>1. Init => PromptInv
  BY DEF Init, PromptInv
<1>2. RunInv /\ PromptInv /\ [Next]_vars => PromptInv'
  BY PromptStep
<1>3. RunInv /\ PromptInv => PromptIsAccepted
  <2> SUFFICES ASSUME RunInv, PromptInv, at = "done", now \div Rate <= Prompt PROVE verdict = "accepted"
    BY DEF PromptIsAccepted
  <2>1. now \in Nat /\ now \div Rate \in Nat
    BY Sizes, Microseconds DEF RunInv, TypeOK
  <2>2. Prompt * Rate \in Nat /\ ~(Prompt * Rate + Rate <= now)
    BY <2>1, Sizes, Product, WithinWhole
  <2>3. QED
    BY <2>1, <2>2, Sizes DEF PromptInv
<1>4. QED
  BY <1>1, <1>2, <1>3, RunInit, RunStep, PTL DEF Spec
=============================================================================
