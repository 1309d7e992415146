--------------------------- MODULE FlightLogProof ---------------------------
(***************************************************************************)
(* The flight log for any number of blocks, slots and queue places: every  *)
(* index stays inside its ring and no block takes more than fits it; the   *)
(* snapshots keep their numbers and the important ones outlive the rest;   *)
(* the records of a session keep their order, the ring gives up its oldest *)
(* block first, and nothing is lost while no flash operation fails.        *)
(***************************************************************************)
EXTENDS FlightLog, TLAPS, WellFoundedInduction, SequenceTheorems

\* The ranges, by name.
Bits  == BOOLEAN
Trigs == Triggers \cup {0}
Runs  == {s \in Seq(Records) : Len(s) <= FLOG_BLOCK_ROOM}
Lines == {s \in Seq(Records) : Len(s) <= FLOG_QUEUE}
Fill  == 0 .. FLOG_BLOCK_ROOM
Bad   == 0 .. MaxFaults

BlockRec == [valid : Bits, session : Words, seq : Words, recs : Runs, closed : Bits]
SlotRec  == [valid : Bits, trigger : Trigs, seq : Nat, session : Words, boot : Nat, whole : Bits]
MetaRec  == [used : Bits, trigger : Trigs, seq : Nat]
DropRec  == [now : Nat, seen : Nat, logged : Nat]

FlashOK == header \in Bits /\ blk \in [Blocks -> BlockRec] /\ slot \in [Slots -> SlotRec]
PlaceOK == session \in Words /\ seq \in Words /\ block \in Blocks /\ used \in Fill /\ open \in Bits
QueueOK == ready \in Bits /\ queue \in Lines /\ buf \in Lines /\ drops \in DropRec
SnapOK  == request \in Trigs /\ trig \in Trigs /\ meta \in [Slots -> MetaRec] /\ snapSeq \in Nat
CountOK == faults \in Bad /\ boots \in Nat /\ made \in Nat

\* What the open block is known to hold is there, but for an erase that took
\* it and has yet to start the RAM state over.
OpenOK == open /\ pc \notin {"clear", "reset"} => used <= Len(blk[block].recs)

\* Snapshot numbers end somewhere, so that there is a next one.
SlotBound == \E n \in Nat : \A k \in Slots : slot[k].seq <= n

IInv == FlashOK /\ PlaceOK /\ QueueOK /\ SnapOK /\ CountOK /\ OpenOK /\ SlotBound

-----------------------------------------------------------------------------
(* Numbers. *)

LEMMA Least ==
  ASSUME NEW T \in SUBSET Nat, T # {}
  PROVE  \E x \in T : \A y \in T : x <= y
<1>1. PICK x \in T : \A y \in T : ~(<<y, x>> \in OpToRel(<, Nat))
  BY NatLessThanWellFounded, WFMin
<1>2. \A y \in T : ~(y < x)
  BY <1>1 DEF OpToRel
<1>3. QED
  BY <1>2

LEMMA Greatest ==
  ASSUME NEW n \in Nat, NEW T \in SUBSET (0 .. n), T # {}
  PROVE  \E x \in T : \A y \in T : y <= x
<1> DEFINE U == {n - x : x \in T}
<1>1. U \in SUBSET Nat /\ U # {}
  <2>1. \A x \in 0 .. n : n - x \in Nat
    OBVIOUS
  <2>2. QED
    BY <2>1
<1> HIDE DEF U
<1>2. PICK u \in U : \A v \in U : u <= v
  BY <1>1, Least
<1>3. PICK x \in T : u = n - x
  BY DEF U
<1>4. ASSUME NEW y \in T PROVE y <= x
  <2>1. n - y \in U
    BY DEF U
  <2>2. QED
    BY <1>2, <1>3, <2>1
<1>5. QED
  BY <1>4

LEMMA Sizes ==
  /\ FLOG_RECORD_BLOCKS \in Nat \ {0} /\ FLOG_BLOCK_ROOM \in Nat \ {0} /\ FLOG_QUEUE \in Nat \ {0}
  /\ FLOG_SNAP_SLOTS \in Nat /\ Erased \in Nat \ {0} /\ MaxFaults \in Nat
  /\ 0 \in Blocks /\ 0 \in Words /\ Erased \in Words /\ 0 \in Fill /\ 0 \in Trigs /\ 1 \in Words
  /\ TRUE \in Bits /\ FALSE \in Bits /\ Blocks \subseteq Nat /\ Slots \subseteq Nat /\ Words \subseteq Nat
  /\ Torn \in Records /\ <<>> \in Lines /\ <<>> \in Runs
  /\ \A w \in Int : Inc(w) \in Words
  /\ \A b \in Nat : (b + 1) % FLOG_RECORD_BLOCKS \in Blocks
<1>1. /\ FLOG_RECORD_BLOCKS \in Nat \ {0} /\ FLOG_BLOCK_ROOM \in Nat \ {0} /\ FLOG_QUEUE \in Nat \ {0}
      /\ FLOG_SNAP_SLOTS \in Nat /\ Erased \in Nat \ {0} /\ MaxFaults \in Nat
  BY SizesAssumption, ErasedAssumption, BoundsAssumption
<1>2. /\ 0 \in Blocks /\ 0 \in Words /\ Erased \in Words /\ 0 \in Fill /\ 0 \in Trigs /\ 1 \in Words
      /\ Blocks \subseteq Nat /\ Slots \subseteq Nat /\ Words \subseteq Nat
  BY <1>1 DEF Blocks, Slots, Words, Fill, Trigs
<1>3. Torn \in Records /\ TRUE \in Bits /\ FALSE \in Bits
  BY DEF Torn, Records, Bits
<1>4. <<>> \in Lines /\ <<>> \in Runs
  BY <1>1, EmptySeq DEF Lines, Runs
<1>5. \A w \in Int : Inc(w) \in Words
  BY <1>1 DEF Inc, Words
<1>6. \A b \in Nat : (b + 1) % FLOG_RECORD_BLOCKS \in Blocks
  BY <1>1 DEF Blocks
<1>7. QED
  BY <1>1, <1>2, <1>3, <1>4, <1>5, <1>6

LEMMA Blank == NoBlock \in BlockRec /\ NoSlot \in SlotRec /\ NoMeta \in MetaRec
  BY Sizes DEF NoBlock, NoSlot, NoMeta, BlockRec, SlotRec, MetaRec

LEMMA AppendLine ==
  ASSUME NEW s \in Seq(Records), NEW r \in Records
  PROVE  Append(s, r) \in Seq(Records) /\ Len(Append(s, r)) = Len(s) + 1
  OBVIOUS

\* What the boot scan finds: the newest block and the highest session.
LEMMA ScanFinds ==
  ASSUME FlashOK, Valid # {}
  PROVE  /\ Newest \in Valid
         /\ \A c \in Valid : blk[c].seq < blk[Newest].seq \/ (blk[c].seq = blk[Newest].seq /\ Newest <= c)
         /\ \E b \in Valid : TopSession = blk[b].session
         /\ \A b \in Valid : blk[b].session <= TopSession
<1>1. Valid \subseteq Blocks /\ \A b \in Valid : blk[b].session \in 0 .. Erased /\ blk[b].seq \in 0 .. Erased
  BY DEF Valid, FlashOK, BlockRec, Words
<1>2. TopSession \in {blk[b].session : b \in Valid} /\ \A b \in Valid : blk[b].session <= TopSession
  <2> DEFINE T == {blk[b].session : b \in Valid}
  <2>1. T \in SUBSET (0 .. Erased) /\ T # {}
    BY <1>1
  <2> HIDE DEF T
  <2>2. \E s \in T : \A y \in T : y <= s
    BY <2>1, Greatest, Sizes
  <2>3. \E s \in T : \A b \in Valid : blk[b].session <= s
    BY <2>2 DEF T
  <2>4. TopSession \in T /\ \A b \in Valid : blk[b].session <= TopSession
    BY <2>3 DEF TopSession, T
  <2>5. QED
    BY <2>4 DEF T
<1>3. Newest \in Valid
      /\ \A c \in Valid : blk[c].seq < blk[Newest].seq \/ (blk[c].seq = blk[Newest].seq /\ Newest <= c)
  <2> DEFINE T == {blk[b].seq : b \in Valid}
  <2>1. T \in SUBSET (0 .. Erased) /\ T # {}
    BY <1>1
  <2> HIDE DEF T
  <2>2. PICK s \in T : \A y \in T : y <= s
    BY <2>1, Greatest, Sizes
  <2> DEFINE U == {b \in Valid : blk[b].seq = s}
  <2>3. U \in SUBSET Nat /\ U # {}
    BY <1>1, <2>2, Sizes DEF T
  <2> HIDE DEF U
  <2>4. PICK b \in U : \A c \in U : b <= c
    BY <2>3, Least
  <2>5. b \in Valid /\ blk[b].seq = s
    BY <2>4 DEF U
  <2>6. \A c \in Valid : blk[c].seq < blk[b].seq \/ (blk[c].seq = blk[b].seq /\ b <= c)
    <3> TAKE c \in Valid
    <3>1. blk[c].seq <= s /\ blk[c].seq \in Nat /\ s \in Nat
      BY <1>1, <2>1, <2>2 DEF T
    <3>2. CASE blk[c].seq = s
      BY <2>4, <2>5, <3>2 DEF U
    <3>3. CASE blk[c].seq # s
      BY <2>5, <3>1, <3>3
    <3>4. QED
      BY <3>2, <3>3
  <2>7. QED
    BY <2>5, <2>6 DEF Newest
<1>4. QED
  BY <1>2, <1>3

\* The place a boot resumes at.
LEMMA ResumeType ==
  ASSUME FlashOK, Resume
  PROVE  session' \in Words /\ seq' \in Words /\ block' \in Blocks
<1>1. CASE Valid = {}
  BY <1>1, Sizes DEF Resume
<1>2. CASE Valid # {}
  <2>1. Valid \subseteq Blocks /\ \A b \in Valid : blk[b].session \in 0 .. Erased /\ blk[b].seq \in 0 .. Erased
    BY DEF Valid, FlashOK, BlockRec, Words
  <2>2. Newest \in Valid /\ \E b \in Valid : TopSession = blk[b].session
    BY <1>2, ScanFinds
  <2>3. Newest \in Nat /\ blk[Newest].seq \in Int /\ TopSession \in Int
    BY <2>1, <2>2, Sizes
  <2>4. QED
    BY <1>2, <2>3, Sizes DEF Resume
<1>3. QED
  BY <1>1, <1>2

LEMMA NextSnapType ==
  ASSUME FlashOK, SlotBound
  PROVE  NextSnap \in Nat /\ \A k \in Slots : slot[k].valid => slot[k].seq < NextSnap
<1>1. CASE UsedSlots = {}
  BY <1>1 DEF NextSnap, UsedSlots
<1>2. CASE UsedSlots # {}
  <2> DEFINE T == {slot[k].seq : k \in UsedSlots}
  <2>1. PICK n \in Nat : \A k \in Slots : slot[k].seq <= n
    BY DEF SlotBound
  <2>2. \A k \in UsedSlots : slot[k].seq \in Nat /\ slot[k].seq <= n
    BY <2>1 DEF UsedSlots, FlashOK, SlotRec
  <2>3. T \in SUBSET (0 .. n) /\ T # {}
    BY <1>2, <2>2
  <2> HIDE DEF T
  <2>4. \E s \in T : \A y \in T : y <= s
    BY <2>1, <2>3, Greatest
  <2>5. \E s \in T : \A k \in UsedSlots : slot[k].seq <= s
    BY <2>4 DEF T
  <2> DEFINE top == CHOOSE s \in T : \A k \in UsedSlots : slot[k].seq <= s
  <2>6. top \in T /\ \A k \in UsedSlots : slot[k].seq <= top
    BY <2>5
  <2>7. NextSnap = 1 + top
    BY <1>2 DEF NextSnap, T
  <2> HIDE DEF top
  <2>8. top \in Nat
    BY <2>1, <2>3, <2>6
  <2>9. \A k \in Slots : slot[k].valid => slot[k].seq < 1 + top
    BY <2>2, <2>6, <2>8 DEF UsedSlots
  <2>10. QED
    BY <2>7, <2>8, <2>9
<1>3. QED
  BY <1>1, <1>2

\* The queue takes what fits it.
LEMMA EnqueueType ==
  ASSUME QueueOK, CountOK, NEW q \in Lines, Enqueue(q)
  PROVE  queue' \in Lines /\ drops' \in DropRec /\ made' \in Nat
<1>1. CASE Len(q) < FLOG_QUEUE
  <2> DEFINE r == [boot |-> boots, id |-> made + 1]
  <2>1. r \in Records
    BY DEF CountOK, Records
  <2>2. q \in Seq(Records) /\ Len(q) \in Nat /\ FLOG_QUEUE \in Nat
    BY Sizes DEF Lines
  <2> HIDE DEF r
  <2>3. Append(q, r) \in Seq(Records) /\ Len(Append(q, r)) <= FLOG_QUEUE
    BY <1>1, <2>1, <2>2, AppendLine
  <2>4. queue' = Append(q, r) /\ made' = made + 1 /\ drops' = drops
    BY <1>1 DEF Enqueue, r
  <2>5. QED
    BY <2>3, <2>4 DEF Lines, QueueOK, CountOK
<1>2. CASE ~(Len(q) < FLOG_QUEUE)
  BY <1>2 DEF Enqueue, QueueOK, CountOK, DropRec
<1>3. QED
  BY <1>1, <1>2

-----------------------------------------------------------------------------
(* Steps. *)

LEMMA InitIInv == Init => IInv
<1> SUFFICES ASSUME Init PROVE IInv
  OBVIOUS
<1>1. FlashOK
  BY Sizes, Blank DEF Init, FlashOK
<1>2. PlaceOK /\ SnapOK
  BY Sizes, Blank DEF Init, PlaceOK, SnapOK
<1>3. QueueOK
  BY Sizes DEF Init, QueueOK, DropRec
<1>4. CountOK
  BY Sizes DEF Init, CountOK, Bad
<1>5. OpenOK
  BY DEF Init, OpenOK
<1>6. SlotBound
  BY DEF Init, SlotBound, NoSlot
<1>7. QED
  BY <1>1, <1>2, <1>3, <1>4, <1>5, <1>6 DEF IInv

\* A failed operation counts; otherwise the count stays.
LEMMA FaultType ==
  ASSUME CountOK, Fault \/ UNCHANGED faults
  PROVE  faults' \in Bad
<1>1. MaxFaults \in Nat
  BY Sizes
<1>2. QED
  BY <1>1 DEF CountOK, Fault, Bad

LEMMA StartStep ==
  ASSUME IInv, Start \/ StartFails
  PROVE  IInv'
<1>1. FlashOK /\ PlaceOK /\ QueueOK /\ SnapOK /\ CountOK /\ OpenOK /\ SlotBound
  BY DEF IInv
<1>2. CASE Start
  <2>1. FlashOK' /\ SlotBound' /\ OpenOK'
    BY <1>1, <1>2, Sizes DEF Start, FlashOK, SlotBound, OpenOK
  <2>2. PlaceOK'
    BY <1>1, <1>2, ResumeType, Sizes DEF Start, PlaceOK
  <2>3. QueueOK' /\ made' \in Nat
    <3>1. queue \in Lines
      BY <1>1 DEF QueueOK
    <3>2. queue' \in Lines /\ drops' \in DropRec /\ made' \in Nat
      BY <1>1, <1>2, <3>1, EnqueueType DEF Start
    <3>3. QED
      BY <1>1, <1>2, <3>2, Sizes DEF Start, QueueOK
  <2>4. CountOK'
    BY <1>1, <1>2, <2>3 DEF Start, CountOK, ghost
  <2>5. SnapOK'
    <3>1. \A k \in Slots : slot[k].trigger \in Trigs /\ slot[k].seq \in Nat
      BY <1>1 DEF FlashOK, SlotRec
    <3>2. meta' \in [Slots -> MetaRec]
      BY <1>2, <3>1, Sizes, Blank DEF Start, MetaRec
    <3>3. snapSeq' \in Nat
      BY <1>1, <1>2, NextSnapType DEF Start
    <3>4. QED
      BY <1>1, <1>2, <3>2, <3>3 DEF Start, SnapOK
  <2>6. QED
    BY <2>1, <2>2, <2>3, <2>4, <2>5 DEF IInv
<1>3. CASE StartFails
  <2>1. faults' \in Bad
    BY <1>1, <1>3, FaultType DEF StartFails
  <2>2. FlashOK' /\ PlaceOK' /\ QueueOK' /\ SnapOK' /\ SlotBound'
    BY <1>1, <1>3 DEF StartFails, flash, place, snaps, FlashOK, PlaceOK, QueueOK, SnapOK, SlotBound
  <2>3. CountOK' /\ OpenOK'
    BY <1>1, <1>3, <2>1 DEF StartFails, flash, place, ghost, CountOK, OpenOK
  <2>4. QED
    BY <2>2, <2>3 DEF IInv
<1>4. QED
  BY <1>2, <1>3

\* The parts of a block that a step may change.
LEMMA BlockExcept ==
  ASSUME FlashOK, NEW b \in Blocks
  PROVE  /\ \A s \in Words, q \in Words :
              [blk EXCEPT ![b].valid = TRUE, ![b].session = s, ![b].seq = q] \in [Blocks -> BlockRec]
         /\ \A r \in Runs : [blk EXCEPT ![b].recs = r] \in [Blocks -> BlockRec]
         /\ [blk EXCEPT ![b].closed = TRUE] \in [Blocks -> BlockRec]
         /\ [blk EXCEPT ![b] = NoBlock] \in [Blocks -> BlockRec]
         /\ blk[b].recs \in Runs
  BY Sizes, Blank DEF FlashOK, BlockRec

LEMMA PowerStep ==
  ASSUME IInv, PowerCut
  PROVE  IInv'
<1>1. FlashOK /\ PlaceOK /\ QueueOK /\ SnapOK /\ CountOK /\ OpenOK /\ SlotBound
  BY DEF IInv
<1>2. blk' \in [Blocks -> BlockRec]
  <2>1. block \in Blocks /\ session \in Words
    BY <1>1 DEF PlaceOK
  <2>2. CASE UNCHANGED blk
    BY <1>1, <2>2 DEF FlashOK
  <2>3. ASSUME NEW h \in TornHeads,
               blk' = [blk EXCEPT ![block].valid = TRUE, ![block].session = h.s, ![block].seq = h.q]
        PROVE  blk' \in [Blocks -> BlockRec]
    <3>1. h.s \in Words /\ h.q \in Words
      BY <2>1, Sizes DEF TornHeads
    <3>2. QED
      BY <1>1, <2>1, <2>3, <3>1, BlockExcept
  <2>4. ASSUME pc = "write", open, used < FLOG_BLOCK_ROOM,
               blk' = [blk EXCEPT ![block].recs = SubSeq(@, 1, used) \o <<Torn>>]
        PROVE  blk' \in [Blocks -> BlockRec]
    <3> DEFINE old == blk[block].recs
               cut == SubSeq(old, 1, used)
    <3>c. old \in Runs
      BY <1>1, <2>1, BlockExcept
    <3>0. old \in Seq(Records) /\ Len(old) \in Nat
      BY <3>c DEF Runs
    <3>a. used \in Nat /\ FLOG_BLOCK_ROOM \in Nat
      BY <1>1, Sizes DEF PlaceOK, Fill
    <3>b. used <= Len(old)
      BY <1>1, <2>4 DEF OpenOK
    <3>1. old \in Seq(Records) /\ used \in Nat /\ used <= Len(old) /\ FLOG_BLOCK_ROOM \in Nat
      BY <3>0, <3>a, <3>b
    <3> HIDE DEF old
    <3>2. cut \in Seq(Records) /\ Len(cut) = used
      BY <3>1
    <3> HIDE DEF cut
    <3>3. <<Torn>> \in Seq(Records) /\ Len(<<Torn>>) = 1
      BY Sizes
    <3>4. cut \o <<Torn>> \in Seq(Records) /\ Len(cut \o <<Torn>>) = used + 1
      BY <3>1, <3>2, <3>3
    <3>5. cut \o <<Torn>> \in Runs
      BY <2>4, <3>1, <3>4 DEF Runs
    <3>6. blk' = [blk EXCEPT ![block].recs = cut \o <<Torn>>]
      BY <2>4 DEF cut, old
    <3>7. QED
      BY <1>1, <2>1, <3>5, <3>6, BlockExcept
  <2>5. QED
    BY <2>2, <2>3, <2>4 DEF PowerCut
<1>3. FlashOK' /\ SlotBound'
  BY <1>1, <1>2 DEF PowerCut, FlashOK, SlotBound
<1>4. PlaceOK' /\ OpenOK'
  BY Sizes DEF PowerCut, PlaceOK, OpenOK
<1>5. QueueOK'
  BY Sizes DEF PowerCut, QueueOK, DropRec
<1>6. SnapOK'
  BY Sizes, Blank DEF PowerCut, SnapOK
<1>7. CountOK'
  <2>1. faults' = faults /\ made' = made /\ boots' = boots + 1
    BY DEF PowerCut
  <2>2. faults \in Bad /\ boots \in Nat /\ made \in Nat
    BY <1>1 DEF CountOK
  <2>3. boots' \in Nat
    BY <2>1, <2>2
  <2>4. QED
    BY <2>1, <2>2, <2>3 DEF CountOK
<1>8. QED
  BY <1>3, <1>4, <1>5, <1>6, <1>7 DEF IInv

LEMMA OutsideStep ==
  ASSUME IInv, Record \/ SnapRequest \/ LoggerTake \/ DumpTake \/ EraseTake \/ SnapSkip \/ LoggerDue
  PROVE  IInv'
<1>1. FlashOK /\ PlaceOK /\ QueueOK /\ SnapOK /\ CountOK /\ OpenOK /\ SlotBound
  BY DEF IInv
<1>2. FlashOK' /\ PlaceOK' /\ SlotBound'
  BY <1>1 DEF Record, SnapRequest, LoggerTake, DumpTake, EraseTake, SnapSkip, LoggerDue, flash, place,
     FlashOK, PlaceOK, SlotBound
<1>3. OpenOK'
  BY <1>1 DEF Record, SnapRequest, LoggerTake, DumpTake, EraseTake, SnapSkip, LoggerDue, SnapOver,
     flash, place, OpenOK
<1>4. QueueOK' /\ CountOK'
  <2>1. CASE Record
    <3>1. queue \in Lines
      BY <1>1 DEF QueueOK
    <3>2. queue' \in Lines /\ drops' \in DropRec /\ made' \in Nat
      BY <1>1, <2>1, <3>1, EnqueueType DEF Record
    <3>3. QED
      BY <1>1, <2>1, <3>2 DEF Record, ghost, QueueOK, CountOK
  <2>2. CASE SnapRequest \/ LoggerTake \/ DumpTake \/ EraseTake \/ SnapSkip \/ LoggerDue
    BY <1>1, <2>2 DEF SnapRequest, LoggerTake, DumpTake, EraseTake, SnapSkip, LoggerDue, ghost,
       QueueOK, CountOK
  <2>3. QED
    BY <2>1, <2>2
<1>5. SnapOK'
  <2>1. Triggers \subseteq Trigs /\ 0 \in Trigs
    BY DEF Trigs
  <2>2. QED
    BY <1>1, <2>1 DEF Record, SnapRequest, LoggerTake, DumpTake, EraseTake, SnapSkip, LoggerDue,
       SnapOver, snaps, SnapOK
<1>6. QED
  BY <1>2, <1>3, <1>4, <1>5 DEF IInv

\* Every write to a slot keeps the slots typed and their numbers bounded.
LEMMA SlotExcept ==
  ASSUME FlashOK, SnapOK, PlaceOK, CountOK, SlotBound, NEW v,
         \/ slot' = [slot EXCEPT ![v] = NoSlot]
         \/ slot' = [slot EXCEPT ![v] = [valid |-> TRUE, trigger |-> trig, seq |-> snapSeq,
                                         session |-> session, boot |-> boots, whole |-> FALSE]]
         \/ slot' = [slot EXCEPT ![v].whole = TRUE]
         \/ slot' = slot
  PROVE  slot' \in [Slots -> SlotRec] /\ SlotBound'
<1> DEFINE new == [valid |-> TRUE, trigger |-> trig, seq |-> snapSeq,
                   session |-> session, boot |-> boots, whole |-> FALSE]
<1>1. new \in SlotRec /\ new.seq = snapSeq /\ snapSeq \in Nat
  BY Sizes DEF SlotRec, SnapOK, PlaceOK, CountOK
<1>2. NoSlot.seq = 0
  BY DEF NoSlot
<1> HIDE DEF new
<1>3. slot \in [Slots -> SlotRec]
  BY DEF FlashOK
<1>4. slot' \in [Slots -> SlotRec]
  <2>1. CASE slot' = [slot EXCEPT ![v] = NoSlot] \/ slot' = [slot EXCEPT ![v] = new] \/ slot' = slot
    BY <1>1, <1>3, <2>1, Blank
  <2>2. CASE slot' = [slot EXCEPT ![v].whole = TRUE]
    BY <1>3, <2>2, Sizes DEF SlotRec
  <2>3. QED
    BY <2>1, <2>2 DEF new
<1>5. PICK n \in Nat : \A k \in Slots : slot[k].seq <= n
  BY DEF SlotBound
<1>6. \A k \in Slots : slot[k].seq \in Nat
  BY <1>3 DEF SlotRec
<1>7. \A k \in Slots : slot'[k].seq \in {slot[k].seq, 0, snapSeq}
  <2>1. CASE slot' = [slot EXCEPT ![v] = NoSlot] \/ slot' = [slot EXCEPT ![v] = new] \/ slot' = slot
    BY <1>1, <1>2, <1>3, <2>1
  <2>2. CASE slot' = [slot EXCEPT ![v].whole = TRUE]
    BY <1>3, <2>2 DEF SlotRec
  <2>3. QED
    BY <2>1, <2>2 DEF new
<1>8. \A k \in Slots : slot'[k].seq <= n + snapSeq
  BY <1>1, <1>5, <1>6, <1>7
<1>9. n + snapSeq \in Nat
  BY <1>1, <1>5
<1>10. QED
  BY <1>4, <1>8, <1>9 DEF SlotBound

LEMMA SnapStep ==
  ASSUME IInv, SnapErase \/ SnapHead \/ SnapBody
  PROVE  IInv'
<1>1. FlashOK /\ PlaceOK /\ QueueOK /\ SnapOK /\ CountOK /\ OpenOK /\ SlotBound
  BY DEF IInv
<1>2. slot' \in [Slots -> SlotRec] /\ SlotBound'
  BY <1>1, SlotExcept DEF SnapErase, SnapHead, SnapBody
<1>3. FlashOK' /\ PlaceOK'
  BY <1>1, <1>2 DEF SnapErase, SnapHead, SnapBody, place, FlashOK, PlaceOK
<1>4. OpenOK'
  BY <1>1 DEF SnapErase, SnapHead, SnapBody, SnapOver, place, OpenOK
<1>5. QueueOK' /\ made' \in Nat
  <2>1. CASE UNCHANGED <<ready, queue, buf, drops, made>>
    BY <1>1, <2>1 DEF QueueOK, CountOK
  <2>2. CASE Enqueue(queue) /\ UNCHANGED <<ready, buf>>
    <3>1. queue \in Lines
      BY <1>1 DEF QueueOK
    <3>2. queue' \in Lines /\ drops' \in DropRec /\ made' \in Nat
      BY <1>1, <2>2, <3>1, EnqueueType
    <3>3. QED
      BY <1>1, <2>2, <3>2 DEF QueueOK
  <2>3. QED
    BY <2>1, <2>2 DEF SnapErase, SnapHead, SnapBody
<1>6. faults' \in Bad
  BY <1>1, FaultType DEF SnapErase, SnapHead, SnapBody
<1>7. CountOK'
  BY <1>1, <1>5, <1>6 DEF SnapErase, SnapHead, SnapBody, ghost, CountOK
<1>8. trig' \in Trigs /\ request' \in Trigs
  BY <1>1, Sizes DEF SnapErase, SnapHead, SnapBody, SnapOver, SnapOK
<1>9. meta' \in [Slots -> MetaRec] /\ snapSeq' \in Nat
  <2>1. [used |-> TRUE, trigger |-> trig, seq |-> snapSeq] \in MetaRec
    BY <1>1, Sizes DEF SnapOK, MetaRec
  <2> DEFINE row == [used |-> TRUE, trigger |-> trig, seq |-> snapSeq]
             v == Victim
  <2>2. UNCHANGED <<meta, snapSeq>> \/ (meta' = [meta EXCEPT ![v] = row] /\ snapSeq' = snapSeq + 1)
    BY DEF SnapErase, SnapHead, SnapBody
  <2>3. row \in MetaRec
    BY <2>1
  <2> HIDE DEF row, v
  <2>4. meta \in [Slots -> MetaRec] /\ snapSeq \in Nat
    BY <1>1 DEF SnapOK
  <2>5. QED
    BY <2>2, <2>3, <2>4
<1>10. QED
  BY <1>2, <1>3, <1>4, <1>5, <1>7, <1>8, <1>9 DEF IInv, SnapOK

\* Every way a flush of the log gives up.
LEMMA GiveUpType ==
  ASSUME QueueOK, CountOK, GiveUp
  PROVE  buf' \in Lines /\ faults' \in Bad
<1>1. faults' \in Bad
  BY FaultType DEF GiveUp
<1>2. QED
  BY <1>1, Sizes DEF GiveUp

LEMMA TakeStep ==
  ASSUME IInv, FlushTake \/ FlushEnd
  PROVE  IInv'
<1>1. FlashOK /\ PlaceOK /\ QueueOK /\ SnapOK /\ CountOK /\ OpenOK /\ SlotBound
  BY DEF IInv
<1>2. FlashOK' /\ PlaceOK' /\ SlotBound' /\ SnapOK'
  BY <1>1 DEF FlushTake, FlushEnd, flash, place, snaps, FlashOK, PlaceOK, SlotBound, SnapOK
<1>3. OpenOK'
  BY <1>1 DEF FlushTake, FlushEnd, flash, place, OpenOK
<1>4. UNCHANGED <<ready, faults, boots>>
  BY DEF FlushTake, FlushEnd, ghost
<1>5. queue' \in Lines /\ buf' \in Lines /\ drops' \in DropRec /\ made' \in Nat
  <2>1. CASE FlushTake
    BY <1>1, <2>1, Sizes DEF FlushTake, QueueOK, CountOK, DropRec
  <2>2. CASE FlushEnd
    <3> DEFINE r == [boot |-> boots, id |-> made + 1]
    <3>1. r \in Records /\ made + 1 \in Nat
      BY <1>1 DEF CountOK, Records
    <3> HIDE DEF r
    <3>2. queue \in Seq(Records) /\ Len(queue) \in Nat /\ FLOG_QUEUE \in Nat
      BY <1>1, Sizes DEF QueueOK, Lines
    <3>3. Append(queue, r) \in Seq(Records) /\ Len(Append(queue, r)) = Len(queue) + 1
      BY <3>1, <3>2, AppendLine
    <3>4. \/ UNCHANGED <<queue, made>>
          \/ Len(queue) < FLOG_QUEUE /\ queue' = Append(queue, r) /\ made' = made + 1
      BY <2>2 DEF FlushEnd, r
    <3>5. queue' \in Lines
      <4>1. CASE UNCHANGED queue
        BY <1>1, <4>1 DEF QueueOK
      <4>2. CASE Len(queue) < FLOG_QUEUE /\ queue' = Append(queue, r)
        BY <3>2, <3>3, <4>2 DEF Lines
      <4>3. QED
        BY <3>4, <4>1, <4>2
    <3>6. made' \in Nat
      BY <1>1, <3>1, <3>4 DEF CountOK
    <3>7. drops' \in DropRec
      <4>1. drops \in DropRec
        BY <1>1 DEF QueueOK
      <4>2. drops' \in {drops, [drops EXCEPT !.logged = drops.seen],
                        [drops EXCEPT !.logged = drops.seen, !.now = @ + 1]}
        BY <2>2 DEF FlushEnd
      <4>3. PICK n \in Nat, e \in Nat, l \in Nat : drops = [now |-> n, seen |-> e, logged |-> l]
        BY <4>1 DEF DropRec
      <4>4. drops' \in {[now |-> n, seen |-> e, logged |-> l], [now |-> n, seen |-> e, logged |-> e],
                        [now |-> n + 1, seen |-> e, logged |-> e]}
        BY <4>2, <4>3
      <4>5. QED
        BY <4>4 DEF DropRec
    <3>8. buf' \in Lines
      BY <1>1, <2>2 DEF FlushEnd, QueueOK
    <3>9. QED
      BY <3>5, <3>6, <3>7, <3>8
  <2>3. QED
    BY <2>1, <2>2
<1>6. QED
  BY <1>1, <1>2, <1>3, <1>4, <1>5 DEF IInv, QueueOK, CountOK

LEMMA OpenStep ==
  ASSUME IInv, OpenErase \/ OpenHead
  PROVE  IInv'
<1>1. FlashOK /\ PlaceOK /\ QueueOK /\ SnapOK /\ CountOK /\ OpenOK /\ SlotBound
  BY DEF IInv
<1>2. block \in Blocks /\ session \in Words /\ seq \in Words /\ used \in Fill
  BY <1>1 DEF PlaceOK
<1>3. blk' \in [Blocks -> BlockRec]
  <2>1. CASE UNCHANGED blk
    BY <1>1, <2>1 DEF FlashOK
  <2>2. CASE blk' = [blk EXCEPT ![block] = NoBlock]
    BY <1>1, <1>2, <2>2, BlockExcept
  <2>3. CASE blk' = [blk EXCEPT ![block].valid = TRUE, ![block].session = session, ![block].seq = seq]
    BY <1>1, <1>2, <2>3, BlockExcept
  <2>4. QED
    BY <2>1, <2>2, <2>3 DEF OpenErase, OpenHead
<1>4. FlashOK' /\ SlotBound' /\ SnapOK'
  BY <1>1, <1>3 DEF OpenErase, OpenHead, snaps, FlashOK, SlotBound, SnapOK
<1>5. PlaceOK'
  BY <1>1, Sizes DEF OpenErase, OpenHead, place, PlaceOK
<1>6. buf' \in Lines /\ faults' \in Bad
  <2>1. CASE GiveUp
    BY <1>1, <2>1, GiveUpType
  <2>2. CASE UNCHANGED <<buf, faults>>
    BY <1>1, <2>2 DEF QueueOK, CountOK
  <2>3. QED
    BY <2>1, <2>2 DEF OpenErase, OpenHead
<1>7. QueueOK'
  BY <1>1, <1>6 DEF OpenErase, OpenHead, QueueOK
<1>8. CountOK'
  BY <1>1, <1>6 DEF OpenErase, OpenHead, ghost, CountOK
<1>9. OpenOK'
  <2>1. CASE OpenErase
    BY <2>1 DEF OpenErase, place, OpenOK
  <2>2. CASE OpenHead /\ UNCHANGED <<blk, used, open>>
    BY <1>1, <2>2 DEF OpenHead, OpenOK
  <2>3. CASE OpenHead /\ used' = 0
    <3>1. blk'[block'].recs \in Runs
      BY <1>3, <1>5 DEF PlaceOK, BlockRec
    <3>2. Len(blk'[block'].recs) \in Nat
      BY <3>1 DEF Runs
    <3>3. used' <= Len(blk'[block'].recs)
      BY <2>3, <3>2
    <3>4. QED
      BY <3>3 DEF OpenOK
  <2>4. QED
    BY <2>1, <2>2, <2>3 DEF OpenHead
<1>10. QED
  BY <1>4, <1>5, <1>7, <1>8, <1>9 DEF IInv

\* What a program of the open block leaves in it.
LEMMA WrittenType ==
  ASSUME PlaceOK, QueueOK, FlashOK, used < FLOG_BLOCK_ROOM, buf # <<>>,
         used <= Len(blk[block].recs)
  PROVE  /\ Written \in Runs /\ used + Run <= Len(Written)
         /\ Run \in 1 .. Len(buf) /\ used + Run \in Fill
<1> DEFINE old == blk[block].recs
           end == IF Len(old) > used + Run THEN Len(old) ELSE used + Run
<1>1. old \in Runs
  BY BlockExcept DEF PlaceOK
<1>2. Written = [k \in 1 .. end |-> IF k <= Len(old) THEN old[k] ELSE buf[k - used]]
  BY DEF Written
<1>3. buf \in Seq(Records) /\ Len(buf) \in Nat \ {0}
  <2>1. buf \in Seq(Records)
    BY DEF QueueOK, Lines
  <2>2. QED
    BY <2>1
<1>4. used \in Nat /\ FLOG_BLOCK_ROOM \in Nat
  BY Sizes DEF PlaceOK, Fill
<1>5. Run \in 1 .. Len(buf) /\ used + Run \in 0 .. FLOG_BLOCK_ROOM
  BY <1>3, <1>4 DEF Run
<1> HIDE DEF old
<1>6. old \in Seq(Records) /\ Len(old) \in 0 .. FLOG_BLOCK_ROOM
  <2>1. old \in Seq(Records) /\ Len(old) <= FLOG_BLOCK_ROOM
    BY <1>1 DEF Runs
  <2>2. Len(old) \in Nat
    BY <2>1
  <2>3. QED
    BY <2>1, <2>2, <1>4
<1>7. end \in 0 .. FLOG_BLOCK_ROOM /\ used + Run <= end /\ (end = Len(old) \/ end = used + Run)
  BY <1>4, <1>5, <1>6
<1> HIDE DEF end
<1>8. ASSUME NEW k \in 1 .. end
      PROVE  (IF k <= Len(old) THEN old[k] ELSE buf[k - used]) \in Records
  <2>1. CASE k <= Len(old)
    BY <1>6, <1>7, <1>8, <2>1
  <2>2. CASE ~(k <= Len(old))
    <3>1. end = used + Run
      BY <1>6, <1>7, <1>8, <2>2
    <3>2. used <= Len(old)
      BY DEF old
    <3>3. k - used \in 1 .. Len(buf)
      BY <1>3, <1>4, <1>5, <1>6, <1>8, <2>2, <3>1, <3>2
    <3>4. QED
      BY <1>3, <2>2, <3>3
  <2>3. QED
    BY <2>1, <2>2
<1>9. Written \in Seq(Records) /\ Len(Written) = end
  BY <1>2, <1>7, <1>8
<1>10. QED
  BY <1>4, <1>5, <1>7, <1>9 DEF Runs, Fill

LEMMA WriteStep ==
  ASSUME IInv, AppendRun
  PROVE  IInv'
<1>1. FlashOK /\ PlaceOK /\ QueueOK /\ SnapOK /\ CountOK /\ OpenOK /\ SlotBound
  BY DEF IInv
<1>2. block \in Blocks /\ used \in Nat /\ FLOG_BLOCK_ROOM \in Nat /\ pc = "write" /\ open /\ used < FLOG_BLOCK_ROOM /\ buf # <<>>
  BY <1>1, Sizes DEF AppendRun, PlaceOK, Fill
<1>3. used <= Len(blk[block].recs)
  BY <1>1, <1>2 DEF OpenOK
<1>4. /\ Written \in Runs /\ used + Run <= Len(Written)
      /\ Run \in 1 .. Len(buf) /\ used + Run \in Fill
  BY <1>1, <1>2, <1>3, WrittenType
<1>5. blk[block].recs \in Runs
  BY <1>1, <1>2, BlockExcept
<1>6. blk \in [Blocks -> BlockRec]
  BY <1>1 DEF FlashOK
<1>7. CASE /\ blk' = [blk EXCEPT ![block].recs = Written] /\ used' = used + Run
           /\ buf' = SubSeq(buf, Run + 1, Len(buf)) /\ UNCHANGED faults
  <2>1. blk' \in [Blocks -> BlockRec]
    BY <1>1, <1>2, <1>4, <1>7, BlockExcept
  <2>2. blk'[block].recs = Written
    BY <1>2, <1>6, <1>7 DEF BlockRec
  <2>3. buf' \in Lines
    <3>1. buf \in Seq(Records) /\ Len(buf) <= FLOG_QUEUE
      BY <1>1 DEF QueueOK, Lines
    <3>2. Len(buf) \in Nat /\ FLOG_QUEUE \in Nat
      BY <3>1, Sizes
    <3> DEFINE n == Run
    <3>3. n \in 1 .. Len(buf) /\ buf' = SubSeq(buf, n + 1, Len(buf))
      BY <1>4, <1>7
    <3> HIDE DEF n
    <3>4. SubSeq(buf, n + 1, Len(buf)) \in Seq(Records) /\ Len(SubSeq(buf, n + 1, Len(buf))) = Len(buf) - n
      BY <3>1, <3>2, <3>3
    <3>5. QED
      BY <3>1, <3>2, <3>3, <3>4 DEF Lines
  <2>4. QueueOK' /\ CountOK'
    BY <1>1, <1>7, <2>3 DEF AppendRun, ghost, QueueOK, CountOK
  <2>5. PlaceOK' /\ OpenOK'
    BY <1>1, <1>4, <1>7, <2>2 DEF AppendRun, PlaceOK, OpenOK
  <2>6. FlashOK' /\ SlotBound' /\ SnapOK'
    BY <1>1, <2>1 DEF AppendRun, snaps, FlashOK, SlotBound, SnapOK
  <2>7. QED
    BY <2>4, <2>5, <2>6 DEF IInv
<1>8. CASE /\ \/ UNCHANGED blk
              \/ Len(blk[block].recs) = used /\ blk' = [blk EXCEPT ![block].recs = Append(@, Torn)]
           /\ UNCHANGED used /\ GiveUp
  <2>1. blk' \in [Blocks -> BlockRec] /\ used <= Len(blk'[block].recs)
    <3>1. CASE UNCHANGED blk
      BY <1>3, <1>6, <3>1
    <3>2. CASE Len(blk[block].recs) = used /\ blk' = [blk EXCEPT ![block].recs = Append(@, Torn)]
      <4> DEFINE old == blk[block].recs
      <4>1. old \in Seq(Records) /\ Torn \in Records
        BY <1>5, Sizes DEF Runs
      <4>2. blk' = [blk EXCEPT ![block].recs = Append(old, Torn)] /\ Len(old) = used
        BY <3>2
      <4> HIDE DEF old
      <4>3. Append(old, Torn) \in Seq(Records) /\ Len(Append(old, Torn)) = used + 1
        BY <4>1, <4>2, AppendLine
      <4>4. Append(old, Torn) \in Runs
        BY <1>2, <4>3 DEF Runs
      <4>5. blk' \in [Blocks -> BlockRec]
        BY <1>1, <1>2, <4>2, <4>4, BlockExcept
      <4>6. blk'[block].recs = Append(old, Torn)
        BY <1>2, <1>6, <4>2 DEF BlockRec
      <4>7. QED
        BY <1>2, <4>3, <4>5, <4>6
    <3>3. QED
      BY <1>8, <3>1, <3>2
  <2>2. buf' \in Lines /\ faults' \in Bad
    BY <1>1, <1>8, GiveUpType
  <2>3. QueueOK' /\ CountOK'
    BY <1>1, <2>2 DEF AppendRun, ghost, QueueOK, CountOK
  <2>4. PlaceOK' /\ OpenOK'
    BY <1>1, <1>8, <2>1 DEF AppendRun, PlaceOK, OpenOK
  <2>5. FlashOK' /\ SlotBound' /\ SnapOK'
    BY <1>1, <2>1 DEF AppendRun, snaps, FlashOK, SlotBound, SnapOK
  <2>6. QED
    BY <2>3, <2>4, <2>5 DEF IInv
<1>9. QED
  BY <1>7, <1>8 DEF AppendRun

LEMMA CloseStep ==
  ASSUME IInv, CloseBlock \/ CloseReadFails
  PROVE  IInv'
<1>1. FlashOK /\ PlaceOK /\ QueueOK /\ SnapOK /\ CountOK /\ OpenOK /\ SlotBound
  BY DEF IInv
<1>2. block \in Blocks /\ seq \in Words
  BY <1>1 DEF PlaceOK
<1>3. blk' \in [Blocks -> BlockRec]
  <2>1. CASE UNCHANGED blk
    BY <1>1, <2>1 DEF FlashOK
  <2>2. CASE blk' = [blk EXCEPT ![block].closed = TRUE]
    BY <1>1, <1>2, <2>2, BlockExcept
  <2>3. QED
    BY <2>1, <2>2 DEF CloseBlock, CloseReadFails, flash
<1>4. FlashOK' /\ SlotBound' /\ SnapOK'
  BY <1>1, <1>3 DEF CloseBlock, CloseReadFails, flash, snaps, FlashOK, SlotBound, SnapOK
<1>5. faults' \in Bad
  BY <1>1, FaultType DEF CloseBlock, CloseReadFails
<1>6. QueueOK' /\ CountOK'
  BY <1>1, <1>5 DEF CloseBlock, CloseReadFails, ghost, QueueOK, CountOK
<1>7. PlaceOK' /\ OpenOK'
  <2>1. CASE CloseBlock
    <3>1. block \in Nat /\ seq \in Int
      BY <1>2, Sizes
    <3>2. Inc(seq) \in Words /\ (block + 1) % FLOG_RECORD_BLOCKS \in Blocks
      BY <3>1, Sizes
    <3>3. QED
      BY <1>1, <2>1, <3>2, Sizes DEF CloseBlock, PlaceOK, OpenOK
  <2>2. CASE CloseReadFails
    BY <1>1, <2>2 DEF CloseReadFails, flash, place, PlaceOK, OpenOK
  <2>3. QED
    BY <2>1, <2>2
<1>8. QED
  BY <1>4, <1>6, <1>7 DEF IInv

LEMMA EraseStep ==
  ASSUME IInv, EraseFlash \/ EraseQueue \/ EraseReset
  PROVE  IInv'
<1>1. FlashOK /\ PlaceOK /\ QueueOK /\ SnapOK /\ CountOK /\ OpenOK /\ SlotBound
  BY DEF IInv
<1>2. CASE EraseFlash
  <2>1. PICK n \in 0 .. FLOG_RECORD_BLOCKS, m \in 0 .. FLOG_SNAP_SLOTS :
          /\ blk' = [b \in Blocks |-> IF b < n THEN NoBlock ELSE blk[b]]
          /\ slot' = [k \in Slots |-> IF k < m THEN NoSlot ELSE slot[k]]
          /\ (header' = TRUE /\ UNCHANGED faults) \/ (header' \in {FALSE, n = 0 /\ header} /\ Fault)
    BY <1>2 DEF EraseFlash
  <2>2. blk' \in [Blocks -> BlockRec] /\ slot' \in [Slots -> SlotRec]
    BY <1>1, <2>1, Blank DEF FlashOK
  <2>3. header' \in Bits
    BY <2>1 DEF Bits
  <2>4. faults' \in Bad
    BY <1>1, <2>1, FaultType
  <2>5. SlotBound'
    <3>1. PICK h \in Nat : \A k \in Slots : slot[k].seq <= h
      BY <1>1 DEF SlotBound
    <3>2. NoSlot.seq = 0
      BY DEF NoSlot
    <3>3. \A k \in Slots : slot'[k].seq <= h
      BY <2>1, <3>1, <3>2
    <3>4. QED
      BY <3>3 DEF SlotBound
  <2>6. PlaceOK' /\ QueueOK' /\ SnapOK'
    BY <1>1, <1>2 DEF EraseFlash, place, snaps, PlaceOK, QueueOK, SnapOK
  <2>7. OpenOK' /\ CountOK'
    BY <1>1, <1>2, <2>4 DEF EraseFlash, OpenOK, CountOK
  <2>8. QED
    BY <2>2, <2>3, <2>5, <2>6, <2>7 DEF IInv, FlashOK
<1>3. CASE EraseQueue
  <2>1. FlashOK' /\ PlaceOK' /\ SnapOK' /\ SlotBound'
    BY <1>1, <1>3 DEF EraseQueue, flash, place, snaps, FlashOK, PlaceOK, SnapOK, SlotBound
  <2>2. QueueOK' /\ CountOK' /\ OpenOK'
    BY <1>1, <1>3, Sizes DEF EraseQueue, ghost, QueueOK, CountOK, OpenOK
  <2>3. QED
    BY <2>1, <2>2 DEF IInv
<1>4. CASE EraseReset
  <2>1. FlashOK' /\ SlotBound' /\ OpenOK'
    BY <1>1, <1>4 DEF EraseReset, flash, FlashOK, SlotBound, OpenOK
  <2>2. queue' \in Lines /\ drops' \in DropRec /\ made' \in Nat
    <3>1. queue \in Lines /\ Enqueue(queue)
      BY <1>1, <1>4 DEF EraseReset, QueueOK
    <3>2. QED
      BY <1>1, <3>1, EnqueueType
  <2>3. QueueOK' /\ CountOK'
    BY <1>1, <1>4, <2>2 DEF EraseReset, ghost, QueueOK, CountOK
  <2>4. PlaceOK'
    <3>1. session \in Int
      BY <1>1, Sizes DEF PlaceOK
    <3>2. Inc(session) \in Words
      BY <3>1, Sizes
    <3>3. QED
      BY <1>4, <3>2, Sizes DEF EraseReset, PlaceOK
  <2>5. SnapOK'
    <3>1. meta' \in [Slots -> MetaRec]
      BY <1>1, <1>4, Sizes DEF EraseReset, SnapOK, MetaRec
    <3>2. QED
      BY <1>1, <1>4, <3>1 DEF EraseReset, SnapOK
  <2>6. QED
    BY <2>1, <2>3, <2>4, <2>5 DEF IInv
<1>5. QED
  BY <1>2, <1>3, <1>4

-----------------------------------------------------------------------------
(* The theorem. *)

LEMMA StutterStep == IInv /\ UNCHANGED vars => IInv'
<1> SUFFICES ASSUME IInv, UNCHANGED vars PROVE IInv'
  OBVIOUS
<1>1. FlashOK' /\ PlaceOK' /\ QueueOK' /\ SnapOK' /\ CountOK' /\ OpenOK' /\ SlotBound'
  BY DEF IInv, vars, flash, place, snaps, ghost, FlashOK, PlaceOK, QueueOK, SnapOK, CountOK, OpenOK, SlotBound
<1>2. QED
  BY <1>1 DEF IInv

LEMMA StepIInv == IInv /\ [Next]_vars => IInv'
<1> SUFFICES ASSUME IInv, [Next]_vars PROVE IInv'
  OBVIOUS
<1>1. CASE Start \/ StartFails
  BY <1>1, StartStep
<1>2. CASE PowerCut
  BY <1>2, PowerStep
<1>3. CASE Record \/ SnapRequest \/ LoggerTake \/ DumpTake \/ EraseTake \/ SnapSkip \/ LoggerDue
  BY <1>3, OutsideStep
<1>4. CASE SnapErase \/ SnapHead \/ SnapBody
  BY <1>4, SnapStep
<1>5. CASE FlushTake \/ FlushEnd
  BY <1>5, TakeStep
<1>6. CASE OpenErase \/ OpenHead
  BY <1>6, OpenStep
<1>7. CASE AppendRun
  BY <1>7, WriteStep
<1>8. CASE CloseBlock \/ CloseReadFails
  BY <1>8, CloseStep
<1>9. CASE EraseFlash \/ EraseQueue \/ EraseReset
  BY <1>9, EraseStep
<1>10. CASE UNCHANGED vars
  BY <1>10, StutterStep
<1>11. QED
  BY <1>1, <1>2, <1>3, <1>4, <1>5, <1>6, <1>7, <1>8, <1>9, <1>10 DEF Next, Step

LEMMA IInvType == IInv => TypeOK
<1> SUFFICES ASSUME IInv PROVE TypeOK
  OBVIOUS
<1>1. FlashOK /\ PlaceOK /\ QueueOK /\ SnapOK /\ CountOK
  BY DEF IInv
<1>2. /\ header \in BOOLEAN /\ ready \in BOOLEAN /\ open \in BOOLEAN /\ faults \in 0 .. MaxFaults
      /\ {session, seq} \subseteq Words /\ block \in Blocks /\ used \in 0 .. FLOG_BLOCK_ROOM
      /\ {request, trig} \subseteq Triggers \cup {0}
  BY <1>1 DEF FlashOK, PlaceOK, QueueOK, SnapOK, CountOK, Bits, Bad, Fill, Trigs
<1>3. Len(queue) <= FLOG_QUEUE /\ Len(buf) <= FLOG_QUEUE
  BY <1>1 DEF QueueOK, Lines
<1>4. ASSUME NEW k \in Slots
      PROVE  slot[k].trigger \in Triggers \cup {0} /\ meta[k].trigger \in Triggers \cup {0}
  BY <1>1 DEF FlashOK, SnapOK, SlotRec, MetaRec, Trigs
<1>5. ASSUME NEW b \in Blocks
      PROVE  /\ {blk[b].session, blk[b].seq} \subseteq Words
             /\ Len(blk[b].recs) <= FLOG_BLOCK_ROOM
             /\ InFlash(b) \subseteq Records
  <2>1. blk[b].session \in Words /\ blk[b].seq \in Words /\ blk[b].recs \in Runs
    BY <1>1 DEF FlashOK, BlockRec
  <2>2. blk[b].recs \in Seq(Records) /\ Len(blk[b].recs) <= FLOG_BLOCK_ROOM
    BY <2>1 DEF Runs
  <2>3. \A k \in DOMAIN blk[b].recs : blk[b].recs[k] \in Records
    BY <2>2
  <2>4. QED
    BY <2>1, <2>2, <2>3 DEF InFlash, Places
<1>6. QED
  BY <1>2, <1>3, <1>4, <1>5 DEF TypeOK

\* Every place in flash and RAM stays in its range: no block number past the
\* ring (flightlog.c's s_block), no record past the end of a block, no queue
\* past its size, through failed operations, power cuts and erases.
THEOREM TypeCorrect == Spec => []TypeOK
<1>1. Init => IInv
  BY InitIInv
<1>2. IInv /\ [Next]_vars => IInv'
  BY StepIInv
<1>3. IInv => TypeOK
  BY IInvType
<1>4. QED
  BY <1>1, <1>2, <1>3, PTL DEF Spec
-----------------------------------------------------------------------------
(* The snapshot slots.                                                     *)

\* The slot the next snapshot takes, as the RAM table alone decides it: the
\* first unused one, else the oldest of the least important ones.
NextVictim(k) ==
  \A j \in Slots :
    \/ ~meta[k].used /\ (meta[j].used \/ k <= j)
    \/ meta[k].used /\ meta[j].used /\ Before(k, j)

\* Whatever trigger found a victim found this one: a snapshot that failed half
\* way through is tried again at the same slot.
Matching(k) == slot[k].valid /\ meta[k].used /\ meta[k].trigger = slot[k].trigger
Fresh == \A j \in Slots : meta[j].used <=> j < snapSeq
Restarting == pc \in {"clear", "reset"}

\* A number is never below its slot's index ...
SlotLow == \A k \in Slots : slot[k].valid => k <= slot[k].seq
Numbered == \A k \in Slots : meta[k].used => k <= meta[k].seq /\ meta[k].seq < snapSeq
\* ... nor has the next one been used, but by the slot being written; the slots
\* that a failed erase left, above those written since, have higher numbers.
Counted ==
  ready => \A k \in Slots : slot[k].valid =>
    \/ slot[k].seq < snapSeq
    \/ NextVictim(k) /\ slot[k].seq = snapSeq /\ ~slot[k].whole
    \/ ~meta[k].used /\ Fresh
Taking ==
  pc \in {"snapHead", "snapBody"} =>
    /\ Empty \cup Lesser # {}
    /\ pc = "snapBody" => \A k \in Slots : NextVictim(k) =>
         slot[k].valid /\ slot[k].seq = snapSeq /\ slot[k].trigger = trig
\* The RAM table tells what flash holds, except of the next victim, which a
\* failed snapshot may have erased; but a complete snapshot is always known.
Agree ==
  ready /\ ~stale /\ ~Restarting => \A k \in Slots :
    /\ slot[k].valid /\ slot[k].whole => Matching(k)
    /\ meta[k].used => Matching(k) \/ NextVictim(k)
CleanSlots == ~stale /\ Restarting => \A k \in Slots : ~slot[k].valid
Awake == /\ ready => pc # "off" /\ pc # "dead"
         /\ ~ready => pc \in {"off", "dead"} /\ \A k \in Slots : ~meta[k].used

SlotInv == /\ SlotLow /\ Numbered /\ Counted /\ Taking /\ Agree /\ CleanSlots /\ Awake
           /\ SnapshotsNumbered

LEMMA VictimNext ==
  ASSUME SnapOK, Empty \cup Lesser # {}
  PROVE  Victim \in Slots /\ NextVictim(Victim)
<1>0. Slots \subseteq Nat /\ \A k \in Slots : meta[k].trigger \in Nat /\ meta[k].seq \in Nat /\ meta[k].used \in BOOLEAN
  <2>1. Trigs \subseteq Nat
    BY TriggersAssumption DEF Trigs
  <2>2. QED
    BY <2>1, Sizes DEF SnapOK, MetaRec, Bits
<1>1. CASE Empty # {}
  <2>1. Empty \in SUBSET Nat
    BY <1>0 DEF Empty
  <2>2. \E k \in Empty : \A j \in Empty : k <= j
    BY <1>1, <2>1, Least
  <2>3. Victim = CHOOSE k \in Empty : \A j \in Empty : k <= j
    BY <1>1 DEF Victim
  <2>4. Victim \in Empty /\ \A j \in Empty : Victim <= j
    BY <2>2, <2>3
  <2>5. QED
    BY <2>4, <1>0 DEF Empty, NextVictim
<1>2. CASE Empty = {}
  <2>1. Lesser # {} /\ Lesser \subseteq Slots
    BY <1>2 DEF Lesser
  <2> DEFINE T == {meta[k].trigger : k \in Lesser}
  <2>2. T \in SUBSET Nat /\ T # {}
    BY <2>1, <1>0
  <2> HIDE DEF T
  <2>3. PICK t \in T : \A y \in T : t <= y
    BY <2>2, Least
  <2> DEFINE Q == {meta[k].seq : k \in {i \in Lesser : meta[i].trigger = t}}
  <2>4. Q \in SUBSET Nat /\ Q # {}
    BY <2>1, <2>3, <1>0 DEF T
  <2> HIDE DEF Q
  <2>5. PICK q \in Q : \A y \in Q : q <= y
    BY <2>4, Least
  <2> DEFINE U == {k \in Lesser : meta[k].trigger = t /\ meta[k].seq = q}
  <2>6. U \in SUBSET Nat /\ U # {}
    BY <2>1, <2>5, <1>0 DEF Q
  <2> HIDE DEF U
  <2>7. PICK u \in U : \A y \in U : u <= y
    BY <2>6, Least
  <2>8. u \in Lesser /\ meta[u].trigger = t /\ meta[u].seq = q
    BY <2>7 DEF U
  <2>9. \A j \in Lesser : Before(u, j)
    <3> TAKE j \in Lesser
    <3>1. j \in Slots /\ meta[j].trigger \in Nat /\ meta[j].seq \in Nat /\ t <= meta[j].trigger
      BY <2>1, <2>3, <1>0 DEF T
    <3>2. CASE meta[j].trigger # t
      BY <3>1, <3>2, <2>8, <2>2, <2>3 DEF Before
    <3>3. CASE meta[j].trigger = t /\ meta[j].seq # q
      <4>1. q <= meta[j].seq
        BY <3>3, <2>5 DEF Q
      <4>2. QED
        BY <4>1, <3>1, <3>3, <2>8, <2>4, <2>5 DEF Before
    <3>4. CASE meta[j].trigger = t /\ meta[j].seq = q
      BY <3>4, <2>7, <2>8 DEF U, Before
    <3>5. QED
      BY <3>2, <3>3, <3>4
  <2>10. Victim = CHOOSE k \in Lesser : \A j \in Lesser : Before(k, j)
    BY <1>2 DEF Victim
  <2>11. Victim \in Lesser /\ \A j \in Lesser : Before(Victim, j)
    BY <2>8, <2>9, <2>10
  <2> DEFINE v == Victim
  <2>12. v \in Lesser /\ \A j \in Lesser : Before(v, j)
    BY <2>11
  <2> HIDE DEF v
  <2>13. \A j \in Slots : Before(v, j)
    <3> TAKE j \in Slots
    <3>1. CASE j \in Lesser
      BY <3>1, <2>12
    <3>2. CASE j \notin Lesser
      <4>1. trig \in Nat
        BY TriggersAssumption DEF SnapOK, Trigs
      <4>2. meta[v].trigger <= trig /\ ~(meta[j].trigger <= trig)
        BY <3>2, <2>12 DEF Lesser
      <4>3. QED
        BY <4>1, <4>2, <2>1, <2>12, <1>0 DEF Before
    <3>3. QED
      BY <3>1, <3>2
  <2>14. \A j \in Slots : meta[j].used
    BY <1>2 DEF Empty
  <2>15. v \in Slots /\ NextVictim(v)
    BY <2>1, <2>12, <2>13, <2>14 DEF NextVictim
  <2>16. QED
    BY <2>15 DEF v
<1>3. QED
  BY <1>1, <1>2

LEMMA NextUnique ==
  ASSUME SnapOK, NEW j \in Slots, NEW k \in Slots, NextVictim(j), NextVictim(k)
  PROVE  j = k
<1>1. j \in Nat /\ k \in Nat
  BY Sizes
<1>2. \A i \in Slots : meta[i].trigger \in Nat /\ meta[i].seq \in Nat
  <2>1. Trigs \subseteq Nat
    BY TriggersAssumption DEF Trigs
  <2>2. QED
    BY <2>1 DEF SnapOK, MetaRec
<1>3. CASE meta[j].used
  <2>1. Before(j, k) /\ meta[k].used
    BY <1>3 DEF NextVictim
  <2>2. Before(k, j)
    BY <1>3, <2>1 DEF NextVictim
  <2>3. QED
    BY <1>1, <1>2, <2>1, <2>2 DEF Before
<1>4. CASE ~meta[j].used
  <2>1. ~meta[k].used
    BY <1>4 DEF NextVictim
  <2>2. j <= k /\ k <= j
    BY <1>4, <2>1 DEF NextVictim
  <2>3. QED
    BY <1>1, <2>2
<1>5. QED
  BY <1>3, <1>4

\* The next victim's index is at most the next number.
LEMMA VictimLow ==
  ASSUME SnapOK, Numbered, NEW v \in Slots, NextVictim(v)
  PROVE  v <= snapSeq /\ (Fresh /\ ~meta[v].used => v = snapSeq)
<1>1. v \in Nat /\ snapSeq \in Nat /\ FLOG_SNAP_SLOTS \in Nat
  BY Sizes DEF SnapOK
<1>2. \A k \in Slots : meta[k].seq \in Nat /\ k \in Nat
  BY Sizes DEF SnapOK, MetaRec
<1>3. v <= snapSeq
  <2>1. CASE meta[v].used
    BY <2>1, <1>1, <1>2 DEF Numbered
  <2>2. CASE v = 0
    BY <2>2, <1>1
  <2>3. CASE ~meta[v].used /\ v # 0
    <3>1. v - 1 \in Slots /\ ~(v <= v - 1)
      BY <1>1, <2>3 DEF Slots
    <3>2. meta[v - 1].used
      BY <2>3, <3>1 DEF NextVictim
    <3>3. v - 1 <= meta[v - 1].seq /\ meta[v - 1].seq < snapSeq
      BY <3>1, <3>2 DEF Numbered
    <3>4. QED
      BY <1>1, <1>2, <3>1, <3>3
  <2>4. QED
    BY <2>1, <2>2, <2>3
<1>4. QED
  BY <1>1, <1>3 DEF Fresh

\* A step that leaves the slots, their table and the log's life alone.
LEMMA SlotQuiet ==
  ASSUME IInv, SlotInv, UNCHANGED <<slot, meta, snapSeq, ready, stale>>,
         Restarting <=> Restarting',
         pc' \notin {"off", "dead"} \/ UNCHANGED pc,
         pc \notin {"off", "dead"} \/ UNCHANGED pc,
         pc' \notin {"snapHead", "snapBody"} \/ UNCHANGED <<pc, trig>>
  PROVE  SlotInv'
<1>0. SlotLow /\ Numbered /\ Counted /\ Taking /\ Agree /\ CleanSlots /\ Awake /\ SnapshotsNumbered
  BY DEF SlotInv
<1>1. SlotLow' /\ Numbered' /\ CleanSlots' /\ SnapshotsNumbered'
  BY <1>0 DEF SlotLow, Numbered, CleanSlots, SnapshotsNumbered
<1>2. \A k \in Slots : NextVictim(k)' <=> NextVictim(k)
  BY DEF NextVictim, Before
<1>3. Counted' /\ Agree'
  BY <1>0, <1>2 DEF Counted, Agree, Fresh, Matching
<1>4. Taking'
  BY <1>0, <1>2 DEF Taking, Empty, Lesser
<1>5. Awake'
  BY <1>0 DEF Awake
<1>6. QED
  BY <1>1, <1>3, <1>4, <1>5 DEF SlotInv

LEMMA SlotQuietSteps ==
  ASSUME IInv, SlotInv,
         \/ Record \/ SnapRequest \/ LoggerTake \/ DumpTake \/ EraseTake \/ SnapSkip \/ LoggerDue
         \/ FlushTake \/ OpenErase \/ OpenHead \/ AppendRun \/ CloseBlock \/ CloseReadFails \/ FlushEnd
         \/ EraseQueue
  PROVE  SlotInv'
<1>0. Awake
  BY DEF SlotInv
<1>1. CASE Record \/ SnapRequest \/ LoggerTake \/ DumpTake \/ EraseTake \/ SnapSkip \/ LoggerDue
  <2>1. UNCHANGED <<slot, meta, snapSeq, ready, stale>> /\ (Restarting <=> Restarting')
    BY <1>1 DEF Record, SnapRequest, LoggerTake, DumpTake, EraseTake, SnapSkip, LoggerDue, SnapOver,
       flash, snaps, ghost, Restarting
  <2>2. /\ pc' \notin {"off", "dead"} \/ UNCHANGED pc
        /\ pc \notin {"off", "dead"} \/ UNCHANGED pc
        /\ pc' \notin {"snapHead", "snapBody"} \/ UNCHANGED <<pc, trig>>
    BY <1>1 DEF Record, SnapRequest, LoggerTake, DumpTake, EraseTake, SnapSkip, LoggerDue, SnapOver, snaps
  <2>3. QED
    BY <2>1, <2>2, SlotQuiet
<1>2. CASE FlushTake \/ OpenErase \/ OpenHead \/ AppendRun \/ CloseBlock \/ CloseReadFails \/ FlushEnd \/ EraseQueue
  <2>1. UNCHANGED <<slot, meta, snapSeq, ready, stale>> /\ (Restarting <=> Restarting')
    BY <1>2 DEF FlushTake, OpenErase, OpenHead, AppendRun, CloseBlock, CloseReadFails, FlushEnd, EraseQueue,
       GiveUp, flash, snaps, ghost, Restarting
  <2>2. /\ pc' \notin {"off", "dead"} \/ UNCHANGED pc
        /\ pc \notin {"off", "dead"} \/ UNCHANGED pc
        /\ pc' \notin {"snapHead", "snapBody"} \/ UNCHANGED <<pc, trig>>
    BY <1>2 DEF FlushTake, OpenErase, OpenHead, AppendRun, CloseBlock, CloseReadFails, FlushEnd, EraseQueue,
       GiveUp, snaps
  <2>3. QED
    BY <2>1, <2>2, SlotQuiet
<1>3. QED
  BY <1>1, <1>2

LEMMA SlotInit == Init => SlotInv
<1> SUFFICES ASSUME Init PROVE SlotInv
  OBVIOUS
<1>1. \A k \in Slots : ~slot[k].valid /\ ~meta[k].used
  BY DEF Init, NoSlot, NoMeta
<1>2. SlotLow /\ Numbered /\ CleanSlots /\ SnapshotsNumbered
  BY <1>1 DEF SlotLow, Numbered, CleanSlots, SnapshotsNumbered
<1>3. ready = FALSE /\ pc = "off"
  BY DEF Init
<1>4. Counted /\ Taking /\ Agree /\ Awake
  BY <1>1, <1>3 DEF Counted, Taking, Agree, Awake
<1>5. QED
  BY <1>2, <1>4 DEF SlotInv

\* The boot scan takes the table from flash, and the number after the highest.
LEMMA SlotStart ==
  ASSUME IInv, SlotInv, Start
  PROVE  SlotInv'
<1>0. SlotLow /\ SnapshotsNumbered /\ FlashOK /\ SlotBound
  BY DEF SlotInv, IInv
<1>1. /\ UNCHANGED <<slot, stale>> /\ pc' = "idle" /\ ready' = TRUE /\ snapSeq' = NextSnap
      /\ meta' = [k \in Slots |->
           IF slot[k].valid THEN [used |-> TRUE, trigger |-> slot[k].trigger, seq |-> slot[k].seq]
                            ELSE NoMeta]
  BY DEF Start, ghost
<1>2. \A k \in Slots : /\ meta'[k].used <=> slot'[k].valid
                       /\ slot'[k].valid => meta'[k].trigger = slot'[k].trigger /\ meta'[k].seq = slot'[k].seq
  BY <1>1 DEF NoMeta
<1>3. \A k \in Slots : slot'[k].valid => slot'[k].seq < snapSeq'
  BY <1>0, <1>1, NextSnapType
<1>4. SlotLow' /\ SnapshotsNumbered'
  BY <1>0, <1>1 DEF SlotLow, SnapshotsNumbered
<1>5. Numbered'
  BY <1>2, <1>3, <1>4 DEF Numbered, SlotLow
<1>6. Counted'
  BY <1>3 DEF Counted
<1>7. Agree'
  BY <1>2 DEF Agree, Matching
<1>8. Taking' /\ CleanSlots' /\ Awake'
  BY <1>1 DEF Taking, CleanSlots, Awake, Restarting
<1>9. QED
  BY <1>4, <1>5, <1>6, <1>7, <1>8 DEF SlotInv

LEMMA SlotDown ==
  ASSUME IInv, SlotInv, PowerCut \/ StartFails
  PROVE  SlotInv'
<1>0. SlotLow /\ SnapshotsNumbered /\ Awake /\ Numbered
  BY DEF SlotInv
<1>1. UNCHANGED slot /\ ~ready' /\ pc' \in {"off", "dead"}
  <2>1. CASE PowerCut
    BY <2>1 DEF PowerCut
  <2>2. CASE StartFails
    BY <1>0, <2>2 DEF StartFails, flash, Awake
  <2>3. QED
    BY <2>1, <2>2
<1>2. \A k \in Slots : ~meta'[k].used
  <2>1. CASE PowerCut
    BY <2>1 DEF PowerCut, NoMeta
  <2>2. CASE StartFails
    BY <1>0, <2>2 DEF StartFails, snaps, Awake
  <2>3. QED
    BY <2>1, <2>2
<1>3. SlotLow' /\ SnapshotsNumbered'
  BY <1>0, <1>1 DEF SlotLow, SnapshotsNumbered
<1>4. Numbered' /\ Counted' /\ Taking' /\ Agree' /\ CleanSlots' /\ Awake'
  BY <1>1, <1>2 DEF Numbered, Counted, Taking, Agree, CleanSlots, Awake, Restarting
<1>5. QED
  BY <1>3, <1>4 DEF SlotInv

\* A step that only takes snapshots out of flash keeps the numbers apart.
LEMMA SlotErased ==
  ASSUME IInv, SlotInv, UNCHANGED <<meta, snapSeq, ready>>,
         \A k \in Slots : slot'[k] = slot[k] \/ ~slot'[k].valid
  PROVE  SlotLow' /\ Numbered' /\ Counted' /\ SnapshotsNumbered'
<1>0. SlotLow /\ Numbered /\ Counted /\ SnapshotsNumbered
  BY DEF SlotInv
<1>1. \A k \in Slots : NextVictim(k)' <=> NextVictim(k)
  BY DEF NextVictim, Before
<1>2. SlotLow'
  BY <1>0 DEF SlotLow
<1>3. Numbered'
  BY <1>0 DEF Numbered
<1>4. Fresh' <=> Fresh
  BY DEF Fresh
<1>5. Counted'
  BY <1>0, <1>1, <1>4 DEF Counted
<1>6. SnapshotsNumbered'
  BY <1>0 DEF SnapshotsNumbered
<1>7. QED
  BY <1>2, <1>3, <1>5, <1>6

LEMMA SlotErase ==
  ASSUME IInv, SlotInv, SnapErase
  PROVE  SlotInv'
<1>0. Counted /\ Agree /\ CleanSlots /\ Awake /\ SnapOK /\ FlashOK /\ ready /\ pc = "snap"
  BY DEF SlotInv, IInv, SnapErase, Awake, QueueOK, Bits
<1>1. Victim \in Slots /\ NextVictim(Victim)
  BY <1>0, VictimNext DEF SnapErase
<1> DEFINE v == Victim
<1>2. v \in Slots /\ NextVictim(v)
  BY <1>1
<1> HIDE DEF v
<1>3. \/ slot' = [slot EXCEPT ![v] = NoSlot] /\ pc' = "snapHead" /\ trig' = trig
      \/ slot' = slot /\ pc' = "due"
  BY Zenon DEF SnapErase, SnapOver, v
<1>4. UNCHANGED <<meta, snapSeq, ready, stale>>
  BY DEF SnapErase, ghost
<1>5. \A k \in Slots : slot'[k] = slot[k] \/ (k = v /\ ~slot'[k].valid)
  <2>1. ~NoSlot.valid
    BY DEF NoSlot
  <2>2. slot \in [Slots -> SlotRec]
    BY <1>0 DEF FlashOK
  <2>3. QED
    BY <1>3, <2>1, <2>2
<1>6. SlotLow' /\ Numbered' /\ Counted' /\ SnapshotsNumbered'
  BY <1>4, <1>5, SlotErased
<1>7. \A k \in Slots : NextVictim(k)' <=> NextVictim(k)
  BY <1>4 DEF NextVictim, Before
<1>8. Agree'
  BY <1>0, <1>2, <1>4, <1>5, <1>7 DEF Agree, Matching, Restarting
<1>9. Taking'
  BY <1>3, <1>4 DEF SnapErase, Taking, Empty, Lesser
<1>10. CleanSlots' /\ Awake'
  BY <1>0, <1>3, <1>4 DEF CleanSlots, Awake, Restarting
<1>11. QED
  BY <1>6, <1>8, <1>9, <1>10 DEF SlotInv

\* The head goes to the next victim, with the next number.
LEMMA SlotHead ==
  ASSUME IInv, SlotInv, SnapHead
  PROVE  SlotInv'
<1>0. /\ SlotLow /\ Numbered /\ Counted /\ Taking /\ Agree /\ Awake /\ SnapshotsNumbered
      /\ SnapOK /\ FlashOK /\ pc = "snapHead"
  BY DEF SlotInv, IInv, SnapHead
<1>1. UNCHANGED <<meta, snapSeq, ready, stale>>
  BY DEF SnapHead, ghost
<1> DEFINE v == Victim
           new == [valid |-> TRUE, trigger |-> trig, seq |-> snapSeq,
                   session |-> session, boot |-> boots, whole |-> FALSE]
<1>2. v \in Slots /\ NextVictim(v)
  BY <1>0, VictimNext DEF Taking
<1>3. new.valid /\ new.trigger = trig /\ new.seq = snapSeq /\ ~new.whole
  OBVIOUS
<1>4. \/ slot' = [slot EXCEPT ![v] = new] /\ pc' = "snapBody" /\ trig' = trig
      \/ slot' = slot /\ pc' = "due"
  BY Zenon DEF SnapHead, SnapOver
<1> HIDE DEF v, new
<1>5. \A k \in Slots : NextVictim(k)' <=> NextVictim(k)
  BY <1>1 DEF NextVictim, Before
<1>6. CASE slot' = slot /\ pc' = "due"
  <2>1. SlotLow' /\ Numbered' /\ Counted' /\ SnapshotsNumbered'
    BY <1>1, <1>6, SlotErased
  <2>2. Agree' /\ Taking' /\ CleanSlots' /\ Awake'
    BY <1>0, <1>1, <1>5, <1>6 DEF Agree, Matching, Taking, CleanSlots, Awake, Restarting
  <2>3. QED
    BY <2>1, <2>2 DEF SlotInv
<1>7. CASE slot' = [slot EXCEPT ![v] = new] /\ pc' = "snapBody" /\ trig' = trig
  <2>1. slot'[v] = new /\ \A k \in Slots : k # v => slot'[k] = slot[k]
    BY <1>0, <1>2, <1>7 DEF FlashOK
  <2>2. v <= snapSeq
    BY <1>0, <1>2, VictimLow
  <2>3. SlotLow'
    BY <1>0, <1>1, <1>3, <2>1, <2>2 DEF SlotLow
  <2>4. Numbered'
    BY <1>0, <1>1 DEF Numbered
  <2>5. Counted'
    <3>1. Fresh' <=> Fresh
      BY <1>1 DEF Fresh
    <3>2. QED
      BY <1>0, <1>1, <1>2, <1>3, <1>5, <2>1, <3>1 DEF Counted
  <2>6. SnapshotsNumbered'
    BY <1>0, <1>3, <2>1 DEF SnapshotsNumbered
  <2>7. Agree'
    BY <1>0, <1>1, <1>2, <1>3, <1>5, <2>1 DEF Agree, Matching, Restarting
  <2>8. Taking'
    <3>1. Empty' = Empty /\ Lesser' = Lesser
      BY <1>1, <1>7 DEF Empty, Lesser
    <3>2. \A k \in Slots : NextVictim(k)' => k = v
      BY <1>0, <1>2, <1>5, NextUnique
    <3>3. QED
      BY <1>0, <1>1, <1>3, <1>7, <2>1, <3>1, <3>2 DEF Taking
  <2>9. CleanSlots' /\ Awake'
    BY <1>0, <1>1, <1>7 DEF CleanSlots, Awake, Restarting
  <2>10. QED
    BY <2>3, <2>4, <2>5, <2>6, <2>7, <2>8, <2>9 DEF SlotInv
<1>8. QED
  BY <1>4, <1>6, <1>7

\* The body completes it; only then does the table know it.
LEMMA SlotBody ==
  ASSUME IInv, SlotInv, SnapBody
  PROVE  SlotInv'
<1>0. /\ SlotLow /\ Numbered /\ Counted /\ Taking /\ Agree /\ Awake /\ SnapshotsNumbered
      /\ SnapOK /\ FlashOK /\ pc = "snapBody" /\ ready
  BY DEF SlotInv, IInv, SnapBody, Awake
<1>1. UNCHANGED <<ready, stale>> /\ pc' = "due"
  BY DEF SnapBody, SnapOver, ghost
<1> DEFINE v == Victim
           row == [used |-> TRUE, trigger |-> trig, seq |-> snapSeq]
<1>2. v \in Slots /\ NextVictim(v)
  BY <1>0, VictimNext DEF Taking
<1>3. row.used /\ row.trigger = trig /\ row.seq = snapSeq
  OBVIOUS
<1>4. \/ /\ slot' = [slot EXCEPT ![v].whole = TRUE]
         /\ meta' = [meta EXCEPT ![v] = row]
         /\ snapSeq' = snapSeq + 1
      \/ UNCHANGED <<slot, meta, snapSeq>>
  BY Zenon DEF SnapBody
<1> HIDE DEF v, row
<1>5. CleanSlots' /\ Awake' /\ Taking'
  BY <1>0, <1>1 DEF CleanSlots, Awake, Taking, Restarting
<1>6. CASE UNCHANGED <<slot, meta, snapSeq>>
  <2>1. SlotLow' /\ Numbered' /\ Counted' /\ SnapshotsNumbered'
    BY <1>1, <1>6, SlotErased
  <2>2. \A k \in Slots : NextVictim(k)' <=> NextVictim(k)
    BY <1>6 DEF NextVictim, Before
  <2>3. Agree'
    BY <1>0, <1>1, <1>6, <2>2 DEF Agree, Matching, Restarting
  <2>4. QED
    BY <1>5, <2>1, <2>3 DEF SlotInv
<1>7. CASE /\ slot' = [slot EXCEPT ![v].whole = TRUE]
           /\ meta' = [meta EXCEPT ![v] = row]
           /\ snapSeq' = snapSeq + 1
  <2>1. \A k \in Slots : k # v => slot'[k] = slot[k] /\ meta'[k] = meta[k]
    BY <1>0, <1>2, <1>7 DEF FlashOK, SnapOK
  <2>2. meta'[v] = row
    BY <1>0, <1>2, <1>7 DEF SnapOK
  <2>3. /\ slot'[v].valid = slot[v].valid /\ slot'[v].seq = slot[v].seq
        /\ slot'[v].trigger = slot[v].trigger
    BY <1>0, <1>2, <1>7 DEF FlashOK, SlotRec
  <2>4. slot[v].valid /\ slot[v].seq = snapSeq /\ slot[v].trigger = trig
    BY <1>0, <1>2 DEF Taking
  <2>5. snapSeq \in Nat /\ v \in Nat /\ Slots \subseteq Nat /\ v <= snapSeq
    BY <1>0, <1>2, VictimLow, Sizes DEF SnapOK
  <2>6. \A k \in Slots : slot[k].seq \in Nat /\ meta[k].seq \in Nat /\ k \in Nat
    BY <1>0, Sizes DEF FlashOK, SnapOK, SlotRec, MetaRec
  <2>7. SlotLow'
    BY <1>0, <2>1, <2>3 DEF SlotLow
  <2>8. Numbered'
    BY <1>0, <1>3, <1>7, <2>1, <2>2, <2>5, <2>6 DEF Numbered
  <2>9. Fresh /\ ~meta[v].used => Fresh'
    <3>1. Fresh /\ ~meta[v].used => v = snapSeq
      BY <1>0, <1>2, VictimLow
    <3>2. SUFFICES ASSUME Fresh, v = snapSeq PROVE Fresh'
      BY <3>1
    <3>3. \A j \in Slots : meta'[j].used <=> j < snapSeq + 1
      <4> TAKE j \in Slots
      <4>1. CASE j = v
        BY <4>1, <3>2, <1>3, <2>2, <2>5
      <4>2. CASE j # v
        BY <4>2, <3>2, <2>1, <2>5, <2>6 DEF Fresh
      <4>3. QED
        BY <4>1, <4>2
    <3>4. QED
      BY <3>3, <1>7 DEF Fresh
  \* Every other snapshot in flash has another number.
  <2>10. ASSUME NEW k \in Slots, slot[k].valid, k # v
         PROVE  \/ slot[k].seq < snapSeq
                \/ ~meta[k].used /\ Fresh /\ ~meta[v].used /\ slot[k].seq > snapSeq
    <3>1. ~NextVictim(k)
      BY <1>0, <1>2, <2>10, NextUnique
    <3>2. CASE slot[k].seq < snapSeq
      BY <3>2
    <3>3. CASE ~meta[k].used /\ Fresh
      <4>1. ~meta[v].used
        BY <1>2, <3>3 DEF NextVictim
      <4>2. v = snapSeq
        BY <1>0, <1>2, <3>3, <4>1, VictimLow
      <4>3. ~(k < snapSeq)
        BY <3>3 DEF Fresh
      <4>4. k <= slot[k].seq
        BY <1>0, <2>10 DEF SlotLow
      <4>5. QED
        BY <2>5, <2>6, <2>10, <3>3, <4>1, <4>2, <4>3, <4>4
    <3>4. QED
      BY <1>0, <2>10, <3>1, <3>2, <3>3 DEF Counted
  <2>11. Counted'
    <3> SUFFICES ASSUME NEW k \in Slots, slot'[k].valid
                 PROVE  slot'[k].seq < snapSeq' \/ (~meta'[k].used /\ Fresh')
      BY DEF Counted
    <3>1. CASE k = v
      BY <3>1, <1>7, <2>3, <2>4, <2>5
    <3>2. CASE k # v
      <4>1. slot[k].valid /\ slot'[k].seq = slot[k].seq /\ meta'[k] = meta[k]
        BY <3>2, <2>1
      <4>2. CASE slot[k].seq < snapSeq
        BY <4>1, <4>2, <1>7, <2>5, <2>6
      <4>3. CASE ~meta[k].used /\ Fresh /\ ~meta[v].used
        BY <4>1, <4>3, <2>9
      <4>4. QED
        BY <3>2, <4>1, <4>2, <4>3, <2>10
    <3>3. QED
      BY <3>1, <3>2
  <2>12. SnapshotsNumbered'
    <3> SUFFICES ASSUME NEW j \in Slots, NEW k \in Slots, j # k,
                        slot'[j].valid, slot'[k].valid, slot'[j].whole, slot'[k].whole
                 PROVE  slot'[j].seq # slot'[k].seq
      BY DEF SnapshotsNumbered
    <3>1. \A i \in Slots : i # v /\ slot'[i].valid => slot'[i].seq # slot'[v].seq
      <4> TAKE i \in Slots
      <4> HAVE i # v /\ slot'[i].valid
      <4>1. slot[i].valid /\ slot'[i].seq = slot[i].seq
        BY <2>1
      <4>2. slot[i].seq < snapSeq \/ slot[i].seq > snapSeq
        BY <4>1, <2>10
      <4>3. QED
        BY <4>1, <4>2, <2>3, <2>4, <2>5, <2>6
    <3>2. CASE j = v \/ k = v
      BY <3>1, <3>2
    <3>3. CASE j # v /\ k # v
      BY <3>3, <1>0, <2>1 DEF SnapshotsNumbered
    <3>4. QED
      BY <3>2, <3>3
  <2>13. Agree'
    <3> SUFFICES ASSUME ~stale, NEW k \in Slots
                 PROVE  /\ slot'[k].valid /\ slot'[k].whole => Matching(k)'
                        /\ meta'[k].used => Matching(k)'
      BY <1>1 DEF Agree
    <3>1. CASE k = v
      BY <3>1, <1>3, <2>2, <2>3, <2>4 DEF Matching
    <3>2. CASE k # v
      <4>1. ~NextVictim(k)
        BY <3>2, <1>0, <1>2, NextUnique
      <4>2. /\ slot[k].valid /\ slot[k].whole => Matching(k)
            /\ meta[k].used => Matching(k)
        BY <1>0, <4>1 DEF Agree, Restarting
      <4>3. QED
        BY <3>2, <4>2, <2>1 DEF Matching
    <3>3. QED
      BY <3>1, <3>2
  <2>14. QED
    BY <1>5, <2>7, <2>8, <2>11, <2>12, <2>13 DEF SlotInv
<1>8. QED
  BY <1>4, <1>6, <1>7

LEMMA SlotRestart ==
  ASSUME IInv, SlotInv, EraseFlash \/ EraseReset
  PROVE  SlotInv'
<1>0. /\ SlotLow /\ Numbered /\ Counted /\ CleanSlots /\ Awake /\ SnapshotsNumbered
      /\ SnapOK /\ FlashOK /\ ready
  BY DEF SlotInv, IInv, EraseFlash, EraseReset, Awake
<1>1. CASE EraseFlash
  <2>1. PICK m \in 0 .. FLOG_SNAP_SLOTS : slot' = [k \in Slots |-> IF k < m THEN NoSlot ELSE slot[k]]
    BY <1>1 DEF EraseFlash
  <2>2. UNCHANGED <<meta, snapSeq, ready>> /\ pc' = "clear"
    BY <1>1 DEF EraseFlash, snaps
  <2>3. \A k \in Slots : slot'[k] = slot[k] \/ ~slot'[k].valid
    <3>1. ~NoSlot.valid
      BY DEF NoSlot
    <3>2. QED
      BY <2>1, <3>1
  <2>4. SlotLow' /\ Numbered' /\ Counted' /\ SnapshotsNumbered'
    BY <2>2, <2>3, SlotErased
  <2>5. CleanSlots'
    BY <1>1 DEF EraseFlash, CleanSlots
  <2>6. Agree' /\ Taking' /\ Awake'
    BY <1>0, <2>2 DEF Agree, Taking, Awake, Restarting
  <2>7. QED
    BY <2>4, <2>5, <2>6 DEF SlotInv
<1>2. CASE EraseReset
  <2>1. UNCHANGED <<slot, ready, stale>> /\ snapSeq' = 0 /\ pc' = "idle" /\ pc = "reset"
    BY <1>2 DEF EraseReset, flash, ghost
  <2>2. \A k \in Slots : ~meta'[k].used
    BY <1>0, <1>2 DEF EraseReset, SnapOK, MetaRec
  <2>3. SlotLow' /\ SnapshotsNumbered'
    BY <1>0, <2>1 DEF SlotLow, SnapshotsNumbered
  <2>4. Numbered'
    BY <2>2 DEF Numbered
  <2>5. Fresh'
    <3>1. \A j \in Slots : ~(j < 0)
      BY Sizes
    <3>2. QED
      BY <2>1, <2>2, <3>1 DEF Fresh
  <2>6. Counted'
    BY <2>2, <2>5 DEF Counted
  <2>7. Agree'
    <3>1. ~stale => \A k \in Slots : ~slot[k].valid
      BY <1>0, <2>1 DEF CleanSlots, Restarting
    <3>2. QED
      BY <2>1, <2>2, <3>1 DEF Agree
  <2>8. Taking' /\ CleanSlots' /\ Awake'
    BY <1>0, <2>1 DEF Taking, CleanSlots, Awake, Restarting
  <2>9. QED
    BY <2>3, <2>4, <2>6, <2>7, <2>8 DEF SlotInv
<1>3. QED
  BY <1>1, <1>2

LEMMA SlotSteps == IInv /\ SlotInv /\ [Next]_vars => SlotInv'
<1> SUFFICES ASSUME IInv, SlotInv, [Next]_vars PROVE SlotInv'
  OBVIOUS
<1>1. CASE Start
  BY <1>1, SlotStart
<1>2. CASE PowerCut \/ StartFails
  BY <1>2, SlotDown
<1>3. CASE \/ Record \/ SnapRequest \/ LoggerTake \/ DumpTake \/ EraseTake \/ SnapSkip \/ LoggerDue
           \/ FlushTake \/ OpenErase \/ OpenHead \/ AppendRun \/ CloseBlock \/ CloseReadFails \/ FlushEnd
           \/ EraseQueue
  BY <1>3, SlotQuietSteps
<1>4. CASE SnapErase
  BY <1>4, SlotErase
<1>5. CASE SnapHead
  BY <1>5, SlotHead
<1>6. CASE SnapBody
  BY <1>6, SlotBody
<1>7. CASE EraseFlash \/ EraseReset
  BY <1>7, SlotRestart
<1>8. CASE UNCHANGED vars
  <2>1. UNCHANGED <<slot, meta, snapSeq, ready, stale, pc, trig>>
    BY <1>8 DEF vars, flash, snaps, ghost
  <2>2. Restarting <=> Restarting'
    BY <2>1 DEF Restarting
  <2>3. QED
    BY <2>1, <2>2, SlotQuiet
<1>9. QED
  BY <1>1, <1>2, <1>3, <1>4, <1>5, <1>6, <1>7, <1>8 DEF Next, Step

\* No two complete snapshots carry the same number, whatever operation failed,
\* wherever the power went, and whatever a failed erase left behind
\* (flightlog.c's s_snap_seq and the scan of the slots at boot).
THEOREM SnapshotNumbers == Spec => []SnapshotsNumbered
<1>1. Init => IInv /\ SlotInv
  BY InitIInv, SlotInit
<1>2. IInv /\ SlotInv /\ [Next]_vars => IInv' /\ SlotInv'
  BY StepIInv, SlotSteps
<1>3. SlotInv => SnapshotsNumbered
  BY DEF SlotInv
<1>4. QED
  BY <1>1, <1>2, <1>3, PTL DEF Spec

LEMMA OutliveStep ==
  ASSUME IInv, SlotInv, Next, pc = "snap", ~stale, NEW k \in Slots,
         slot[k].valid, slot[k].whole, slot'[k] # slot[k]
  PROVE  slot[k].trigger <= trig /\ \A j \in Slots : slot[j].valid /\ slot[j].trigger >= slot[k].trigger
<1>0. Agree /\ Awake /\ SnapOK /\ FlashOK
  BY DEF SlotInv, IInv
<1>1. SnapErase
  BY DEF Next, Step, Start, StartFails, PowerCut, Record, SnapRequest, LoggerTake, DumpTake, EraseTake,
     SnapSkip, SnapHead, SnapBody, LoggerDue, FlushTake, OpenErase, OpenHead, AppendRun, CloseBlock,
     CloseReadFails, FlushEnd, EraseFlash, EraseQueue, EraseReset, flash
<1> DEFINE v == Victim
<1>2. v \in Slots /\ NextVictim(v)
  BY <1>0, <1>1, VictimNext DEF SnapErase
<1> HIDE DEF v
<1>3. slot' = [slot EXCEPT ![v] = NoSlot]
  BY <1>1 DEF SnapErase, v
<1>4. k = v
  BY <1>0, <1>2, <1>3 DEF FlashOK
<1>5. Matching(k)
  BY <1>0 DEF Agree, Restarting, Awake
<1>6. \A j \in Slots : meta[j].used /\ Before(k, j)
  BY <1>2, <1>4, <1>5 DEF NextVictim, Matching
<1>7. Trigs \subseteq Nat /\ trig \in Nat
  BY <1>0, TriggersAssumption DEF Trigs, SnapOK
<1>8. \A j \in Slots : meta[j].trigger \in Nat
  BY <1>0, <1>7 DEF SnapOK, MetaRec
<1>9. \A j \in Slots : slot[j].valid /\ slot[j].trigger = meta[j].trigger
  <2> TAKE j \in Slots
  <2>1. CASE j = k
    BY <1>5, <2>1 DEF Matching
  <2>2. CASE j # k
    <3>1. ~NextVictim(j)
      BY <2>2, <1>0, <1>2, <1>4, NextUnique
    <3>2. QED
      BY <1>0, <1>6, <3>1 DEF Agree, Restarting, Awake, Matching
  <2>3. QED
    BY <2>1, <2>2
<1>10. \A j \in Slots : meta[k].trigger <= meta[j].trigger
  BY <1>6, <1>8 DEF Before
<1>11. meta[k].trigger <= trig
  <2>1. Empty = {}
    BY <1>6 DEF Empty
  <2>2. PICK l \in Slots : meta[l].trigger <= trig
    BY <1>1, <2>1 DEF SnapErase, Lesser
  <2>3. QED
    BY <1>7, <1>8, <1>10, <2>2
<1>12. QED
  BY <1>8, <1>9, <1>10, <1>11

\* A complete snapshot leaves flash only for one at least as important, and
\* only when every slot holds a snapshot at least as important as it
\* (flog_snap_victim): for every number of slots, and with snapshots that
\* failed half way or were cut off by a reset in between.
THEOREM SnapshotsOutlive == Spec => ImportantOutlive
<1>1. Init => IInv /\ SlotInv
  BY InitIInv, SlotInit
<1>2. IInv /\ SlotInv /\ [Next]_vars => IInv' /\ SlotInv'
  BY StepIInv, SlotSteps
<1>3. IInv /\ SlotInv /\ [Next]_vars =>
        [ pc = "snap" /\ ~stale => \A k \in Slots :
            slot[k].valid /\ slot[k].whole /\ slot'[k] # slot[k] =>
              /\ slot[k].trigger <= trig
              /\ \A j \in Slots : slot[j].valid /\ slot[j].trigger >= slot[k].trigger ]_vars
  BY OutliveStep
<1>4. QED
  BY <1>1, <1>2, <1>3, PTL DEF Spec, ImportantOutlive

-----------------------------------------------------------------------------
(* The order of the records.                                               *)

Rising(s) == \A i, j \in DOMAIN s : i < j => s[i].id < s[j].id

\* Records are numbered as the queue takes them; a flush takes them on, oldest
\* first, and what is in flash is older than what is on its way.
RamOrder ==
  /\ Rising(buf) /\ Rising(queue)
  /\ \A i \in DOMAIN buf : /\ buf[i].boot = boots /\ buf[i].id <= made
                           /\ \A j \in DOMAIN queue : buf[i].id < queue[j].id
  /\ \A j \in DOMAIN queue : queue[j].boot = boots /\ queue[j].id <= made
FlashOld ==
  \A b \in Blocks : \A r \in InFlash(b) :
    /\ r.id <= made
    /\ \A i \in DOMAIN buf : r.id < buf[i].id
    /\ \A j \in DOMAIN queue : r.id < queue[j].id
BlockRising ==
  \A b \in Blocks : \A i, j \in Places(blk[b].recs) :
    i < j => blk[b].recs[i].id < blk[b].recs[j].id

OrderInv == RamOrder /\ FlashOld /\ BlockRising

\* No step puts a record into flash but the write of a run, which puts the
\* head of the batch behind what the block holds.
Kept ==
  \A b \in Blocks : \A k \in Places(blk'[b].recs) :
    k \in Places(blk[b].recs) /\ blk'[b].recs[k] = blk[b].recs[k]
Wrote ==
  /\ pc = "write" /\ open /\ UNCHANGED <<session, seq, block, open, queue, ready, made, ghost, pc, faults>>
  /\ blk' = [blk EXCEPT ![block].recs = Written]
  /\ used' = used + Run
  /\ buf' = SubSeq(buf, Run + 1, Len(buf))
  /\ Run \in 1 .. Len(buf)
  /\ used <= Len(blk[block].recs)
  /\ \A b \in Blocks \ {block} : blk'[b] = blk[b]
  /\ blk'[block] = [blk[block] EXCEPT !.recs = Written]
  /\ \A k \in Places(blk'[block].recs) :
       \/ k \in Places(blk[block].recs) /\ blk'[block].recs[k] = blk[block].recs[k]
       \/ /\ k > Len(blk[block].recs) /\ k - used \in 1 .. Run
          /\ blk'[block].recs[k] = buf[k - used]

Grows == queue' = Append(queue, [boot |-> boots, id |-> made + 1]) /\ made' = made + 1

\* What a step does with the queue and the batch.
RamMoves ==
  \/ /\ boots' = boots /\ buf' \in {buf, <<>>}
     /\ (queue' \in {queue, <<>>} /\ made' = made) \/ Grows
  \/ boots' = boots /\ made' = made /\ buf' = queue /\ queue' = <<>>
  \/ buf' = <<>> /\ queue' = <<>> /\ made' = made

LEMMA WroteFacts ==
  ASSUME IInv, AppendRun, ~UNCHANGED used
  PROVE  Wrote
<1>1. FlashOK /\ PlaceOK /\ QueueOK /\ OpenOK
  BY DEF IInv
<1>2. /\ pc = "write" /\ open /\ used < FLOG_BLOCK_ROOM /\ buf # <<>>
      /\ blk' = [blk EXCEPT ![block].recs = Written] /\ used' = used + Run
      /\ buf' = SubSeq(buf, Run + 1, Len(buf))
      /\ UNCHANGED <<session, seq, block, open, queue, ready, made, ghost, pc, faults>>
  BY DEF AppendRun
<1>3. used <= Len(blk[block].recs)
  BY <1>1, <1>2 DEF OpenOK
<1>4. Written \in Runs /\ used + Run <= Len(Written) /\ Run \in 1 .. Len(buf) /\ used + Run \in Fill
  BY <1>1, <1>2, <1>3, WrittenType
<1>5. block \in Blocks /\ blk \in [Blocks -> BlockRec]
  BY <1>1 DEF PlaceOK, FlashOK
<1>6. (\A b \in Blocks \ {block} : blk'[b] = blk[b]) /\ blk'[block] = [blk[block] EXCEPT !.recs = Written]
  BY <1>2, <1>5
<1>7. blk'[block].recs = Written
  BY <1>5, <1>6 DEF BlockRec
<1>8. ASSUME NEW k \in Places(Written)
      PROVE  \/ k \in Places(blk[block].recs) /\ Written[k] = blk[block].recs[k]
             \/ /\ k > Len(blk[block].recs) /\ k - used \in 1 .. Run
                /\ Written[k] = buf[k - used]
  <2> DEFINE old == blk[block].recs
             end == IF Len(old) > used + Run THEN Len(old) ELSE used + Run
  <2>1. Written = [i \in 1 .. end |-> IF i <= Len(old) THEN old[i] ELSE buf[i - used]]
    BY DEF Written
  <2>2. old \in Seq(Records) /\ Len(old) \in Nat
    <3>1. old \in Runs
      BY <1>5, <1>1, BlockExcept
    <3>2. old \in Seq(Records)
      BY <3>1 DEF Runs
    <3>3. QED
      BY <3>2
  <2>3. used \in Nat /\ used <= Len(old) /\ Run \in Nat
    BY <1>1, <1>3, <1>4, Sizes DEF PlaceOK, Fill
  <2> HIDE DEF old
  <2>4. end \in Nat /\ (end = Len(old) \/ end = used + Run)
    BY <2>2, <2>3
  <2> HIDE DEF end
  <2>5. k \in 1 .. end /\ Written[k] # Torn
    BY <2>1, <2>4 DEF Places
  <2>6. CASE k <= Len(old)
    <3>1. k \in DOMAIN old
      BY <2>2, <2>4, <2>5, <2>6
    <3>2. Written[k] = old[k]
      BY <2>1, <2>5, <2>6
    <3>3. QED
      BY <2>5, <3>1, <3>2 DEF Places, old
  <2>7. CASE ~(k <= Len(old))
    <3>1. Written[k] = buf[k - used]
      BY <2>1, <2>5, <2>7
    <3>2. end = used + Run /\ k > Len(old)
      BY <2>2, <2>4, <2>5, <2>7
    <3>3. k - used \in 1 .. Run
      BY <2>2, <2>3, <2>5, <2>7, <3>2
    <3>4. QED
      BY <3>1, <3>2, <3>3 DEF old
  <2>8. QED
    BY <2>6, <2>7
<1>9. QED
  BY <1>2, <1>3, <1>4, <1>6, <1>7, <1>8 DEF Wrote

LEMMA CutPlaces ==
  ASSUME NEW s \in Seq(Records), NEW n \in Nat, n <= Len(s),
         NEW k \in Places(SubSeq(s, 1, n) \o <<Torn>>)
  PROVE  k \in Places(s) /\ (SubSeq(s, 1, n) \o <<Torn>>)[k] = s[k]
<1> DEFINE cut == SubSeq(s, 1, n)
<1>1. cut \in Seq(Records) /\ Len(cut) = n /\ \A i \in 1 .. n : cut[i] = s[i]
  OBVIOUS
<1>2. k \in DOMAIN (cut \o <<Torn>>) /\ (cut \o <<Torn>>)[k] # Torn
  BY DEF Places
<1> HIDE DEF cut
<1>3. DOMAIN (cut \o <<Torn>>) = 1 .. n + 1 /\ (cut \o <<Torn>>)[n + 1] = Torn
      /\ \A i \in 1 .. n : (cut \o <<Torn>>)[i] = cut[i]
  <2>1. <<Torn>> \in Seq(Records) /\ Len(<<Torn>>) = 1 /\ <<Torn>>[1] = Torn
    BY Sizes
  <2>2. QED
    BY <1>1, <2>1
<1>4. k \in 1 .. n
  BY <1>2, <1>3
<1>5. k \in DOMAIN s /\ (cut \o <<Torn>>)[k] = s[k]
  BY <1>1, <1>3, <1>4
<1>6. QED
  BY <1>2, <1>5 DEF Places, cut

LEMMA StepKept ==
  ASSUME IInv, [Next]_vars
  PROVE  Kept \/ (AppendRun /\ ~UNCHANGED used)
<1>1. FlashOK /\ PlaceOK /\ QueueOK /\ OpenOK /\ block \in Blocks /\ blk \in [Blocks -> BlockRec]
  BY DEF IInv, PlaceOK, FlashOK
<1>2. CASE UNCHANGED blk
  BY <1>2 DEF Kept
<1>3. CASE \A b \in Blocks : blk'[b].recs \in {blk[b].recs, <<>>}
  BY <1>3 DEF Kept, Places
<1>4. CASE PowerCut
  <2>1. CASE UNCHANGED blk
    BY <2>1, <1>2
  <2>2. ASSUME NEW h \in TornHeads,
               blk' = [blk EXCEPT ![block].valid = TRUE, ![block].session = h.s, ![block].seq = h.q]
        PROVE  Kept
    <3>1. \A b \in Blocks : blk'[b].recs = blk[b].recs
      BY <1>1, <2>2 DEF BlockRec
    <3>2. QED
      BY <3>1 DEF Kept, Places
  <2>3. ASSUME pc = "write", open, blk' = [blk EXCEPT ![block].recs = SubSeq(@, 1, used) \o <<Torn>>]
        PROVE  Kept
    <3>1. blk[block].recs \in Seq(Records) /\ used \in Nat /\ used <= Len(blk[block].recs)
      <4>1. blk[block].recs \in Runs
        BY <1>1, BlockExcept
      <4>2. used <= Len(blk[block].recs)
        BY <1>1, <2>3 DEF OpenOK
      <4>3. used \in Nat
        BY <1>1, Sizes DEF PlaceOK, Fill
      <4>4. QED
        BY <4>1, <4>2, <4>3 DEF Runs
    <3>2. blk'[block].recs = SubSeq(blk[block].recs, 1, used) \o <<Torn>>
      BY <1>1, <2>3 DEF BlockRec
    <3>3. \A b \in Blocks \ {block} : blk'[b] = blk[b]
      BY <1>1, <2>3
    <3>4. ASSUME NEW b \in Blocks, NEW k \in Places(blk'[b].recs)
          PROVE  k \in Places(blk[b].recs) /\ blk'[b].recs[k] = blk[b].recs[k]
      <4>1. CASE b = block
        <5> DEFINE cut == SubSeq(blk[block].recs, 1, used) \o <<Torn>>
        <5>1. blk'[b].recs = cut /\ k \in Places(cut)
          BY <4>1, <3>2, <3>4
        <5>2. k \in Places(blk[block].recs) /\ cut[k] = blk[block].recs[k]
          BY <3>1, <5>1, CutPlaces
        <5> HIDE DEF cut
        <5>3. QED
          BY <4>1, <5>1, <5>2
      <4>2. CASE b # block
        BY <4>2, <3>3, <3>4
      <4>3. QED
        BY <4>1, <4>2
    <3>5. QED
      BY <3>4 DEF Kept
  <2>4. QED
    BY <1>4, <2>1, <2>2, <2>3 DEF PowerCut
<1>5. CASE OpenErase \/ OpenHead \/ CloseBlock
  <2>1. NoBlock.recs = <<>>
    BY DEF NoBlock
  <2>2. \A b \in Blocks : blk'[b].recs \in {blk[b].recs, <<>>}
    BY <1>1, <1>5, <2>1 DEF OpenErase, OpenHead, CloseBlock, BlockRec
  <2>3. QED
    BY <1>3, <2>2
<1>6. CASE EraseFlash
  <2>1. NoBlock.recs = <<>>
    BY DEF NoBlock
  <2>2. \A b \in Blocks : blk'[b].recs \in {blk[b].recs, <<>>}
    BY <1>6, <2>1 DEF EraseFlash
  <2>3. QED
    BY <1>3, <2>2
<1>7. CASE AppendRun /\ UNCHANGED used
  <2>1. CASE UNCHANGED blk
    BY <2>1, <1>2
  <2>2. CASE blk' = [blk EXCEPT ![block].recs = Append(@, Torn)]
    <3> DEFINE old == blk[block].recs
    <3>1. old \in Seq(Records) /\ Len(old) \in Nat
      <4>1. old \in Seq(Records)
        BY <1>1, BlockExcept DEF Runs
      <4>2. QED
        BY <4>1
    <3>2. blk'[block].recs = Append(old, Torn) /\ \A b \in Blocks \ {block} : blk'[b] = blk[b]
      BY <1>1, <2>2 DEF BlockRec
    <3>3. \A k \in Places(Append(old, Torn)) : k \in Places(old) /\ Append(old, Torn)[k] = old[k]
      <4> HIDE DEF old
      <4>1. DOMAIN Append(old, Torn) = 1 .. Len(old) + 1 /\ Append(old, Torn)[Len(old) + 1] = Torn
            /\ (\A i \in 1 .. Len(old) : Append(old, Torn)[i] = old[i]) /\ DOMAIN old = 1 .. Len(old)
        BY <3>1, Sizes
      <4>2. QED
        BY <3>1, <4>1 DEF Places
    <3>4. QED
      BY <3>2, <3>3 DEF Kept
  <2>3. CASE used' = used + Run /\ blk' = [blk EXCEPT ![block].recs = Written]
    <3>1. Run \in 1 .. Len(buf) /\ used \in Nat
      BY <1>1, <1>7, WrittenType, Sizes DEF AppendRun, OpenOK, PlaceOK, Fill
    <3>2. Len(buf) \in Nat
      BY <1>1 DEF QueueOK, Lines
    <3>3. FALSE
      BY <1>7, <2>3, <3>1, <3>2
    <3>4. QED
      BY <3>3
  <2>4. QED
    BY <1>7, <2>1, <2>2, <2>3 DEF AppendRun
<1>8. CASE \/ Start \/ StartFails \/ Record \/ SnapRequest \/ LoggerTake \/ DumpTake \/ EraseTake
           \/ SnapSkip \/ SnapErase \/ SnapHead \/ SnapBody \/ LoggerDue \/ FlushTake \/ CloseReadFails
           \/ FlushEnd \/ EraseQueue \/ EraseReset \/ UNCHANGED vars
  <2>1. UNCHANGED blk
    BY <1>8 DEF Start, StartFails, Record, SnapRequest, LoggerTake, DumpTake, EraseTake,
       SnapSkip, SnapErase, SnapHead, SnapBody, LoggerDue, FlushTake, CloseReadFails,
       FlushEnd, EraseQueue, EraseReset, flash, vars
  <2>2. QED
    BY <1>2, <2>1
<1>9. QED
  BY <1>4, <1>5, <1>6, <1>7, <1>8 DEF Next, Step

LEMMA EnqueueMoves ==
  ASSUME Enqueue(queue)
  PROVE  (queue' = queue /\ made' = made) \/ Grows
  BY DEF Enqueue, Grows

LEMMA StepMoves ==
  ASSUME IInv, [Next]_vars
  PROVE  RamMoves \/ (AppendRun /\ ~UNCHANGED used)
<1>1. CASE Record \/ SnapBody \/ EraseReset \/ Start
  <2>1. boots' = boots /\ buf' = buf
    BY <1>1 DEF Record, SnapBody, EraseReset, Start, ghost
  <2>2. Enqueue(queue) \/ UNCHANGED <<queue, made>>
    BY <1>1 DEF Record, SnapBody, EraseReset, Start
  <2>3. QED
    BY <2>1, <2>2, EnqueueMoves DEF RamMoves
<1>2. CASE FlushEnd
  <2>1. boots' = boots /\ buf' = buf
    BY <1>2 DEF FlushEnd, ghost
  <2>2. Grows \/ UNCHANGED <<queue, made>>
    BY <1>2 DEF FlushEnd, Grows
  <2>3. QED
    BY <2>1, <2>2 DEF RamMoves
<1>3. CASE FlushTake
  BY <1>3 DEF FlushTake, RamMoves, ghost
<1>4. CASE PowerCut
  BY <1>4 DEF PowerCut, RamMoves
<1>5. CASE OpenErase \/ OpenHead \/ CloseBlock \/ CloseReadFails \/ EraseFlash \/ EraseQueue
  <2>1. boots' = boots /\ made' = made /\ buf' \in {buf, <<>>} /\ queue' \in {queue, <<>>}
    BY <1>5 DEF OpenErase, OpenHead, CloseBlock, CloseReadFails, EraseFlash, EraseQueue, GiveUp, ghost
  <2>2. QED
    BY <2>1 DEF RamMoves
<1>6. CASE AppendRun /\ UNCHANGED used
  <2>1. CASE GiveUp
    BY <1>6, <2>1 DEF AppendRun, GiveUp, ghost, RamMoves
  <2>2. CASE ~GiveUp
    <3>1. used' = used + Run /\ used < FLOG_BLOCK_ROOM /\ buf # <<>> /\ open /\ pc = "write"
      BY <1>6, <2>2 DEF AppendRun
    <3>2. Run \in 1 .. Len(buf) /\ used \in Nat /\ Len(buf) \in Nat
      <4>1. FlashOK /\ PlaceOK /\ QueueOK /\ OpenOK
        BY DEF IInv
      <4>2. used <= Len(blk[block].recs)
        BY <3>1, <4>1 DEF OpenOK
      <4>3. Run \in 1 .. Len(buf)
        BY <3>1, <4>1, <4>2, WrittenType
      <4>4. used \in Nat /\ Len(buf) \in Nat
        BY <4>1, Sizes DEF PlaceOK, Fill, QueueOK, Lines
      <4>5. QED
        BY <4>3, <4>4
    <3>3. FALSE
      BY <1>6, <3>1, <3>2
    <3>4. QED
      BY <3>3
  <2>3. QED
    BY <2>1, <2>2
<1>7. CASE \/ StartFails \/ SnapRequest \/ LoggerTake \/ DumpTake \/ EraseTake
           \/ SnapSkip \/ SnapErase \/ SnapHead \/ LoggerDue \/ UNCHANGED vars
  <2>1. UNCHANGED <<queue, buf, made, boots>>
    BY <1>7 DEF StartFails, SnapRequest, LoggerTake, DumpTake, EraseTake,
       SnapSkip, SnapErase, SnapHead, LoggerDue, ghost, vars
  <2>2. QED
    BY <2>1 DEF RamMoves
<1>8. QED
  BY <1>1, <1>2, <1>3, <1>4, <1>5, <1>6, <1>7 DEF Next, Step

LEMMA InFlashKept ==
  ASSUME Kept, NEW b \in Blocks
  PROVE  InFlash(b)' \subseteq InFlash(b)
  BY DEF Kept, InFlash

LEMMA OrderKept ==
  ASSUME IInv, OrderInv, Kept, RamMoves
  PROVE  OrderInv'
<1>0. RamOrder /\ FlashOld /\ BlockRising
  BY DEF OrderInv
<1>1. BlockRising'
  BY <1>0 DEF BlockRising, Kept
<1>2. /\ queue \in Seq(Records) /\ buf \in Seq(Records) /\ made \in Nat
      /\ Len(queue) \in Nat /\ Len(buf) \in Nat
  <2>1. queue \in Seq(Records) /\ buf \in Seq(Records) /\ made \in Nat
    BY DEF IInv, QueueOK, CountOK, Lines
  <2>2. QED
    BY <2>1
<1>3. /\ \A j \in DOMAIN queue : queue[j].id \in Nat
      /\ \A i \in DOMAIN buf : buf[i].id \in Nat
  <2>1. /\ \A j \in DOMAIN queue : queue[j] \in Records
        /\ \A i \in DOMAIN buf : buf[i] \in Records
    BY <1>2
  <2>2. QED
    BY <2>1 DEF Records
<1>4. DOMAIN <<>> = {}
  OBVIOUS
<1>5. \A b \in Blocks : \A r \in InFlash(b)' : r \in InFlash(b)
  BY InFlashKept
<1>6. CASE boots' = boots /\ buf' \in {buf, <<>>} /\ queue' \in {queue, <<>>} /\ made' = made
  <2>1. RamOrder'
    BY <1>0, <1>4, <1>6 DEF RamOrder, Rising
  <2>2. FlashOld'
    BY <1>0, <1>4, <1>5, <1>6 DEF FlashOld
  <2>3. QED
    BY <1>1, <2>1, <2>2 DEF OrderInv
<1>7. CASE boots' = boots /\ buf' \in {buf, <<>>} /\ Grows
  <2> DEFINE r == [boot |-> boots, id |-> made + 1]
             n == Len(queue)
  <2>1. r \in Records /\ r.id = made + 1 /\ r.boot = boots
    BY <1>2 DEF IInv, CountOK, Records
  <2>2. queue' = Append(queue, r) /\ made' = made + 1
    BY <1>7 DEF Grows
  <2> HIDE DEF r
  <2>3. DOMAIN queue' = 1 .. n + 1 /\ queue'[n + 1] = r /\ DOMAIN queue = 1 .. n
        /\ \A j \in 1 .. n : queue'[j] = queue[j]
    BY <1>2, <2>1, <2>2
  <2>4. n \in Nat
    BY <1>2
  <2> HIDE DEF n
  <2>5. Rising(queue')
    <3> SUFFICES ASSUME NEW i \in 1 .. n + 1, NEW j \in 1 .. n + 1, i < j
                 PROVE  queue'[i].id < queue'[j].id
      BY <2>3 DEF Rising
    <3>1. i \in 1 .. n /\ queue'[i] = queue[i]
      BY <2>3, <2>4
    <3>2. CASE j \in 1 .. n
      BY <3>1, <3>2, <1>0, <2>3 DEF RamOrder, Rising
    <3>3. CASE j = n + 1
      <4>1. queue[i].id <= made /\ queue[i].id \in Nat
        BY <3>1, <1>0, <1>3, <2>3 DEF RamOrder
      <4>2. QED
        BY <3>1, <3>3, <4>1, <2>1, <2>3, <1>2
    <3>4. QED
      BY <3>2, <3>3, <2>4
  <2>6. \A j \in DOMAIN queue' : queue'[j].boot = boots /\ queue'[j].id <= made + 1
    <3> SUFFICES ASSUME NEW j \in 1 .. n + 1
                 PROVE  queue'[j].boot = boots /\ queue'[j].id <= made + 1
      BY <2>3
    <3>1. CASE j \in 1 .. n
      <4>1. queue[j].id <= made /\ queue[j].id \in Nat /\ queue[j].boot = boots
        BY <3>1, <1>0, <1>3, <2>3 DEF RamOrder
      <4>2. QED
        BY <3>1, <4>1, <2>3, <1>2
    <3>2. CASE j = n + 1
      BY <3>2, <2>1, <2>3, <1>2
    <3>3. QED
      BY <3>1, <3>2, <2>4
  \* What came before the whole queue comes before the new record as well.
  <2>7. ASSUME NEW x \in Nat, x <= made, \A j \in DOMAIN queue : x < queue[j].id
        PROVE  x <= made + 1 /\ \A j \in DOMAIN queue' : x < queue'[j].id
    <3>1. \A j \in 1 .. n + 1 : x < queue'[j].id
      <4> TAKE j \in 1 .. n + 1
      <4>1. CASE j \in 1 .. n
        BY <4>1, <2>3, <2>7
      <4>2. CASE j = n + 1
        BY <4>2, <2>1, <2>3, <1>2, <2>7
      <4>3. QED
        BY <4>1, <4>2, <2>4
    <3>2. QED
      BY <3>1, <2>3, <2>7, <1>2
  <2>8. \A i \in DOMAIN buf : buf[i].id <= made + 1 /\ \A j \in DOMAIN queue' : buf[i].id < queue'[j].id
    BY <1>0, <1>3, <2>7 DEF RamOrder
  <2>9. RamOrder'
    <3>1. Rising(buf')
      BY <1>0, <1>4, <1>7 DEF RamOrder, Rising
    <3>2. \A i \in DOMAIN buf' : /\ buf'[i].boot = boots /\ buf'[i].id <= made + 1
                                 /\ \A j \in DOMAIN queue' : buf'[i].id < queue'[j].id
      <4>1. CASE buf' = buf
        BY <4>1, <1>0, <2>8 DEF RamOrder
      <4>2. CASE buf' = <<>>
        BY <4>2, <1>4
      <4>3. QED
        BY <1>7, <4>1, <4>2
    <3>3. Rising(queue)'
      BY <2>5 DEF Rising
    <3>4. Rising(buf)'
      BY <3>1 DEF Rising
    <3>5. QED
      BY <3>2, <3>3, <3>4, <2>2, <2>6, <1>7 DEF RamOrder
  <2>10. FlashOld'
    <3> SUFFICES ASSUME NEW b \in Blocks, NEW q \in InFlash(b)'
                 PROVE  /\ q.id <= made + 1
                        /\ \A i \in DOMAIN buf' : q.id < buf'[i].id
                        /\ \A j \in DOMAIN queue' : q.id < queue'[j].id
      BY <2>2 DEF FlashOld
    <3>1. q \in InFlash(b)
      BY <1>5
    <3>2. q.id \in Nat
      <4>1. InFlash(b) \subseteq Records
        BY IInvType DEF TypeOK
      <4>2. QED
        BY <3>1, <4>1 DEF Records
    <3>3. q.id <= made + 1 /\ \A j \in DOMAIN queue' : q.id < queue'[j].id
      BY <1>0, <2>7, <3>1, <3>2 DEF FlashOld
    <3>4. \A i \in DOMAIN buf' : q.id < buf'[i].id
      BY <1>0, <1>4, <1>7, <3>1 DEF FlashOld
    <3>5. QED
      BY <3>3, <3>4
  <2>11. QED
    BY <1>1, <2>9, <2>10 DEF OrderInv
<1>8. CASE boots' = boots /\ made' = made /\ buf' = queue /\ queue' = <<>>
  <2>1. RamOrder'
    BY <1>0, <1>4, <1>8 DEF RamOrder, Rising
  <2>2. FlashOld'
    BY <1>0, <1>4, <1>5, <1>8 DEF FlashOld
  <2>3. QED
    BY <1>1, <2>1, <2>2 DEF OrderInv
<1>9. CASE buf' = <<>> /\ queue' = <<>> /\ made' = made
  <2>1. RamOrder'
    BY <1>4, <1>9 DEF RamOrder, Rising
  <2>2. FlashOld'
    BY <1>0, <1>4, <1>5, <1>9 DEF FlashOld
  <2>3. QED
    BY <1>1, <2>1, <2>2 DEF OrderInv
<1>10. QED
  BY <1>6, <1>7, <1>8, <1>9 DEF RamMoves

\* The write of a run: the head of the batch goes behind what the block holds.
LEMMA OrderWrote ==
  ASSUME IInv, IInv', OrderInv, Wrote
  PROVE  OrderInv'
<1>0. RamOrder /\ FlashOld /\ BlockRising
  BY DEF OrderInv
<1> DEFINE n == Run
           old == blk[block].recs
           new == blk'[block].recs
<1>1. /\ UNCHANGED <<block, queue, made, boots>> /\ n \in 1 .. Len(buf) /\ used <= Len(old)
      /\ buf' = SubSeq(buf, n + 1, Len(buf))
      /\ \A b \in Blocks \ {block} : blk'[b] = blk[b]
      /\ \A k \in Places(new) :
           \/ k \in Places(old) /\ new[k] = old[k]
           \/ k > Len(old) /\ k - used \in 1 .. n /\ new[k] = buf[k - used]
  BY DEF Wrote, ghost
<1>2. /\ buf \in Seq(Records) /\ queue \in Seq(Records) /\ old \in Seq(Records) /\ block \in Blocks
      /\ used \in Nat /\ Len(buf) \in Nat /\ Len(old) \in Nat
  <2>1. FlashOK /\ PlaceOK /\ QueueOK /\ block \in Blocks
    BY DEF IInv, PlaceOK
  <2>2. old \in Runs
    BY <2>1, BlockExcept
  <2>3. buf \in Seq(Records) /\ queue \in Seq(Records) /\ old \in Seq(Records)
    BY <2>1, <2>2 DEF QueueOK, Lines, Runs
  <2>4. used \in Nat
    BY <2>1, Sizes DEF PlaceOK, Fill
  <2>5. QED
    BY <2>1, <2>3, <2>4
<1> HIDE DEF n, old, new
<1>3. \A i \in DOMAIN buf : buf[i].id \in Nat
  <2>1. \A i \in DOMAIN buf : buf[i] \in Records
    BY <1>2
  <2>2. QED
    BY <2>1 DEF Records
<1>4. /\ DOMAIN buf' = 1 .. Len(buf) - n /\ n \in Nat /\ DOMAIN buf = 1 .. Len(buf)
      /\ \A i \in 1 .. Len(buf) - n : i + n \in DOMAIN buf /\ buf'[i] = buf[i + n]
  BY <1>1, <1>2
<1>5. RamOrder'
  <2>1. Rising(buf)'
    <3> SUFFICES ASSUME NEW i \in DOMAIN buf', NEW j \in DOMAIN buf', i < j
                 PROVE  buf'[i].id < buf'[j].id
      BY DEF Rising
    <3>1. i + n < j + n /\ i + n \in DOMAIN buf /\ j + n \in DOMAIN buf
      BY <1>2, <1>4
    <3>2. QED
      BY <1>0, <1>4, <3>1 DEF RamOrder, Rising
  <2>2. Rising(queue)'
    BY <1>0, <1>1 DEF RamOrder, Rising
  <2>3. \A i \in DOMAIN buf' : /\ buf'[i].boot = boots /\ buf'[i].id <= made
                               /\ \A j \in DOMAIN queue : buf'[i].id < queue[j].id
    BY <1>0, <1>4 DEF RamOrder
  <2>4. \A j \in DOMAIN queue : queue[j].boot = boots /\ queue[j].id <= made
    BY <1>0 DEF RamOrder
  <2>5. QED
    BY <1>1, <2>1, <2>2, <2>3, <2>4 DEF RamOrder
\* The records of the run come before the rest of the batch and the queue.
<1>6. ASSUME NEW m \in 1 .. n
      PROVE  /\ m \in DOMAIN buf /\ buf[m].id <= made
             /\ \A i \in DOMAIN buf' : buf[m].id < buf'[i].id
             /\ \A j \in DOMAIN queue : buf[m].id < queue[j].id
  <2>1. m \in DOMAIN buf
    BY <1>1, <1>2, <1>4
  <2>2. ASSUME NEW i \in DOMAIN buf' PROVE buf[m].id < buf'[i].id
    <3>1. m < i + n /\ i + n \in DOMAIN buf
      BY <1>2, <1>4
    <3>2. QED
      BY <1>0, <1>4, <2>1, <3>1 DEF RamOrder, Rising
  <2>3. QED
    BY <1>0, <2>1, <2>2 DEF RamOrder
<1>7. ASSUME NEW b \in Blocks, NEW r \in InFlash(b)'
      PROVE  r \in InFlash(b) \/ \E m \in 1 .. n : r = buf[m]
  <2>1. PICK k \in Places(blk'[b].recs) : r = blk'[b].recs[k]
    BY DEF InFlash
  <2>2. CASE b = block
    <3>1. k \in Places(new) /\ r = new[k]
      BY <2>1, <2>2 DEF new
    <3>2. \/ k \in Places(old) /\ r = old[k]
          \/ k - used \in 1 .. n /\ r = buf[k - used]
      BY <1>1, <3>1
    <3>3. QED
      BY <2>2, <3>2 DEF InFlash, old
  <2>3. CASE b # block
    BY <1>1, <2>1, <2>3 DEF InFlash
  <2>4. QED
    BY <2>2, <2>3
<1>8. FlashOld'
  <2> SUFFICES ASSUME NEW b \in Blocks, NEW r \in InFlash(b)'
               PROVE  /\ r.id <= made
                      /\ \A i \in DOMAIN buf' : r.id < buf'[i].id
                      /\ \A j \in DOMAIN queue : r.id < queue[j].id
    BY <1>1 DEF FlashOld
  <2>1. CASE r \in InFlash(b)
    <3>1. \A i \in DOMAIN buf' : r.id < buf'[i].id
      BY <2>1, <1>0, <1>4 DEF FlashOld
    <3>2. QED
      BY <2>1, <3>1, <1>0 DEF FlashOld
  <2>2. CASE \E m \in 1 .. n : r = buf[m]
    BY <2>2, <1>6
  <2>3. QED
    BY <2>1, <2>2, <1>7
<1>9. BlockRising'
  <2>0. Places(new) \subseteq Nat
    <3>1. new \in Runs
      BY <1>1, <1>2 DEF IInv, FlashOK, BlockRec, new
    <3>2. new \in Seq(Records)
      BY <3>1 DEF Runs
    <3>3. QED
      BY <3>2 DEF Places
  <2>1. ASSUME NEW i \in Places(new), NEW j \in Places(new), i < j
        PROVE  new[i].id < new[j].id
    <3>0. Places(old) \subseteq 1 .. Len(old)
      BY <1>2 DEF Places
    <3>1. CASE i \in Places(old) /\ new[i] = old[i] /\ j \in Places(old) /\ new[j] = old[j]
      BY <3>1, <2>1, <1>0, <1>2 DEF BlockRising, old
    <3>2. CASE /\ i \in Places(old) /\ new[i] = old[i]
               /\ j > Len(old) /\ j - used \in 1 .. n /\ new[j] = buf[j - used]
      <4>1. old[i] \in InFlash(block)
        BY <3>2 DEF InFlash, old
      <4>2. j - used \in DOMAIN buf
        BY <3>2, <1>6
      <4>3. QED
        BY <3>2, <4>1, <4>2, <1>0, <1>2 DEF FlashOld
    <3>3. CASE /\ i > Len(old) /\ i - used \in 1 .. n /\ new[i] = buf[i - used]
               /\ j > Len(old) /\ j - used \in 1 .. n /\ new[j] = buf[j - used]
      <4>1. i - used \in DOMAIN buf /\ j - used \in DOMAIN buf /\ i - used < j - used
        <5>1. i - used \in DOMAIN buf /\ j - used \in DOMAIN buf
          BY <3>3, <1>6
        <5>2. QED
          BY <5>1, <2>1, <2>0, <1>2
      <4>2. QED
        BY <3>3, <4>1, <1>0 DEF RamOrder, Rising
    <3>4. CASE /\ i > Len(old) /\ j \in Places(old)
      BY <3>0, <3>4, <2>0, <2>1, <1>2
    <3>5. QED
      BY <3>1, <3>2, <3>3, <3>4, <1>1
  <2>2. QED
    BY <2>1, <1>0, <1>1 DEF BlockRising, new
<1>10. QED
  BY <1>5, <1>8, <1>9 DEF OrderInv

LEMMA OrderInit == Init => OrderInv
<1> SUFFICES ASSUME Init PROVE OrderInv
  OBVIOUS
<1>1. queue = <<>> /\ buf = <<>> /\ \A b \in Blocks : blk[b].recs = <<>>
  BY DEF Init, NoBlock
<1>2. DOMAIN <<>> = {}
  OBVIOUS
<1>3. \A b \in Blocks : Places(blk[b].recs) = {} /\ InFlash(b) = {}
  BY <1>1, <1>2 DEF Places, InFlash
<1>4. RamOrder
  BY <1>1, <1>2 DEF RamOrder, Rising
<1>5. FlashOld /\ BlockRising
  BY <1>3 DEF FlashOld, BlockRising
<1>6. QED
  BY <1>4, <1>5 DEF OrderInv

LEMMA OrderStep ==
  ASSUME IInv, IInv', OrderInv, [Next]_vars
  PROVE  OrderInv'
<1>1. CASE AppendRun /\ ~UNCHANGED used
  BY <1>1, WroteFacts, OrderWrote
<1>2. CASE ~(AppendRun /\ ~UNCHANGED used)
  BY <1>2, StepKept, StepMoves, OrderKept
<1>3. QED
  BY <1>1, <1>2

-----------------------------------------------------------------------------
(* The heads of the blocks, as long as the 32-bit words have not come round *)
(* and no torn head is left by a power cut.                                 *)

\* 2^32 blocks or boots are out of the flash's reach by orders of magnitude.
NoWrap == session < Erased /\ seq < Erased

\* How far behind block p block b was written, going round the ring backwards.
Back(p, b) == IF b < p THEN p - b ELSE p + FLOG_RECORD_BLOCKS - b
Succ(b) == IF b = FLOG_RECORD_BLOCKS - 1 THEN 0 ELSE b + 1

\* The valid blocks lie behind p without a gap, and number down from q.
ArcAt(p, q) ==
  \A b \in Blocks : blk[b].valid =>
    /\ blk[b].seq + Back(p, b) = q
    /\ \A c \in Blocks : Back(p, c) < Back(p, b) => blk[c].valid
TopBlock == IF open THEN Succ(block) ELSE block
TopSeq == IF open THEN seq + 1 ELSE seq

RecsValid == \A b \in Blocks : ~blk[b].valid => blk[b].recs = <<>>
HeadLow == \A b \in Blocks : blk[b].session < Erased /\ blk[b].seq < Erased
HeadClean == pc = "head" => ~open /\ ~blk[block].valid
OpenHere ==
  open /\ ~Restarting => blk[block].valid /\ blk[block].session = session /\ blk[block].seq = seq
DownClosed == ~ready => ~open
\* The session of the boot is the newest, and its blocks are the boot's own.
Current ==
  ready => \A b \in Blocks : blk[b].valid =>
    /\ blk[b].session <= session
    /\ blk[b].session = session =>
         /\ blk[b].seq < seq \/ (open /\ b = block /\ blk[b].seq = seq)
         /\ \A r \in InFlash(b) : r.boot = boots
OneBoot ==
  \A b, c \in Blocks : blk[b].valid /\ blk[c].valid /\ blk[b].session = blk[c].session =>
    /\ \A r \in InFlash(b), q \in InFlash(c) : r.boot = q.boot
    /\ b # c => blk[b].seq # blk[c].seq
\* Sequence numbers order the records within a session, and over the whole
\* ring unless a failed erase left blocks of an older numbering.
SeqOrder ==
  \A b, c \in Blocks :
    /\ blk[b].valid /\ blk[c].valid /\ blk[b].seq < blk[c].seq
    /\ ~stale \/ blk[b].session = blk[c].session
    => \A r \in InFlash(b), q \in InFlash(c) : r.id < q.id
CleanBlocks == ~stale /\ Restarting => \A b \in Blocks : ~blk[b].valid
Arc == ~stale => IF ready THEN ArcAt(TopBlock, TopSeq) ELSE \E p \in Blocks, q \in Nat : ArcAt(p, q)

HeadInv == /\ RecsValid /\ HeadLow /\ HeadClean /\ OpenHere /\ DownClosed
           /\ Current /\ OneBoot /\ SeqOrder /\ CleanBlocks /\ Arc

LEMMA InvalidEmpty ==
  ASSUME RecsValid, NEW b \in Blocks, ~blk[b].valid
  PROVE  InFlash(b) = {}
<1>1. blk[b].recs = <<>> /\ DOMAIN <<>> = {}
  BY DEF RecsValid
<1>2. QED
  BY <1>1 DEF InFlash, Places

LEMMA Around ==
  ASSUME NEW p \in Blocks
  PROVE  /\ FLOG_RECORD_BLOCKS \in Nat /\ p \in Nat
         /\ Succ(p) \in Blocks /\ (p + 1) % FLOG_RECORD_BLOCKS = Succ(p)
         /\ Back(p, p) = FLOG_RECORD_BLOCKS /\ Back(Succ(p), p) = 1
         /\ \A b \in Blocks : /\ b \in Nat /\ Back(p, b) \in 1 .. FLOG_RECORD_BLOCKS
                              /\ b # p => Back(p, b) < FLOG_RECORD_BLOCKS
                              /\ b # p => Back(Succ(p), b) = Back(p, b) + 1
                              /\ Back(p, b) = 1 => Succ(b) = p
         /\ \E b \in Blocks : Back(p, b) = 1
<1>1. FLOG_RECORD_BLOCKS \in Nat /\ FLOG_RECORD_BLOCKS > 0 /\ p \in 0 .. FLOG_RECORD_BLOCKS - 1
  BY Sizes DEF Blocks
<1>2. Succ(p) \in Blocks /\ Back(p, p) = FLOG_RECORD_BLOCKS /\ Back(Succ(p), p) = 1
  BY <1>1 DEF Succ, Back, Blocks
<1>3. (p + 1) % FLOG_RECORD_BLOCKS = Succ(p)
  <2>1. CASE p = FLOG_RECORD_BLOCKS - 1
    <3>1. p + 1 = FLOG_RECORD_BLOCKS
      BY <1>1, <2>1
    <3>2. FLOG_RECORD_BLOCKS % FLOG_RECORD_BLOCKS = 0
      BY <1>1
    <3>3. QED
      BY <2>1, <3>1, <3>2 DEF Succ
  <2>2. CASE p # FLOG_RECORD_BLOCKS - 1
    <3>1. p + 1 \in 0 .. FLOG_RECORD_BLOCKS - 1
      BY <1>1, <2>2
    <3>2. (p + 1) % FLOG_RECORD_BLOCKS = p + 1
      BY <1>1, <3>1
    <3>3. QED
      BY <2>2, <3>2 DEF Succ
  <2>3. QED
    BY <2>1, <2>2
<1>4. ASSUME NEW b \in Blocks
      PROVE  /\ b \in Nat /\ Back(p, b) \in 1 .. FLOG_RECORD_BLOCKS
             /\ b # p => Back(p, b) < FLOG_RECORD_BLOCKS
             /\ b # p => Back(Succ(p), b) = Back(p, b) + 1
             /\ Back(p, b) = 1 => Succ(b) = p
  BY <1>1 DEF Back, Succ, Blocks
<1>5. \E b \in Blocks : Back(p, b) = 1
  <2>1. CASE p = 0
    <3>1. FLOG_RECORD_BLOCKS - 1 \in Blocks /\ Back(p, FLOG_RECORD_BLOCKS - 1) = 1
      BY <1>1, <2>1 DEF Back, Blocks
    <3>2. QED
      BY <3>1
  <2>2. CASE p # 0
    <3>1. p - 1 \in Blocks /\ Back(p, p - 1) = 1
      BY <1>1, <2>2 DEF Back, Blocks
    <3>2. QED
      BY <3>1
  <2>3. QED
    BY <2>1, <2>2
<1>6. QED
  BY <1>1, <1>2, <1>3, <1>4, <1>5

\* The numbers, for the steps below.
LEMMA HeadTypes ==
  ASSUME IInv
  PROVE  /\ blk \in [Blocks -> BlockRec] /\ block \in Blocks /\ session \in Nat /\ seq \in Nat
         /\ Erased \in Nat /\ FLOG_RECORD_BLOCKS \in Nat /\ TopBlock \in Blocks /\ TopSeq \in Nat
         /\ \A b \in Blocks : /\ blk[b].session \in Nat /\ blk[b].seq \in Nat /\ blk[b].valid \in BOOLEAN
                              /\ InFlash(b) \subseteq Records
<1>1. blk \in [Blocks -> BlockRec] /\ block \in Blocks /\ session \in Nat /\ seq \in Nat
      /\ Erased \in Nat /\ FLOG_RECORD_BLOCKS \in Nat
  BY Sizes DEF IInv, FlashOK, PlaceOK
<1>2. TopBlock \in Blocks /\ TopSeq \in Nat
  BY <1>1, Around DEF TopBlock, TopSeq
<1>3. \A b \in Blocks : blk[b].session \in Nat /\ blk[b].seq \in Nat /\ blk[b].valid \in BOOLEAN
  BY <1>1, Sizes DEF BlockRec, Bits
<1>4. \A b \in Blocks : InFlash(b) \subseteq Records
  BY IInvType DEF TypeOK
<1>5. QED
  BY <1>1, <1>2, <1>3, <1>4

\* A step that leaves the heads and the place alone, and adds no record.
Still ==
  /\ Kept
  /\ \A b \in Blocks : /\ blk'[b].valid = blk[b].valid
                       /\ blk'[b].session = blk[b].session /\ blk'[b].seq = blk[b].seq
                       /\ blk'[b].recs = blk[b].recs \/ blk[b].valid
  /\ UNCHANGED <<session, seq, block, open, ready, boots, stale>>
  /\ Restarting <=> Restarting'
  /\ pc' = "head" => pc = "head"

LEMMA HeadStill ==
  ASSUME IInv, HeadInv, Still
  PROVE  HeadInv'
<1>0. /\ RecsValid /\ HeadLow /\ HeadClean /\ OpenHere /\ DownClosed
      /\ Current /\ OneBoot /\ SeqOrder /\ CleanBlocks /\ Arc
  BY DEF HeadInv
<1>1. \A b \in Blocks : InFlash(b)' \subseteq InFlash(b)
  BY InFlashKept DEF Still
<1>2. block \in Blocks
  BY HeadTypes
<1>3. RecsValid' /\ HeadLow' /\ CleanBlocks' /\ DownClosed'
  BY <1>0 DEF Still, RecsValid, HeadLow, CleanBlocks, DownClosed
<1>4. HeadClean' /\ OpenHere'
  BY <1>0, <1>2 DEF Still, HeadClean, OpenHere
<1>5. Current'
  BY <1>0, <1>1 DEF Still, Current
<1>6. OneBoot'
  BY <1>0, <1>1 DEF Still, OneBoot
<1>7. SeqOrder'
  BY <1>0, <1>1 DEF Still, SeqOrder
<1>8. \A p, q : ArcAt(p, q) => ArcAt(p, q)'
  BY DEF Still, ArcAt, Back
<1>9. TopBlock' = TopBlock /\ TopSeq' = TopSeq
  BY DEF Still, TopBlock, TopSeq, Succ
<1>10. Arc'
  <2>1. CASE ready
    <3>1. PICK p, q : p = TopBlock /\ q = TopSeq
      OBVIOUS
    <3>2. ~stale => ArcAt(p, q)'
      BY <1>0, <1>8, <2>1, <3>1 DEF Arc
    <3>3. p = TopBlock' /\ q = TopSeq'
      BY <1>9, <3>1
    <3>4. ~stale => ArcAt(TopBlock, TopSeq)'
      BY <3>2, <3>3 DEF ArcAt
    <3>5. QED
      BY <2>1, <3>4 DEF Arc, Still
  <2>2. CASE ~ready
    BY <1>0, <1>8, <2>2 DEF Arc, Still
  <2>3. QED
    BY <2>1, <2>2
<1>11. QED
  BY <1>3, <1>4, <1>5, <1>6, <1>7, <1>10 DEF HeadInv

LEMMA StillSteps ==
  ASSUME IInv, HeadInv,
         \/ Record \/ SnapRequest \/ LoggerTake \/ DumpTake \/ EraseTake \/ StartFails
         \/ SnapSkip \/ SnapErase \/ SnapHead \/ SnapBody \/ LoggerDue
         \/ FlushTake \/ CloseReadFails \/ FlushEnd \/ EraseQueue \/ UNCHANGED vars
         \/ (OpenErase /\ pc' = "idle") \/ (OpenHead /\ UNCHANGED blk /\ UNCHANGED open)
         \/ (AppendRun /\ UNCHANGED used)
  PROVE  Still
<1>1. CASE \/ Record \/ SnapRequest \/ LoggerTake \/ DumpTake \/ EraseTake \/ StartFails
           \/ SnapSkip \/ SnapErase \/ SnapHead \/ SnapBody \/ LoggerDue
           \/ FlushTake \/ CloseReadFails \/ FlushEnd \/ EraseQueue \/ UNCHANGED vars
  <2>1. UNCHANGED <<blk, session, seq, block, open, ready, boots, stale>>
    BY <1>1 DEF Record, SnapRequest, LoggerTake, DumpTake, EraseTake, StartFails,
       SnapSkip, SnapErase, SnapHead, SnapBody, LoggerDue,
       FlushTake, CloseReadFails, FlushEnd, EraseQueue, flash, place, ghost, vars
  <2>2. (Restarting <=> Restarting') /\ (pc' = "head" => pc = "head")
    BY <1>1 DEF Record, SnapRequest, LoggerTake, DumpTake, EraseTake, StartFails,
       SnapSkip, SnapErase, SnapHead, SnapBody, LoggerDue, SnapOver,
       FlushTake, CloseReadFails, FlushEnd, EraseQueue, vars, Restarting
  <2>3. QED
    BY <2>1, <2>2 DEF Still, Kept
<1>2. CASE (OpenErase /\ pc' = "idle") \/ (OpenHead /\ UNCHANGED blk /\ UNCHANGED open)
  <2>1. UNCHANGED <<blk, session, seq, block, open, ready, boots, stale>>
    BY <1>2 DEF OpenErase, OpenHead, place, ghost
  <2>2. pc \in {"write", "head"} /\ pc' \in {"idle", "head", "write"} /\ (pc' = "head" => pc = "head")
    <3>1. CASE OpenHead
      BY <3>1 DEF OpenHead, GiveUp
    <3>2. CASE OpenErase /\ pc' = "idle"
      BY <3>2 DEF OpenErase
    <3>3. QED
      BY <1>2, <3>1, <3>2
  <2>3. QED
    BY <2>1, <2>2 DEF Still, Kept, Restarting
<1>3. CASE AppendRun /\ UNCHANGED used
  <2>1. Kept
    BY <1>3, StepKept DEF Next, Step
  <2>2. /\ UNCHANGED <<session, seq, block, open, ready, boots, stale>> /\ pc = "write" /\ open
        /\ pc' \in {"write", "idle"}
    BY <1>3 DEF AppendRun, ghost, GiveUp
  <2>3. block \in Blocks /\ blk \in [Blocks -> BlockRec] /\ blk[block].valid
    BY <2>2, HeadTypes DEF HeadInv, OpenHere, Restarting
  <2>4. \A b \in Blocks : /\ blk'[b].valid = blk[b].valid
                          /\ blk'[b].session = blk[b].session /\ blk'[b].seq = blk[b].seq
                          /\ blk'[b].recs = blk[b].recs \/ blk[b].valid
    <3>1. blk' = blk \/ \E r : blk' = [blk EXCEPT ![block].recs = r]
      BY <1>3 DEF AppendRun
    <3>2. QED
      BY <2>3, <3>1 DEF BlockRec
  <2>5. QED
    BY <2>1, <2>2, <2>4 DEF Still, Restarting
<1>4. QED
  BY <1>1, <1>2, <1>3

\* The arc after a step, by its new end.
LEMMA ArcNow ==
  ASSUME NEW p, NEW q, p = TopBlock', q = TopSeq', ready', ~stale' => ArcAt(p, q)'
  PROVE  Arc'
<1>1. ~stale' => ArcAt(TopBlock, TopSeq)'
  BY DEF ArcAt
<1>2. QED
  BY <1>1 DEF Arc

\* The oldest block is erased: only the far end of the arc goes.
LEMMA HeadErase ==
  ASSUME IInv, Awake, HeadInv, OpenErase, pc' # "idle"
  PROVE  HeadInv'
<1>0. /\ RecsValid /\ HeadLow /\ HeadClean /\ OpenHere /\ DownClosed
      /\ Current /\ OneBoot /\ SeqOrder /\ CleanBlocks /\ Arc
  BY DEF HeadInv
<1>1. /\ blk' = [blk EXCEPT ![block] = NoBlock] /\ pc' = "head" /\ pc = "write" /\ ~open
      /\ UNCHANGED <<session, seq, block, open, ready, boots, stale>>
  BY DEF OpenErase, GiveUp, place, ghost
<1>2. blk \in [Blocks -> BlockRec] /\ block \in Blocks /\ Erased \in Nat \ {0}
  BY HeadTypes, Sizes
<1>3. /\ ~blk'[block].valid /\ blk'[block].recs = <<>>
      /\ blk'[block].session = 0 /\ blk'[block].seq = 0
      /\ \A b \in Blocks : b # block => blk'[b] = blk[b]
  <2>1. blk'[block] = NoBlock /\ \A b \in Blocks : b # block => blk'[b] = blk[b]
    BY <1>1, <1>2
  <2>2. QED
    BY <2>1 DEF NoBlock
<1>4. \A b \in Blocks : blk'[b].valid => b # block /\ blk'[b] = blk[b] /\ InFlash(b)' = InFlash(b)
  BY <1>3 DEF InFlash
<1>5. RecsValid' /\ HeadLow'
  BY <1>0, <1>2, <1>3 DEF RecsValid, HeadLow
<1>6. HeadClean' /\ OpenHere' /\ DownClosed'
  BY <1>0, <1>1, <1>3 DEF HeadClean, OpenHere, DownClosed
<1>7. Current'
  BY <1>0, <1>1, <1>4 DEF Current
<1>8. OneBoot'
  BY <1>0, <1>4 DEF OneBoot
<1>9. SeqOrder'
  BY <1>0, <1>1, <1>4 DEF SeqOrder
<1>10. CleanBlocks'
  BY <1>1 DEF CleanBlocks, Restarting
<1>11. Arc'
  <2>1. ready
    BY <1>1 DEF Awake
  <2>2. PICK p, q : p = TopBlock /\ q = TopSeq
    OBVIOUS
  <2>3. p = block /\ TopBlock' = p /\ TopSeq' = q
    BY <1>1, <2>2 DEF TopBlock, TopSeq, Succ
  <2>4. ~stale => ArcAt(p, q)
    BY <1>0, <2>1, <2>2 DEF Arc
  <2>5. \A b \in Blocks : Back(p, b) \in Nat /\ Back(p, b) <= FLOG_RECORD_BLOCKS
                          /\ Back(p, p) = FLOG_RECORD_BLOCKS /\ FLOG_RECORD_BLOCKS \in Nat
    BY <1>2, <2>3, Around
  <2>6. ~stale => ArcAt(p, q)'
    <3> SUFFICES ASSUME ~stale, NEW b \in Blocks, blk'[b].valid
                 PROVE  /\ blk'[b].seq + Back(p, b) = q
                        /\ \A c \in Blocks : Back(p, c) < Back(p, b) => blk'[c].valid
      BY DEF ArcAt, Back
    <3>1. b # block /\ blk'[b] = blk[b]
      BY <1>4
    <3>2. \A c \in Blocks : Back(p, c) < Back(p, b) => blk[c].valid /\ c # block
      BY <2>3, <2>4, <2>5, <3>1 DEF ArcAt
    <3>3. QED
      BY <1>3, <2>4, <3>1, <3>2 DEF ArcAt
  <2>7. QED
    BY <1>1, <2>1, <2>3, <2>6, ArcNow
<1>12. QED
  BY <1>5, <1>6, <1>7, <1>8, <1>9, <1>10, <1>11 DEF HeadInv

\* A head is written: the arc grows by one block, of the current session.
LEMMA HeadOpen ==
  ASSUME IInv, Awake, HeadInv, NoWrap, OpenHead, ~UNCHANGED open
  PROVE  HeadInv'
<1>0. /\ RecsValid /\ HeadLow /\ HeadClean /\ OpenHere /\ DownClosed
      /\ Current /\ OneBoot /\ SeqOrder /\ CleanBlocks /\ Arc
  BY DEF HeadInv
<1>1. /\ blk' = [blk EXCEPT ![block].valid = TRUE, ![block].session = session, ![block].seq = seq]
      /\ pc = "head" /\ pc' = "write" /\ open' = TRUE
      /\ UNCHANGED <<session, seq, block, ready, boots, stale>>
  BY DEF OpenHead, ghost
<1>2. /\ blk \in [Blocks -> BlockRec] /\ block \in Blocks /\ session \in Nat /\ seq \in Nat
      /\ \A b \in Blocks : blk[b].session \in Nat /\ blk[b].seq \in Nat
  BY HeadTypes
<1>3. ~open /\ ~blk[block].valid /\ ready
  BY <1>0, <1>1 DEF HeadClean, Awake
<1>4. /\ blk'[block].valid /\ blk'[block].session = session /\ blk'[block].seq = seq
      /\ blk'[block].recs = blk[block].recs
      /\ \A b \in Blocks : b # block => blk'[b] = blk[b]
  BY <1>1, <1>2 DEF BlockRec
<1>5. \A b \in Blocks : InFlash(b)' = InFlash(b) /\ (b = block => InFlash(b)' = {})
  <2>1. InFlash(block) = {}
    BY <1>0, <1>2, <1>3, InvalidEmpty
  <2>2. \A b \in Blocks : blk'[b].recs = blk[b].recs
    BY <1>4
  <2>3. \A b \in Blocks : InFlash(b)' = InFlash(b)
    BY <2>2 DEF InFlash, Places
  <2>4. QED
    BY <2>1, <2>3
<1>6. RecsValid' /\ HeadLow'
  BY <1>0, <1>4 DEF RecsValid, HeadLow, NoWrap
<1>7. HeadClean' /\ OpenHere' /\ DownClosed' /\ CleanBlocks'
  BY <1>1, <1>3, <1>4 DEF HeadClean, OpenHere, DownClosed, CleanBlocks, Restarting
<1>8. Current'
  <2> SUFFICES ASSUME NEW b \in Blocks, blk'[b].valid
               PROVE  /\ blk'[b].session <= session
                      /\ blk'[b].session = session =>
                           /\ blk'[b].seq < seq \/ (b = block /\ blk'[b].seq = seq)
                           /\ \A r \in InFlash(b)' : r.boot = boots
    BY <1>1 DEF Current
  <2>1. CASE b = block
    BY <1>2, <1>4, <1>5, <2>1
  <2>2. CASE b # block
    BY <1>0, <1>3, <1>4, <1>5, <2>2 DEF Current
  <2>3. QED
    BY <2>1, <2>2
\* The blocks of the session carry lower numbers.
<1>9. \A b \in Blocks : b # block /\ blk[b].valid /\ blk[b].session = session => blk[b].seq < seq
  BY <1>0, <1>3 DEF Current
<1>10. OneBoot'
  <2> SUFFICES ASSUME NEW b \in Blocks, NEW c \in Blocks,
                      blk'[b].valid, blk'[c].valid, blk'[b].session = blk'[c].session
               PROVE  /\ \A r \in InFlash(b)', q \in InFlash(c)' : r.boot = q.boot
                      /\ b # c => blk'[b].seq # blk'[c].seq
    BY DEF OneBoot
  <2>1. CASE b = block \/ c = block
    BY <1>2, <1>4, <1>5, <1>9, <2>1
  <2>2. CASE b # block /\ c # block
    BY <1>0, <1>4, <1>5, <2>2 DEF OneBoot
  <2>3. QED
    BY <2>1, <2>2
<1>11. SeqOrder'
  <2> SUFFICES ASSUME NEW b \in Blocks, NEW c \in Blocks,
                      blk'[b].valid, blk'[c].valid, blk'[b].seq < blk'[c].seq,
                      ~stale \/ blk'[b].session = blk'[c].session
               PROVE  \A r \in InFlash(b)', q \in InFlash(c)' : r.id < q.id
    BY <1>1 DEF SeqOrder
  <2>1. CASE b = block \/ c = block
    BY <1>5, <2>1
  <2>2. CASE b # block /\ c # block
    BY <1>0, <1>4, <1>5, <2>2 DEF SeqOrder
  <2>3. QED
    BY <2>1, <2>2
<1>12. Arc'
  <2>1. PICK p, q : p = Succ(block) /\ q = seq + 1
    OBVIOUS
  <2>2. p = TopBlock' /\ q = TopSeq'
    BY <1>1, <2>1 DEF TopBlock, TopSeq, Succ
  <2>3. ~stale => ArcAt(block, seq)
    BY <1>0, <1>3 DEF Arc, TopBlock, TopSeq
  <2>4. /\ Back(p, block) = 1
        /\ \A b \in Blocks : /\ Back(block, b) \in 1 .. FLOG_RECORD_BLOCKS
                             /\ b # block => Back(p, b) = Back(block, b) + 1
    BY <1>2, <2>1, Around
  <2>5. ~stale => ArcAt(p, q)'
    <3> SUFFICES ASSUME ~stale, NEW b \in Blocks, blk'[b].valid
                 PROVE  /\ blk'[b].seq + Back(p, b) = q
                        /\ \A c \in Blocks : Back(p, c) < Back(p, b) => blk'[c].valid
      BY DEF ArcAt, Back
    <3>0. FLOG_RECORD_BLOCKS \in Nat
      BY Sizes
    <3>1. CASE b = block
      <4>1. \A c \in Blocks : ~(Back(p, c) < 1)
        BY <2>4, <3>0
      <4>2. QED
        BY <1>2, <1>4, <2>1, <2>4, <3>1, <4>1
    <3>2. CASE b # block
      <4>1. blk'[b] = blk[b] /\ Back(p, b) = Back(block, b) + 1
        BY <1>4, <2>4, <3>2
      <4>2. /\ blk[b].seq + Back(block, b) = seq
            /\ \A c \in Blocks : Back(block, c) < Back(block, b) => blk[c].valid
        BY <2>3, <4>1 DEF ArcAt
      <4>3. blk'[b].seq + Back(p, b) = q
        BY <1>2, <2>1, <2>4, <3>0, <4>1, <4>2
      <4>4. ASSUME NEW c \in Blocks, Back(p, c) < Back(p, b)
            PROVE  blk'[c].valid
        <5>1. CASE c = block
          BY <1>4, <5>1
        <5>2. CASE c # block
          <6>1. Back(block, c) < Back(block, b)
            BY <2>4, <3>0, <4>1, <4>4, <5>2
          <6>2. QED
            BY <1>4, <4>2, <5>2, <6>1
        <5>3. QED
          BY <5>1, <5>2
      <4>5. QED
        BY <4>3, <4>4
    <3>3. QED
      BY <3>1, <3>2
  <2>6. QED
    BY <1>1, <1>3, <2>2, <2>5, ArcNow
<1>13. QED
  BY <1>6, <1>7, <1>8, <1>10, <1>11, <1>12 DEF HeadInv

\* Records are added to the newest block only, behind all older ones.
LEMMA HeadWrote ==
  ASSUME IInv, Awake, OrderInv, HeadInv, Wrote
  PROVE  HeadInv'
<1>0. /\ RecsValid /\ HeadLow /\ HeadClean /\ OpenHere /\ DownClosed
      /\ Current /\ OneBoot /\ SeqOrder /\ CleanBlocks /\ Arc
      /\ RamOrder /\ FlashOld
  BY DEF HeadInv, OrderInv
<1>1. /\ UNCHANGED <<session, seq, block, open, ready, boots, stale, pc>> /\ open /\ pc = "write"
      /\ blk'[block] = [blk[block] EXCEPT !.recs = Written]
      /\ \A b \in Blocks \ {block} : blk'[b] = blk[b]
      /\ \A k \in Places(blk'[block].recs) :
           \/ k \in Places(blk[block].recs) /\ blk'[block].recs[k] = blk[block].recs[k]
           \/ k - used \in 1 .. Run /\ blk'[block].recs[k] = buf[k - used]
      /\ Run \in 1 .. Len(buf)
  BY DEF Wrote, ghost
<1>2. /\ blk \in [Blocks -> BlockRec] /\ block \in Blocks /\ session \in Nat /\ seq \in Nat
      /\ FLOG_RECORD_BLOCKS \in Nat /\ TopBlock \in Blocks /\ TopSeq \in Nat
      /\ \A b \in Blocks : blk[b].session \in Nat /\ blk[b].seq \in Nat
  BY HeadTypes
<1>3. ready /\ blk[block].valid /\ blk[block].session = session /\ blk[block].seq = seq
  BY <1>0, <1>1 DEF Awake, OpenHere, Restarting
<1>4. \A b \in Blocks : /\ blk'[b].valid = blk[b].valid
                        /\ blk'[b].session = blk[b].session /\ blk'[b].seq = blk[b].seq
                        /\ b # block => blk'[b] = blk[b]
  BY <1>1, <1>2 DEF BlockRec
\* A record of the block is an old one or one of the batch.
<1>5. ASSUME NEW b \in Blocks, NEW r \in InFlash(b)'
      PROVE  r \in InFlash(b) \/ (b = block /\ \E m \in DOMAIN buf : r = buf[m])
  <2>1. PICK k \in Places(blk'[b].recs) : r = blk'[b].recs[k]
    BY DEF InFlash
  <2>2. CASE b = block
    <3>1. CASE k \in Places(blk[block].recs) /\ blk'[block].recs[k] = blk[block].recs[k]
      BY <2>1, <2>2, <3>1 DEF InFlash
    <3>2. CASE k - used \in 1 .. Run /\ blk'[block].recs[k] = buf[k - used]
      <4>1. buf \in Seq(Records) /\ Len(buf) \in Nat
        <5>1. buf \in Seq(Records)
          BY DEF IInv, QueueOK, Lines
        <5>2. QED
          BY <5>1
      <4>2. k - used \in 1 .. Len(buf)
        BY <1>1, <3>2, <4>1
      <4>3. QED
        BY <2>1, <2>2, <3>2, <4>1, <4>2
    <3>3. QED
      BY <1>1, <2>1, <2>2, <3>1, <3>2
  <2>3. CASE b # block
    BY <1>4, <2>1, <2>3 DEF InFlash
  <2>4. QED
    BY <2>2, <2>3
<1>6. RecsValid' /\ HeadLow'
  BY <1>0, <1>3, <1>4 DEF RecsValid, HeadLow
<1>7. HeadClean' /\ OpenHere' /\ DownClosed' /\ CleanBlocks'
  BY <1>0, <1>1, <1>2, <1>3, <1>4 DEF HeadClean, OpenHere, DownClosed, CleanBlocks, Restarting
<1>8. \A b \in Blocks : blk[b].valid /\ blk[b].session = session => \A r \in InFlash(b)' : r.boot = boots
  BY <1>0, <1>3, <1>5 DEF Current, RamOrder
<1>9. Current'
  BY <1>0, <1>1, <1>3, <1>4, <1>8 DEF Current
<1>10. OneBoot'
  <2> SUFFICES ASSUME NEW b \in Blocks, NEW c \in Blocks, blk[b].valid, blk[c].valid,
                      blk[b].session = blk[c].session
               PROVE  /\ \A r \in InFlash(b)', q \in InFlash(c)' : r.boot = q.boot
                      /\ b # c => blk[b].seq # blk[c].seq
    BY <1>4 DEF OneBoot
  <2>1. CASE blk[b].session = session
    BY <1>0, <1>8, <2>1 DEF OneBoot
  <2>2. CASE blk[b].session # session
    <3>1. b # block /\ c # block
      BY <1>3, <2>2
    <3>2. QED
      BY <1>0, <1>5, <3>1 DEF OneBoot
  <2>3. QED
    BY <2>1, <2>2
\* No block in question has a higher number than the open one.
<1>11. \A c \in Blocks : blk[c].valid /\ (~stale \/ blk[c].session = session) => ~(seq < blk[c].seq)
  <2> TAKE c \in Blocks
  <2>1. CASE blk[c].valid /\ blk[c].session = session
    BY <1>0, <1>2, <1>3, <2>1 DEF Current
  <2>2. CASE blk[c].valid /\ ~stale
    <3>1. ArcAt(TopBlock, TopSeq) /\ TopSeq = seq + 1
      BY <1>0, <1>1, <1>3, <2>2 DEF Arc, TopSeq
    <3>2. blk[c].seq + Back(TopBlock, c) = seq + 1
      BY <2>2, <3>1 DEF ArcAt
    <3>3. Back(TopBlock, c) \in 1 .. FLOG_RECORD_BLOCKS
      BY <1>2, Around
    <3>4. QED
      BY <1>2, <3>2, <3>3
  <2>3. QED
    BY <2>1, <2>2
<1>12. SeqOrder'
  <2> SUFFICES ASSUME NEW b \in Blocks, NEW c \in Blocks, blk[b].valid, blk[c].valid,
                      blk[b].seq < blk[c].seq, ~stale \/ blk[b].session = blk[c].session,
                      NEW r \in InFlash(b)', NEW q \in InFlash(c)'
               PROVE  r.id < q.id
    BY <1>1, <1>4 DEF SeqOrder
  <2>1. b # block
    BY <1>3, <1>11
  <2>2. r \in InFlash(b)
    BY <1>5, <2>1
  <2>3. CASE q \in InFlash(c)
    BY <1>0, <2>2, <2>3 DEF SeqOrder
  <2>4. CASE \E m \in DOMAIN buf : q = buf[m]
    BY <1>0, <2>2, <2>4 DEF FlashOld
  <2>5. QED
    BY <1>5, <2>3, <2>4
<1>13. Arc'
  <2>1. PICK p, q : p = TopBlock /\ q = TopSeq
    OBVIOUS
  <2>2. p = TopBlock' /\ q = TopSeq'
    BY <1>1, <2>1 DEF TopBlock, TopSeq, Succ
  <2>3. ~stale => ArcAt(p, q)
    BY <1>0, <1>3, <2>1 DEF Arc
  <2>4. ~stale => ArcAt(p, q)'
    BY <1>4, <2>3 DEF ArcAt, Back
  <2>5. QED
    BY <1>1, <1>3, <2>2, <2>4, ArcNow
<1>14. QED
  BY <1>6, <1>7, <1>9, <1>10, <1>12, <1>13 DEF HeadInv

\* The word after one that has not come round.
LEMMA IncNext == ASSUME NEW w \in Nat, w < Erased PROVE Inc(w) = w + 1
<1>1. Erased \in Nat /\ w + 1 \in 0 .. Erased
  BY Sizes
<1>2. QED
  BY <1>1 DEF Inc

\* A full block is closed: the place and its number move on together.
LEMMA HeadClose ==
  ASSUME IInv, Awake, HeadInv, NoWrap, CloseBlock
  PROVE  HeadInv'
<1>0. /\ RecsValid /\ HeadLow /\ HeadClean /\ OpenHere /\ DownClosed
      /\ Current /\ OneBoot /\ SeqOrder /\ CleanBlocks /\ Arc
  BY DEF HeadInv
<1>1. /\ pc = "write" /\ pc' = "write" /\ open /\ open' = FALSE
      /\ UNCHANGED <<session, ready, boots, stale>>
      /\ block' = (block + 1) % FLOG_RECORD_BLOCKS /\ seq' = Inc(seq)
      /\ blk' = [blk EXCEPT ![block].closed = TRUE] \/ blk' = blk
  BY DEF CloseBlock, ghost
<1>2. /\ blk \in [Blocks -> BlockRec] /\ block \in Blocks /\ session \in Nat /\ seq \in Nat
      /\ \A b \in Blocks : blk[b].session \in Nat /\ blk[b].seq \in Nat
  BY HeadTypes
<1>3. block' = Succ(block) /\ seq' = seq + 1 /\ ready
  BY <1>0, <1>1, <1>2, Around, IncNext DEF NoWrap, Awake
<1>4. \A b \in Blocks : /\ blk'[b].valid = blk[b].valid /\ blk'[b].recs = blk[b].recs
                        /\ blk'[b].session = blk[b].session /\ blk'[b].seq = blk[b].seq
  BY <1>1, <1>2 DEF BlockRec
<1>5. \A b \in Blocks : InFlash(b)' = InFlash(b)
  BY <1>4 DEF InFlash, Places
<1>6. RecsValid' /\ HeadLow' /\ HeadClean' /\ OpenHere' /\ DownClosed' /\ CleanBlocks'
  BY <1>0, <1>1, <1>4 DEF RecsValid, HeadLow, HeadClean, OpenHere, DownClosed, CleanBlocks, Restarting
<1>7. Current'
  <2> SUFFICES ASSUME NEW b \in Blocks, blk[b].valid
               PROVE  /\ blk[b].session <= session
                      /\ blk[b].session = session =>
                           /\ blk[b].seq < seq + 1
                           /\ \A r \in InFlash(b) : r.boot = boots
    BY <1>1, <1>3, <1>4, <1>5 DEF Current
  <2>1. QED
    BY <1>0, <1>2, <1>3 DEF Current
<1>8. OneBoot'
  BY <1>0, <1>4, <1>5 DEF OneBoot
<1>9. SeqOrder'
  BY <1>0, <1>1, <1>4, <1>5 DEF SeqOrder
<1>10. Arc'
  <2>1. PICK p, q : p = TopBlock /\ q = TopSeq
    OBVIOUS
  <2>2. p = TopBlock' /\ q = TopSeq'
    BY <1>1, <1>3, <2>1 DEF TopBlock, TopSeq, Succ
  <2>3. ~stale => ArcAt(p, q)
    BY <1>0, <1>3, <2>1 DEF Arc
  <2>4. ~stale => ArcAt(p, q)'
    BY <1>4, <2>3 DEF ArcAt, Back
  <2>5. QED
    BY <1>1, <1>3, <2>2, <2>4, ArcNow
<1>11. QED
  BY <1>6, <1>7, <1>8, <1>9, <1>10 DEF HeadInv

\* erase_all takes blocks away, and starts a session of its own.
LEMMA HeadEraseAll ==
  ASSUME IInv, Awake, HeadInv, NoWrap, EraseFlash \/ EraseReset
  PROVE  HeadInv'
<1>0. /\ RecsValid /\ HeadLow /\ HeadClean /\ OpenHere /\ DownClosed
      /\ Current /\ OneBoot /\ SeqOrder /\ CleanBlocks /\ Arc
  BY DEF HeadInv
<1>1. /\ blk \in [Blocks -> BlockRec] /\ block \in Blocks /\ session \in Nat /\ seq \in Nat
      /\ \A b \in Blocks : blk[b].session \in Nat /\ blk[b].seq \in Nat
      /\ Erased \in Nat \ {0}
  BY HeadTypes, Sizes
<1>2. CASE EraseFlash
  <2>1. /\ ready /\ pc' = "clear" /\ UNCHANGED <<session, seq, block, open, ready, boots>>
        /\ ~stale' => \A b \in Blocks : ~blk'[b].valid
    BY <1>0, <1>2 DEF EraseFlash, place, Awake
  <2>2. PICK n \in 0 .. FLOG_RECORD_BLOCKS : blk' = [b \in Blocks |-> IF b < n THEN NoBlock ELSE blk[b]]
    BY <1>2 DEF EraseFlash
  <2>3. /\ ~NoBlock.valid /\ NoBlock.recs = <<>> /\ NoBlock.session = 0 /\ NoBlock.seq = 0
    BY DEF NoBlock
  <2>4. \A b \in Blocks : blk'[b] = blk[b] \/ blk'[b] = NoBlock
    BY <2>2
  <2>5. \A b \in Blocks : blk'[b].valid => blk'[b] = blk[b] /\ InFlash(b)' = InFlash(b)
    BY <2>3, <2>4 DEF InFlash
  <2>6. RecsValid' /\ HeadLow'
    BY <1>0, <1>1, <2>3, <2>4 DEF RecsValid, HeadLow
  <2>7. HeadClean' /\ OpenHere' /\ DownClosed' /\ CleanBlocks'
    BY <2>1 DEF HeadClean, OpenHere, DownClosed, CleanBlocks, Restarting
  <2>8. Current'
    BY <1>0, <2>1, <2>5 DEF Current
  <2>9. OneBoot'
    BY <1>0, <2>5 DEF OneBoot
  <2>10. SeqOrder'
    BY <1>0, <2>1, <2>5 DEF SeqOrder
  <2>11. Arc'
    BY <2>1 DEF Arc, ArcAt
  <2>12. QED
    BY <2>6, <2>7, <2>8, <2>9, <2>10, <2>11 DEF HeadInv
<1>3. CASE EraseReset
  <2>1. /\ ready /\ pc' = "idle" /\ pc = "reset" /\ UNCHANGED <<blk, ready, boots, stale>>
        /\ open' = FALSE /\ session' = Inc(session)
    BY <1>0, <1>3 DEF EraseReset, flash, ghost, Awake
  <2>2. session' = session + 1
    BY <1>1, <2>1, IncNext DEF NoWrap
  <2>3. RecsValid' /\ HeadLow' /\ OneBoot'
    BY <1>0, <2>1 DEF RecsValid, HeadLow, OneBoot, InFlash, Places
  <2>4. HeadClean' /\ OpenHere' /\ DownClosed' /\ CleanBlocks'
    BY <2>1 DEF HeadClean, OpenHere, DownClosed, CleanBlocks, Restarting
  <2>5. Current'
    <3>1. \A b \in Blocks : blk[b].valid => blk[b].session <= session + 1 /\ blk[b].session # session + 1
      BY <1>0, <1>1, <2>1 DEF Current
    <3>2. QED
      BY <2>1, <2>2, <3>1 DEF Current
  <2>6. SeqOrder'
    BY <1>0, <2>1 DEF SeqOrder, InFlash, Places
  <2>7. Arc'
    <3>1. ~stale' => \A b \in Blocks : ~blk'[b].valid
      BY <1>0, <2>1 DEF CleanBlocks, Restarting
    <3>2. QED
      BY <2>1, <3>1 DEF Arc, ArcAt
  <2>8. QED
    BY <2>3, <2>4, <2>5, <2>6, <2>7 DEF HeadInv
<1>4. QED
  BY <1>2, <1>3

\* The scan at boot finds the end of the arc again.
LEMMA ResumeArc ==
  ASSUME IInv, HeadLow, NEW p \in Blocks, NEW q \in Nat, ArcAt(p, q), Resume, Valid # {}
  PROVE  block' = p /\ seq' = q
<1>1. /\ \A b \in Blocks : blk[b].seq \in Nat /\ blk[b].seq < Erased
      /\ FlashOK /\ FLOG_RECORD_BLOCKS \in Nat
  BY HeadTypes DEF HeadLow, IInv
<1> DEFINE n == Newest
<1>2. /\ n \in Blocks /\ blk[n].valid /\ block' = (n + 1) % FLOG_RECORD_BLOCKS /\ seq' = Inc(blk[n].seq)
      /\ \A c \in Valid : blk[c].seq < blk[n].seq \/ blk[c].seq = blk[n].seq
  BY <1>1, ScanFinds DEF Resume, Valid
<1> HIDE DEF n
<1>3. blk[n].seq + Back(p, n) = q /\ \A c \in Blocks : Back(p, c) < Back(p, n) => blk[c].valid
  BY <1>2 DEF ArcAt
<1>4. PICK c \in Blocks : Back(p, c) = 1
  BY Around
<1>5. Back(p, n) \in 1 .. FLOG_RECORD_BLOCKS
  BY <1>2, Around
<1>6. Back(p, n) = 1
  <2> SUFFICES ASSUME Back(p, n) # 1 PROVE FALSE
    OBVIOUS
  <2>1. blk[c].valid
    BY <1>1, <1>3, <1>4, <1>5
  <2>2. blk[c].seq + 1 = q
    BY <1>4, <2>1 DEF ArcAt
  <2>3. c \in Valid
    BY <2>1 DEF Valid
  <2>4. QED
    BY <1>1, <1>2, <1>3, <1>5, <2>2, <2>3
<1>7. Succ(n) = p
  BY <1>2, <1>6, Around
<1>8. (n + 1) % FLOG_RECORD_BLOCKS = Succ(n)
  BY <1>2, Around
<1>9. Inc(blk[n].seq) = blk[n].seq + 1
  BY <1>1, <1>2, IncNext
<1>10. QED
  BY <1>1, <1>2, <1>3, <1>6, <1>7, <1>8, <1>9

LEMMA HeadStart ==
  ASSUME IInv, Awake, HeadInv, Start
  PROVE  HeadInv'
<1>0. /\ RecsValid /\ HeadLow /\ HeadClean /\ OpenHere /\ DownClosed
      /\ Current /\ OneBoot /\ SeqOrder /\ CleanBlocks /\ Arc /\ FlashOK
  BY DEF HeadInv, IInv
<1>1. /\ UNCHANGED <<blk, boots, stale>> /\ open' = FALSE /\ ready' = TRUE /\ pc' = "idle" /\ ~ready
      /\ Resume
  BY <1>0 DEF Start, ghost, Awake
<1>2. /\ \A b \in Blocks : blk[b].session \in Nat /\ blk[b].seq \in Nat /\ blk[b].session < Erased
  BY <1>0, HeadTypes DEF HeadLow
<1>3. RecsValid' /\ HeadLow' /\ OneBoot' /\ SeqOrder'
  BY <1>0, <1>1 DEF RecsValid, HeadLow, OneBoot, SeqOrder, InFlash, Places
<1>4. HeadClean' /\ OpenHere' /\ DownClosed' /\ CleanBlocks'
  BY <1>1 DEF HeadClean, OpenHere, DownClosed, CleanBlocks, Restarting
<1>5. Current'
  <2>1. \A b \in Blocks : blk[b].valid => blk[b].session < session'
    <3>1. CASE Valid = {}
      BY <3>1 DEF Valid
    <3>2. CASE Valid # {}
      <4>1. PICK b \in Valid : TopSession = blk[b].session
        BY <1>0, <3>2, ScanFinds
      <4>2. TopSession \in Nat /\ TopSession < Erased
        BY <1>2, <4>1 DEF Valid
      <4>3. session' = TopSession + 1
        BY <1>1, <3>2, <4>2, IncNext DEF Resume
      <4>4. \A c \in Valid : blk[c].session <= TopSession
        BY <1>0, <3>2, ScanFinds
      <4>5. QED
        BY <1>2, <4>2, <4>3, <4>4 DEF Valid
    <3>3. QED
      BY <3>1, <3>2
  <2>2. session' \in Nat
    BY <1>0, <1>1, ResumeType, Sizes
  <2>3. \A b \in Blocks : blk[b].valid => blk[b].session <= session' /\ blk[b].session # session'
    BY <1>2, <2>1, <2>2
  <2>4. QED
    BY <1>1, <2>3 DEF Current
<1>6. Arc'
  <2>1. CASE Valid = {}
    <3>1. \A b \in Blocks : ~blk'[b].valid
      BY <1>1, <2>1 DEF Valid
    <3>2. QED
      BY <1>1, <3>1 DEF Arc, ArcAt
  <2>2. CASE Valid # {} /\ ~stale
    <3>1. PICK p \in Blocks, q \in Nat : ArcAt(p, q)
      BY <1>0, <1>1, <2>2 DEF Arc
    <3>2. block' = p /\ seq' = q
      BY <1>0, <1>1, <2>2, <3>1, ResumeArc
    <3>3. p = TopBlock' /\ q = TopSeq'
      BY <1>1, <3>2 DEF TopBlock, TopSeq
    <3>4. ArcAt(p, q)'
      BY <1>1, <3>1 DEF ArcAt, Back
    <3>5. QED
      BY <1>1, <3>3, <3>4, ArcNow
  <2>3. CASE stale
    BY <1>1, <2>3 DEF Arc
  <2>4. QED
    BY <2>1, <2>2, <2>3
<1>7. QED
  BY <1>3, <1>4, <1>5, <1>6 DEF HeadInv

\* A power cut leaves the heads as they are, when it leaves no torn one.
LEMMA HeadCut ==
  ASSUME IInv, IInv', Awake, HeadInv, PowerCut, ~TornHead
  PROVE  HeadInv'
<1>0. /\ RecsValid /\ HeadLow /\ HeadClean /\ OpenHere /\ DownClosed
      /\ Current /\ OneBoot /\ SeqOrder /\ CleanBlocks /\ Arc
  BY DEF HeadInv
<1>1. /\ open' = FALSE /\ ready' = FALSE /\ pc' = "off" /\ UNCHANGED stale
      /\ \/ UNCHANGED blk
         \/ pc = "write" /\ open /\ \E r : blk' = [blk EXCEPT ![block].recs = r]
  BY DEF PowerCut, TornHeads
<1>2. /\ blk \in [Blocks -> BlockRec] /\ block \in Blocks /\ TopBlock \in Blocks /\ TopSeq \in Nat
  BY HeadTypes
<1>3. \A b \in Blocks : /\ blk'[b].valid = blk[b].valid
                        /\ blk'[b].session = blk[b].session /\ blk'[b].seq = blk[b].seq
                        /\ blk'[b].recs = blk[b].recs \/ blk[b].valid
  <2>1. CASE UNCHANGED blk
    BY <2>1
  <2>2. ASSUME pc = "write", open, NEW r, blk' = [blk EXCEPT ![block].recs = r]
        PROVE  \A b \in Blocks : /\ blk'[b].valid = blk[b].valid
                                 /\ blk'[b].session = blk[b].session /\ blk'[b].seq = blk[b].seq
                                 /\ blk'[b].recs = blk[b].recs \/ blk[b].valid
    <3>1. blk[block].valid
      BY <1>0, <2>2 DEF OpenHere, Restarting
    <3>2. QED
      BY <1>2, <2>2, <3>1 DEF BlockRec
  <2>3. QED
    BY <1>1, <2>1, <2>2
<1>4. \A b \in Blocks : InFlash(b)' \subseteq InFlash(b)
  <2>1. ~AppendRun
    BY <1>1 DEF AppendRun, GiveUp
  <2>2. Kept
    BY <2>1, StepKept DEF Next
  <2>3. QED
    BY <2>2, InFlashKept
<1>5. RecsValid' /\ HeadLow' /\ OneBoot'
  BY <1>0, <1>3, <1>4 DEF RecsValid, HeadLow, OneBoot
<1>6. SeqOrder'
  BY <1>0, <1>1, <1>3, <1>4 DEF SeqOrder
<1>7. HeadClean' /\ OpenHere' /\ DownClosed' /\ CleanBlocks' /\ Current'
  BY <1>1 DEF HeadClean, OpenHere, DownClosed, CleanBlocks, Current, Restarting
<1>8. Arc'
  <2> SUFFICES ASSUME ~stale PROVE \E p \in Blocks, q \in Nat : ArcAt(p, q)'
    BY <1>1 DEF Arc
  <2>1. PICK p \in Blocks, q \in Nat : ArcAt(p, q)
    BY <1>0, <1>2 DEF Arc
  <2>2. ArcAt(p, q)'
    BY <1>3, <2>1 DEF ArcAt, Back
  <2>3. QED
    BY <2>2
<1>9. QED
  BY <1>5, <1>6, <1>7, <1>8 DEF HeadInv

LEMMA HeadInit == Init => HeadInv
<1> SUFFICES ASSUME Init PROVE HeadInv
  OBVIOUS
<1>1. /\ \A b \in Blocks : /\ ~blk[b].valid /\ blk[b].recs = <<>>
                           /\ blk[b].session = 0 /\ blk[b].seq = 0
      /\ ready = FALSE /\ open = FALSE /\ pc = "off"
  BY DEF Init, NoBlock
<1>2. 0 < Erased /\ 0 \in Blocks
  BY Sizes
<1>3. RecsValid /\ HeadLow /\ HeadClean /\ OpenHere /\ DownClosed /\ Current
  BY <1>1, <1>2 DEF RecsValid, HeadLow, HeadClean, OpenHere, DownClosed, Current
<1>4. OneBoot /\ SeqOrder /\ CleanBlocks
  BY <1>1 DEF OneBoot, SeqOrder, CleanBlocks
<1>5. Arc
  <2>1. ArcAt(0, 0)
    BY <1>1 DEF ArcAt
  <2>2. QED
    BY <1>1, <1>2, <2>1 DEF Arc
<1>6. QED
  BY <1>3, <1>4, <1>5 DEF HeadInv

LEMMA HeadSteps ==
  ASSUME ~TornHead, IInv, IInv', Awake, OrderInv, HeadInv, NoWrap, [Next]_vars
  PROVE  HeadInv'
<1>1. CASE \/ Record \/ SnapRequest \/ LoggerTake \/ DumpTake \/ EraseTake \/ StartFails
           \/ SnapSkip \/ SnapErase \/ SnapHead \/ SnapBody \/ LoggerDue
           \/ FlushTake \/ CloseReadFails \/ FlushEnd \/ EraseQueue \/ UNCHANGED vars
  BY <1>1, StillSteps, HeadStill
<1>2. CASE OpenErase
  <2>1. CASE pc' = "idle"
    BY <1>2, <2>1, StillSteps, HeadStill
  <2>2. CASE pc' # "idle"
    BY <1>2, <2>2, HeadErase
  <2>3. QED
    BY <2>1, <2>2
<1>3. CASE OpenHead
  <2>1. CASE ~UNCHANGED open
    BY <1>3, <2>1, HeadOpen
  <2>2. CASE UNCHANGED open
    <3>1. UNCHANGED blk
      BY <1>3, <2>2 DEF OpenHead, HeadInv, HeadClean
    <3>2. QED
      BY <1>3, <2>2, <3>1, StillSteps, HeadStill
  <2>3. QED
    BY <2>1, <2>2
<1>4. CASE AppendRun
  <2>1. CASE ~UNCHANGED used
    BY <1>4, <2>1, WroteFacts, HeadWrote
  <2>2. CASE UNCHANGED used
    BY <1>4, <2>2, StillSteps, HeadStill
  <2>3. QED
    BY <2>1, <2>2
<1>5. CASE CloseBlock
  BY <1>5, HeadClose
<1>6. CASE EraseFlash \/ EraseReset
  BY <1>6, HeadEraseAll
<1>7. CASE Start
  BY <1>7, HeadStart
<1>8. CASE PowerCut
  BY <1>8, HeadCut
<1>9. QED
  BY <1>1, <1>2, <1>3, <1>4, <1>5, <1>6, <1>7, <1>8 DEF Next, Step

LEMMA InOrder ==
  ASSUME IInv, OrderInv, HeadInv
  PROVE  SessionInOrder
<1> SUFFICES ASSUME NEW b \in Blocks, NEW c \in Blocks, blk[b].valid, blk[c].valid,
                    blk[b].session = blk[c].session
             PROVE  /\ \A r \in InFlash(b), q \in InFlash(c) : r.boot = q.boot
                    /\ b # c => blk[b].seq # blk[c].seq
                    /\ blk[b].seq < blk[c].seq => \A r \in InFlash(b), q \in InFlash(c) : r.id < q.id
                    /\ \A i, j \in Places(blk[b].recs) : i < j => blk[b].recs[i].id < blk[b].recs[j].id
  BY DEF SessionInOrder, Valid
<1>1. /\ \A r \in InFlash(b), q \in InFlash(c) : r.boot = q.boot
      /\ b # c => blk[b].seq # blk[c].seq
  BY DEF HeadInv, OneBoot
<1>2. blk[b].seq < blk[c].seq => \A r \in InFlash(b), q \in InFlash(c) : r.id < q.id
  BY DEF HeadInv, SeqOrder
<1>3. \A i, j \in Places(blk[b].recs) : i < j => blk[b].recs[i].id < blk[b].recs[j].id
  BY DEF OrderInv, BlockRising
<1>4. QED
  BY <1>1, <1>2, <1>3

\* What a block is given up for, at the only step that gives one up.
LEMMA NewestStep ==
  ASSUME ~TornHead, IInv, Awake, HeadInv, Next, pc = "write", ~stale,
         NEW b \in Blocks, InFlash(b) # {}, ~blk'[b].valid
  PROVE  \A c \in Blocks \ {b} : blk[c].valid /\ \A r \in InFlash(b), q \in InFlash(c) : r.id < q.id
<1>0. RecsValid /\ SeqOrder /\ Arc /\ OpenHere /\ ready
  BY DEF HeadInv, Awake
<1>1. /\ blk \in [Blocks -> BlockRec] /\ block \in Blocks /\ seq \in Nat /\ FLOG_RECORD_BLOCKS \in Nat
      /\ \A c \in Blocks : blk[c].seq \in Nat
  BY HeadTypes
<1>2. blk[b].valid
  BY <1>0, InvalidEmpty
<1>3. blk'[b] # blk[b] /\ ~\E r : blk' = [blk EXCEPT ![block].recs = r]
  <2>1. ASSUME NEW r, blk' = [blk EXCEPT ![block].recs = r] PROVE FALSE
    <3>1. blk'[b].valid = blk[b].valid
      BY <1>1, <2>1 DEF BlockRec
    <3>2. QED
      BY <1>2, <3>1
  <2>2. QED
    BY <1>2, <2>1
<1>4. OpenErase
  <2>1. ~UNCHANGED blk
    BY <1>3
  <2>2. ~PowerCut
    BY <1>3, <2>1 DEF PowerCut
  <2>3. ~AppendRun
    BY <1>3, <2>1 DEF AppendRun
  <2>4. ~CloseBlock
    <3>1. SUFFICES ASSUME blk' = [blk EXCEPT ![block].closed = TRUE] PROVE FALSE
      BY <2>1 DEF CloseBlock
    <3>2. blk'[b].valid = blk[b].valid
      BY <1>1, <3>1 DEF BlockRec
    <3>3. QED
      BY <1>2, <3>2
  <2>5. QED
    BY <2>1, <2>2, <2>3, <2>4 DEF Next, Step, Start, StartFails, Record, SnapRequest, LoggerTake, DumpTake,
       EraseTake, SnapSkip, SnapErase, SnapHead, SnapBody, LoggerDue, FlushTake, OpenHead, CloseReadFails,
       FlushEnd, EraseFlash, EraseQueue, EraseReset, flash
<1>5. ~open /\ blk' = [blk EXCEPT ![block] = NoBlock]
  BY <1>3, <1>4 DEF OpenErase
<1>6. b = block
  BY <1>1, <1>3, <1>5
<1>7. ArcAt(block, seq)
  BY <1>0, <1>5 DEF Arc, TopBlock, TopSeq
<1>8. Back(block, b) = FLOG_RECORD_BLOCKS
      /\ \A c \in Blocks \ {b} : Back(block, c) \in 1 .. FLOG_RECORD_BLOCKS /\ Back(block, c) < FLOG_RECORD_BLOCKS
  BY <1>1, <1>6, Around
<1>9. blk[b].seq + FLOG_RECORD_BLOCKS = seq /\ \A c \in Blocks \ {b} : blk[c].valid
  BY <1>2, <1>7, <1>8 DEF ArcAt
<1>10. \A c \in Blocks \ {b} : blk[c].seq + Back(block, c) = seq
  BY <1>7, <1>9 DEF ArcAt
<1>11. \A c \in Blocks \ {b} : blk[b].seq < blk[c].seq
  BY <1>1, <1>8, <1>9, <1>10
<1>12. QED
  BY <1>0, <1>2, <1>9, <1>11 DEF SeqOrder

\* All of the invariant, under the two hypotheses.
LogInv == IInv /\ SlotInv /\ OrderInv /\ HeadInv

LEMMA LogInit == Init => LogInv
  BY InitIInv, SlotInit, OrderInit, HeadInit DEF LogInv

LEMMA LogSteps ==
  ASSUME ~TornHead
  PROVE  LogInv /\ NoWrap /\ [Next]_vars => LogInv'
<1> SUFFICES ASSUME LogInv, NoWrap, [Next]_vars PROVE LogInv'
  OBVIOUS
<1>1. IInv /\ SlotInv /\ OrderInv /\ HeadInv /\ Awake
  BY DEF LogInv, SlotInv
<1>2. IInv'
  BY <1>1, StepIInv
<1>3. SlotInv'
  BY <1>1, SlotSteps
<1>4. OrderInv'
  BY <1>1, <1>2, OrderStep
<1>5. HeadInv'
  BY <1>1, <1>2, HeadSteps
<1>6. QED
  BY <1>2, <1>3, <1>4, <1>5 DEF LogInv

\* Within a session the dump gives the records of one boot back in the order
\* they were accepted, whatever flash operation failed, wherever the power
\* went (a torn head aside), and in a ring of any size: flightlog.c never
\* mixes two boots in a session, and never numbers a later block lower.
THEOREM RecordsInOrder == ASSUME ~TornHead PROVE Spec /\ []NoWrap => []SessionInOrder
<1>1. Init => LogInv
  BY LogInit
<1>2. LogInv /\ NoWrap /\ [Next]_vars => LogInv'
  BY LogSteps
<1>3. LogInv => SessionInOrder
  BY InOrder DEF LogInv
<1>4. QED
  BY <1>1, <1>2, <1>3, PTL DEF Spec

\* A block with records is erased for reuse only when every other block holds
\* newer records: the valid blocks are an arc that ends where the log writes,
\* and block_open takes the far end of it (flightlog.c, flog_resume_add).  A
\* torn head breaks the arc: the run FlightLog_Torn shows the step.
THEOREM OldestGoesFirst == ASSUME ~TornHead PROVE Spec /\ []NoWrap => RingKeepsNewest
<1>1. Init => LogInv
  BY LogInit
<1>2. LogInv /\ NoWrap /\ [Next]_vars => LogInv'
  BY LogSteps
<1>3. LogInv /\ [Next]_vars =>
        [ pc = "write" /\ ~stale => \A b \in Blocks :
            InFlash(b) # {} /\ ~blk'[b].valid =>
              \A c \in Blocks \ {b} :
                /\ blk[c].valid
                /\ \A r \in InFlash(b), q \in InFlash(c) : r.id < q.id ]_vars
  BY NewestStep DEF LogInv, SlotInv
<1>4. QED
  BY <1>1, <1>2, <1>3, PTL DEF Spec, RingKeepsNewest

-----------------------------------------------------------------------------
(* Nothing is lost without a failed operation.                             *)

\* The number of the last record that has reached flash.
Landed == made - Len(queue) - Len(buf)

\* The queue follows the batch, and the batch follows what is in flash.
Numbers ==
  faults = 0 =>
    /\ \A k \in DOMAIN queue : queue[k].id = made - Len(queue) + k
    /\ \A k \in DOMAIN buf : buf[k].id = Landed + k
BufHome == pc \notin {"write", "head"} => buf = <<>>
NotStale == faults = 0 => ~stale
FullUse == faults = 0 /\ open /\ ~Restarting => Len(blk[block].recs) = used
BootOld == boots > 0 /\ \A b \in Blocks : \A r \in InFlash(b) : r.boot <= boots /\ (r.boot = boots => ready)

Own(r) == r.boot = boots /\ \E b \in Blocks : r \in InFlash(b)
Unbroken ==
  faults = 0 /\ ready =>
    \A r : Own(r) => \A i \in r.id .. Landed : \E q : Own(q) /\ q.id = i

KeepInv == Numbers /\ BufHome /\ NotStale /\ FullUse /\ BootOld /\ Unbroken

LEMMA Faultless ==
  ASSUME IInv, [Next]_vars, faults' = 0
  PROVE  faults = 0 /\ ~Fault /\ ~GiveUp
<1>1. Fault \/ UNCHANGED faults
  BY DEF Next, Step, vars, Start, StartFails, PowerCut, Record, SnapRequest, LoggerTake, DumpTake, EraseTake,
     SnapSkip, SnapErase, SnapHead, SnapBody, LoggerDue, FlushTake, OpenErase, OpenHead, AppendRun,
     CloseBlock, CloseReadFails, FlushEnd, EraseFlash, EraseQueue, EraseReset, GiveUp
<1>2. faults \in Nat
  BY Sizes DEF IInv, CountOK, Bad
<1>3. ~Fault
  BY <1>2 DEF Fault
<1>4. QED
  BY <1>1, <1>3 DEF GiveUp

LEMMA HomeStep ==
  ASSUME BufHome, [Next]_vars
  PROVE  BufHome'
<1>1. CASE PowerCut
  BY <1>1 DEF PowerCut, BufHome
<1>2. CASE OpenErase \/ OpenHead \/ AppendRun
  BY <1>2 DEF OpenErase, OpenHead, AppendRun, GiveUp, BufHome
<1>3. CASE FlushTake \/ FlushEnd \/ CloseBlock \/ CloseReadFails
  BY <1>3 DEF FlushTake, FlushEnd, CloseBlock, CloseReadFails, BufHome
<1>4. CASE Start \/ StartFails \/ Record \/ SnapRequest \/ LoggerTake \/ DumpTake \/ EraseTake
           \/ SnapSkip \/ SnapErase \/ SnapHead \/ SnapBody \/ LoggerDue
           \/ EraseFlash \/ EraseQueue \/ EraseReset \/ UNCHANGED vars
  <2>1. UNCHANGED buf
    BY <1>4 DEF Start, StartFails, Record, SnapRequest, LoggerTake, DumpTake, EraseTake,
       SnapSkip, SnapErase, SnapHead, SnapBody, LoggerDue, EraseFlash, EraseQueue, EraseReset, vars
  <2>2. pc \notin {"write", "head"} \/ UNCHANGED pc
    BY <1>4 DEF Start, StartFails, Record, SnapRequest, LoggerTake, DumpTake, EraseTake,
       SnapSkip, SnapErase, SnapHead, SnapBody, LoggerDue, EraseFlash, EraseQueue, EraseReset, vars
  <2>3. QED
    BY <2>1, <2>2 DEF BufHome
<1>5. QED
  BY <1>1, <1>2, <1>3, <1>4 DEF Next, Step

\* What a step without a fault does with the queue and the batch.
FreeMove ==
  \/ buf' = buf /\ ((queue' = queue /\ made' = made) \/ Grows)
  \/ buf = <<>> /\ buf' = queue /\ queue' = <<>> /\ made' = made
  \/ buf' = <<>> /\ queue' = <<>> /\ (PowerCut \/ EraseQueue)
  \/ Wrote

LEMMA FreeMoves ==
  ASSUME IInv, BufHome, [Next]_vars, faults' = 0
  PROVE  FreeMove
<1>0. ~Fault /\ ~GiveUp
  BY Faultless
<1>1. CASE Record \/ SnapBody \/ EraseReset \/ Start
  <2>1. buf' = buf
    BY <1>1 DEF Record, SnapBody, EraseReset, Start
  <2>2. Enqueue(queue) \/ UNCHANGED <<queue, made>>
    BY <1>1 DEF Record, SnapBody, EraseReset, Start
  <2>3. QED
    BY <2>1, <2>2, EnqueueMoves DEF FreeMove
<1>2. CASE FlushEnd
  BY <1>2 DEF FlushEnd, Grows, FreeMove
<1>3. CASE FlushTake
  BY <1>3 DEF FlushTake, FreeMove, BufHome
<1>4. CASE PowerCut
  BY <1>4 DEF PowerCut, FreeMove
<1>5. CASE EraseQueue
  BY <1>5 DEF EraseQueue, BufHome, FreeMove
<1>6. CASE OpenErase \/ OpenHead \/ CloseBlock \/ CloseReadFails \/ EraseFlash
           \/ StartFails \/ SnapRequest \/ LoggerTake \/ DumpTake \/ EraseTake
           \/ SnapSkip \/ SnapErase \/ SnapHead \/ LoggerDue \/ UNCHANGED vars
  <2>1. UNCHANGED <<queue, buf, made>>
    BY <1>0, <1>6 DEF OpenErase, OpenHead, CloseBlock, CloseReadFails, EraseFlash,
       StartFails, SnapRequest, LoggerTake, DumpTake, EraseTake,
       SnapSkip, SnapErase, SnapHead, LoggerDue, vars
  <2>2. QED
    BY <2>1 DEF FreeMove
<1>7. CASE AppendRun
  <2>1. CASE UNCHANGED used
    <3>1. used' = used + Run /\ used < FLOG_BLOCK_ROOM /\ buf # <<>> /\ open /\ pc = "write"
      BY <1>0, <1>7 DEF AppendRun
    <3>2. FlashOK /\ PlaceOK /\ QueueOK /\ OpenOK
      BY DEF IInv
    <3>3. used <= Len(blk[block].recs)
      BY <3>1, <3>2 DEF OpenOK
    <3>4. Run \in 1 .. Len(buf)
      BY <3>1, <3>2, <3>3, WrittenType
    <3>5. used \in Nat /\ Len(buf) \in Nat
      BY <3>2, Sizes DEF PlaceOK, Fill, QueueOK, Lines
    <3>6. FALSE
      BY <2>1, <3>1, <3>4, <3>5
    <3>7. QED
      BY <3>6
  <2>2. CASE ~UNCHANGED used
    BY <1>7, <2>2, WroteFacts DEF FreeMove
  <2>3. QED
    BY <2>1, <2>2
<1>8. QED
  BY <1>1, <1>2, <1>3, <1>4, <1>5, <1>6, <1>7 DEF Next, Step

LEMMA RamTypes ==
  ASSUME IInv
  PROVE  /\ queue \in Seq(Records) /\ buf \in Seq(Records) /\ made \in Nat
         /\ Len(queue) \in Nat /\ Len(buf) \in Nat /\ Landed \in Int
         /\ boots \in Nat /\ faults \in Nat /\ used \in Nat
<1>1. queue \in Seq(Records) /\ buf \in Seq(Records)
  BY DEF IInv, QueueOK, Lines
<1>2. Len(queue) \in Nat /\ Len(buf) \in Nat
  BY <1>1
<1>3. made \in Nat /\ boots \in Nat /\ faults \in Nat /\ used \in Nat
  BY Sizes DEF IInv, CountOK, Bad, PlaceOK, Fill
<1>4. QED
  BY <1>1, <1>2, <1>3 DEF Landed

LEMMA NumbersStep ==
  ASSUME IInv, Numbers, BufHome, [Next]_vars, faults' = 0
  PROVE  Numbers'
<1> DEFINE rec == [boot |-> boots, id |-> made + 1]
<1>0. /\ queue \in Seq(Records) /\ buf \in Seq(Records) /\ made \in Nat
      /\ Len(queue) \in Nat /\ Len(buf) \in Nat /\ boots \in Nat
  BY RamTypes
<1>1. /\ \A k \in DOMAIN queue : queue[k].id = made - Len(queue) + k
      /\ \A k \in DOMAIN buf : buf[k].id = made - Len(queue) - Len(buf) + k
  BY Faultless DEF Numbers, Landed
<1>2. FreeMove
  BY FreeMoves
<1>3. SUFFICES /\ \A k \in DOMAIN queue' : queue'[k].id = made' - Len(queue') + k
               /\ \A k \in DOMAIN buf' : buf'[k].id = made' - Len(queue') - Len(buf') + k
  BY DEF Numbers, Landed
<1>4. CASE buf' = buf /\ queue' = queue /\ made' = made
  BY <1>1, <1>4
<1>5. CASE buf' = buf /\ Grows
  <2>1. queue' = Append(queue, rec) /\ made' = made + 1 /\ buf' = buf
    BY <1>5 DEF Grows
  <2>2. rec \in Records /\ rec.id = made + 1
    BY <1>0 DEF Records
  <2> HIDE DEF rec
  <2>3. /\ Len(queue') = Len(queue) + 1 /\ DOMAIN queue' = 1 .. Len(queue) + 1
        /\ queue'[Len(queue) + 1] = rec
        /\ \A k \in 1 .. Len(queue) : queue'[k] = queue[k]
    BY <1>0, <2>1, <2>2
  <2>4. DOMAIN queue = 1 .. Len(queue) /\ DOMAIN buf = 1 .. Len(buf)
    BY <1>0
  <2>5. ASSUME NEW k \in DOMAIN queue' PROVE queue'[k].id = made' - Len(queue') + k
    <3>1. CASE k = Len(queue) + 1
      BY <1>0, <2>1, <2>2, <2>3, <3>1
    <3>2. CASE k # Len(queue) + 1
      <4>1. k \in 1 .. Len(queue) /\ k \in Nat
        BY <1>0, <2>3, <3>2
      <4>2. queue'[k].id = made - Len(queue) + k
        BY <1>1, <2>3, <2>4, <4>1
      <4>3. QED
        BY <1>0, <2>1, <2>3, <4>1, <4>2
    <3>3. QED
      BY <3>1, <3>2
  <2>6. ASSUME NEW k \in DOMAIN buf' PROVE buf'[k].id = made' - Len(queue') - Len(buf') + k
    <3>1. k \in Nat /\ buf[k].id = made - Len(queue) - Len(buf) + k
      BY <1>1, <2>1, <2>4
    <3>2. QED
      BY <1>0, <2>1, <2>3, <3>1
  <2>7. QED
    BY <2>5, <2>6
<1>6. CASE buf = <<>> /\ buf' = queue /\ queue' = <<>> /\ made' = made
  <2>1. DOMAIN queue' = {} /\ Len(queue') = 0 /\ DOMAIN queue = 1 .. Len(queue)
    BY <1>0, <1>6
  <2>2. QED
    BY <1>0, <1>1, <1>6, <2>1
<1>7. CASE buf' = <<>> /\ queue' = <<>>
  <2>1. DOMAIN queue' = {} /\ DOMAIN buf' = {}
    BY <1>7
  <2>2. QED
    BY <2>1
<1>8. CASE Wrote
  <2>1. queue' = queue /\ made' = made /\ buf' = SubSeq(buf, Run + 1, Len(buf)) /\ Run \in 1 .. Len(buf)
    BY <1>8 DEF Wrote
  <2> HIDE DEF Run
  <2>2. PICK n \in 1 .. Len(buf) : n = Run
    BY <2>1
  <2>3. /\ Len(buf') = Len(buf) - n /\ DOMAIN buf' = 1 .. Len(buf) - n
        /\ \A k \in 1 .. Len(buf) - n : buf'[k] = buf[n + k]
    BY <1>0, <2>1, <2>2
  <2>4. DOMAIN buf = 1 .. Len(buf)
    BY <1>0
  <2>5. ASSUME NEW k \in DOMAIN buf' PROVE buf'[k].id = made' - Len(queue') - Len(buf') + k
    <3>1. n + k \in DOMAIN buf /\ buf'[k] = buf[n + k] /\ k \in Nat
      BY <1>0, <2>3, <2>4
    <3>2. buf'[k].id = made - Len(queue) - Len(buf) + (n + k)
      BY <1>1, <3>1
    <3>3. Len(queue') = Len(queue) /\ made' = made /\ Len(buf') = Len(buf) - n
      BY <2>1, <2>3
    <3>4. n \in Nat /\ buf'[k].id = made - Len(queue) - Len(buf) + (n + k)
      BY <1>0, <2>2, <3>1, <3>2
    <3>5. made - Len(queue) - Len(buf) + (n + k) = made' - Len(queue') - Len(buf') + k
      BY <1>0, <3>1, <3>3, <3>4
    <3>6. QED
      BY <3>4, <3>5
  <2>6. QED
    BY <1>1, <2>1, <2>5
<1>9. QED
  BY <1>2, <1>4, <1>5, <1>6, <1>7, <1>8 DEF FreeMove

LEMMA NotStaleStep ==
  ASSUME IInv, NotStale, [Next]_vars, faults' = 0
  PROVE  ~stale'
<1>0. ~Fault /\ ~stale
  BY Faultless DEF NotStale
<1>1. CASE EraseFlash
  <2>1. PICK n \in 0 .. FLOG_RECORD_BLOCKS, m \in 0 .. FLOG_SNAP_SLOTS :
          /\ blk' = [b \in Blocks |-> IF b < n THEN NoBlock ELSE blk[b]]
          /\ slot' = [k \in Slots |-> IF k < m THEN NoSlot ELSE slot[k]]
          /\ n = FLOG_RECORD_BLOCKS /\ m = FLOG_SNAP_SLOTS
    BY <1>0, <1>1 DEF EraseFlash
  <2>2. \A b \in Blocks : ~blk'[b].valid
    BY <2>1, Sizes DEF Blocks, NoBlock
  <2>3. \A k \in Slots : ~slot'[k].valid
    BY <2>1, Sizes DEF Slots, NoSlot
  <2>4. QED
    BY <1>1, <2>2, <2>3 DEF EraseFlash
<1>2. CASE ~EraseFlash
  <2>1. UNCHANGED stale
    BY <1>2 DEF Next, Step, vars, ghost, Start, StartFails, PowerCut, Record, SnapRequest, LoggerTake, DumpTake,
       EraseTake, SnapSkip, SnapErase, SnapHead, SnapBody, LoggerDue, FlushTake, OpenErase, OpenHead, AppendRun,
       CloseBlock, CloseReadFails, FlushEnd, EraseQueue, EraseReset
  <2>2. QED
    BY <1>0, <2>1
<1>3. QED
  BY <1>1, <1>2

\* Without a fault, a step leaves the blocks and the place in them alone, or
\* is one of eight.
Quiet == UNCHANGED <<blk, block, used, open, ready, boots>> /\ (Restarting <=> Restarting')

LEMMA FreeCases ==
  ASSUME IInv, [Next]_vars, faults' = 0
  PROVE  \/ Quiet \/ Wrote \/ (OpenErase /\ pc' = "head") \/ OpenHead \/ CloseBlock
         \/ EraseFlash \/ EraseReset \/ Start \/ PowerCut
<1>0. ~Fault /\ ~GiveUp
  BY Faultless
<1>1. CASE \/ Record \/ SnapRequest \/ LoggerTake \/ DumpTake \/ EraseTake \/ StartFails
           \/ SnapSkip \/ SnapErase \/ SnapHead \/ SnapBody \/ LoggerDue
           \/ FlushTake \/ CloseReadFails \/ FlushEnd \/ EraseQueue \/ UNCHANGED vars
  <2>1. UNCHANGED <<blk, block, used, open, ready, boots>>
    BY <1>1 DEF Record, SnapRequest, LoggerTake, DumpTake, EraseTake, StartFails,
       SnapSkip, SnapErase, SnapHead, SnapBody, LoggerDue,
       FlushTake, CloseReadFails, FlushEnd, EraseQueue, flash, place, ghost, vars
  <2>2. Restarting <=> Restarting'
    BY <1>1 DEF Record, SnapRequest, LoggerTake, DumpTake, EraseTake, StartFails,
       SnapSkip, SnapErase, SnapHead, SnapBody, LoggerDue, SnapOver,
       FlushTake, CloseReadFails, FlushEnd, EraseQueue, vars, Restarting
  <2>3. QED
    BY <2>1, <2>2 DEF Quiet
<1>2. CASE OpenErase
  BY <1>0, <1>2 DEF OpenErase
<1>3. CASE AppendRun
  <2>1. CASE UNCHANGED used
    <3>1. used' = used + Run /\ used < FLOG_BLOCK_ROOM /\ buf # <<>> /\ open /\ pc = "write"
      BY <1>0, <1>3 DEF AppendRun
    <3>2. FlashOK /\ PlaceOK /\ QueueOK /\ OpenOK
      BY DEF IInv
    <3>3. used <= Len(blk[block].recs)
      BY <3>1, <3>2 DEF OpenOK
    <3>4. Run \in 1 .. Len(buf)
      BY <3>1, <3>2, <3>3, WrittenType
    <3>5. used \in Nat /\ Len(buf) \in Nat
      BY RamTypes
    <3>6. QED
      BY <2>1, <3>1, <3>4, <3>5
  <2>2. CASE ~UNCHANGED used
    BY <1>3, <2>2, WroteFacts
  <2>3. QED
    BY <2>1, <2>2
<1>4. QED
  BY <1>1, <1>2, <1>3 DEF Next, Step

LEMMA BootOldStep ==
  ASSUME IInv, OrderInv, Awake, BootOld, [Next]_vars
  PROVE  BootOld'
<1>0. /\ boots \in Nat /\ boots > 0
      /\ \A b \in Blocks : \A r \in InFlash(b) : r.boot <= boots /\ (r.boot = boots => ready)
      /\ \A b \in Blocks : \A r \in InFlash(b) : r.boot \in Nat
  <2>1. \A b \in Blocks : InFlash(b) \subseteq Records
    BY HeadTypes
  <2>2. QED
    BY <2>1, RamTypes DEF BootOld, Records
<1>1. \/ UNCHANGED <<boots, ready>>
      \/ boots' = boots /\ ready'
      \/ PowerCut
  BY DEF Next, Step, vars, ghost, Start, StartFails, Record, SnapRequest, LoggerTake, DumpTake, EraseTake,
     SnapSkip, SnapErase, SnapHead, SnapBody, LoggerDue, FlushTake, OpenErase, OpenHead, AppendRun,
     CloseBlock, CloseReadFails, FlushEnd, EraseFlash, EraseQueue, EraseReset
<1>2. CASE Kept
  <2>1. \A b \in Blocks : InFlash(b)' \subseteq InFlash(b)
    BY <1>2, InFlashKept
  <2>2. PICK n : n = boots'
    OBVIOUS
  <2>3. n > 0 /\ \A b \in Blocks : \A r \in InFlash(b) : r.boot <= n /\ (r.boot = n => ready')
    <3>1. CASE PowerCut
      <4>1. n = boots + 1
        BY <2>2, <3>1 DEF PowerCut
      <4>2. n > 0 /\ \A b \in Blocks : \A r \in InFlash(b) : r.boot <= n /\ r.boot # n
        BY <1>0, <4>1
      <4>3. QED
        BY <4>2
    <3>2. CASE ~PowerCut
      BY <1>0, <1>1, <2>2, <3>2
    <3>3. QED
      BY <3>1, <3>2
  <2>4. QED
    BY <2>1, <2>2, <2>3 DEF BootOld
<1>3. CASE AppendRun /\ ~UNCHANGED used
  <2>1. Wrote
    BY <1>3, WroteFacts
  <2>2. ready /\ boots' = boots /\ ready' = ready
    BY <2>1 DEF Wrote, ghost, Awake
  <2>3. \A b \in Blocks \ {block} : InFlash(b)' = InFlash(b)
    BY <2>1 DEF Wrote, InFlash
  <2>4. ASSUME NEW b \in Blocks, NEW r \in InFlash(b)' PROVE r.boot <= boots
    <3>1. CASE b # block
      BY <1>0, <2>3, <3>1
    <3>2. CASE b = block
      <4>1. PICK k \in Places(blk'[block].recs) : r = blk'[block].recs[k]
        BY <3>2 DEF InFlash
      <4>2. CASE k \in Places(blk[block].recs) /\ blk'[block].recs[k] = blk[block].recs[k]
        BY <1>0, <3>2, <4>1, <4>2 DEF InFlash
      <4>3. CASE k - used \in 1 .. Run /\ blk'[block].recs[k] = buf[k - used]
        <5>1. Run \in 1 .. Len(buf) /\ Len(buf) \in Nat /\ buf \in Seq(Records)
          BY <2>1, RamTypes DEF Wrote
        <5>2. k - used \in DOMAIN buf
          BY <4>3, <5>1
        <5>3. r.boot = boots
          BY <4>1, <4>3, <5>2 DEF OrderInv, RamOrder
        <5>4. QED
          BY <1>0, <5>3
      <4>4. QED
        BY <2>1, <4>1, <4>2, <4>3 DEF Wrote
    <3>3. QED
      BY <3>1, <3>2
  <2>5. QED
    BY <1>0, <2>2, <2>4 DEF BootOld
<1>4. QED
  BY <1>2, <1>3, StepKept

LEMMA WroteAll ==
  ASSUME IInv, Wrote, Len(blk[block].recs) = used
  PROVE  /\ Len(blk'[block].recs) = used'
         /\ \A k \in DOMAIN blk[block].recs :
              k \in DOMAIN blk'[block].recs /\ blk'[block].recs[k] = blk[block].recs[k]
         /\ \A j \in 1 .. Run : /\ used + j \in DOMAIN blk'[block].recs
                                /\ blk'[block].recs[used + j] = buf[j]
<1> DEFINE old == blk[block].recs
<1>1. used \in Nat /\ Run \in 1 .. Len(buf) /\ Len(buf) \in Nat /\ used' = used + Run
  BY RamTypes DEF Wrote
<1>2. old \in Seq(Records)
  <2>1. blk \in [Blocks -> BlockRec] /\ block \in Blocks
    BY HeadTypes
  <2>2. QED
    BY <2>1 DEF BlockRec, Runs
<1>3. blk'[block].recs = Written
  <2>1. blk'[block] = [blk[block] EXCEPT !.recs = Written] /\ blk[block] \in BlockRec
    BY HeadTypes DEF Wrote
  <2>2. QED
    BY <2>1 DEF BlockRec
<1> HIDE DEF Run
<1>4. PICK n \in 1 .. Len(buf) : n = Run
  BY <1>1
<1>5. Written = [k \in 1 .. used + n |-> IF k <= used THEN old[k] ELSE buf[k - used]]
  <2>1. Len(old) = used /\ ~(used > used + n)
    BY <1>1, <1>4
  <2>2. QED
    BY <1>4, <2>1 DEF Written
<1>6. PICK w : w = blk'[block].recs
  OBVIOUS
<1> HIDE DEF old
<1>7. w = [k \in 1 .. used + n |-> IF k <= used THEN old[k] ELSE buf[k - used]]
  BY <1>3, <1>5, <1>6
<1>8. Len(w) = used + n /\ DOMAIN w = 1 .. used + n
  BY <1>1, <1>4, <1>7
<1>9. DOMAIN old = 1 .. used
  BY <1>2 DEF old
<1>10. \A k \in DOMAIN old : k \in DOMAIN w /\ w[k] = old[k]
  BY <1>1, <1>4, <1>7, <1>8, <1>9
<1>11. \A j \in 1 .. n : used + j \in DOMAIN w /\ w[used + j] = buf[j]
  BY <1>1, <1>4, <1>7, <1>8
<1>12. QED
  BY <1>1, <1>4, <1>6, <1>8, <1>10, <1>11 DEF old

LEMMA FullUseStep ==
  ASSUME IInv, HeadInv, FullUse, [Next]_vars, faults' = 0
  PROVE  FullUse'
<1>0. faults = 0 /\ ~GiveUp
  BY Faultless
<1>1. blk \in [Blocks -> BlockRec] /\ block \in Blocks
  BY HeadTypes
<1>2. CASE Quiet
  BY <1>0, <1>2 DEF Quiet, FullUse
<1>3. CASE Wrote
  <2>1. Len(blk[block].recs) = used /\ block' = block
    BY <1>0, <1>3 DEF Wrote, FullUse, Restarting
  <2>2. Len(blk'[block].recs) = used'
    BY <1>3, <2>1, WroteAll
  <2>3. QED
    BY <2>1, <2>2 DEF FullUse
<1>4. CASE OpenHead
  <2>1. blk[block].recs = <<>>
    BY <1>1, <1>4 DEF OpenHead, HeadInv, HeadClean, RecsValid
  <2>2. /\ blk' = [blk EXCEPT ![block].valid = TRUE, ![block].session = session, ![block].seq = seq]
        /\ used' = 0 /\ block' = block
    BY <1>0, <1>4 DEF OpenHead
  <2>3. blk'[block].recs = blk[block].recs
    BY <1>1, <2>2 DEF BlockRec
  <2>4. Len(blk'[block].recs) = 0
    BY <2>1, <2>3
  <2>5. QED
    BY <2>2, <2>4 DEF FullUse
<1>5. CASE (OpenErase /\ pc' = "head") \/ CloseBlock \/ EraseReset \/ Start \/ PowerCut
  <2>1. ~open'
    BY <1>5 DEF OpenErase, CloseBlock, EraseReset, Start, PowerCut, place
  <2>2. QED
    BY <2>1 DEF FullUse
<1>6. CASE EraseFlash
  BY <1>6 DEF EraseFlash, Restarting, FullUse
<1>7. QED
  BY <1>2, <1>3, <1>4, <1>5, <1>6, FreeCases

\* How far the flash has got after a step without a fault.
LEMMA LandedMoves ==
  ASSUME IInv, BufHome, [Next]_vars, faults' = 0
  PROVE  \/ ~Wrote /\ Landed' = Landed
         \/ EraseQueue \/ PowerCut
         \/ Wrote /\ Landed' = Landed + Run
<1>0. /\ queue \in Seq(Records) /\ buf \in Seq(Records) /\ made \in Nat /\ boots \in Nat
      /\ Len(queue) \in Nat /\ Len(buf) \in Nat
  BY RamTypes
<1>1. FreeMove
  BY FreeMoves
<1>2. CASE ~Wrote /\ buf' = buf /\ queue' = queue /\ made' = made
  BY <1>2 DEF Landed
<1>3. CASE ~Wrote /\ buf' = buf /\ Grows
  <2>1. Len(queue') = Len(queue) + 1
    BY <1>0, <1>3 DEF Grows
  <2>2. QED
    BY <1>0, <1>3, <2>1 DEF Grows, Landed
<1>4. CASE ~Wrote /\ buf = <<>> /\ buf' = queue /\ queue' = <<>> /\ made' = made
  BY <1>0, <1>4 DEF Landed
<1>5. CASE Wrote
  <2>1. queue' = queue /\ made' = made /\ buf' = SubSeq(buf, Run + 1, Len(buf)) /\ Run \in 1 .. Len(buf)
    BY <1>5 DEF Wrote
  <2> HIDE DEF Run
  <2>2. PICK n \in 1 .. Len(buf) : n = Run
    BY <2>1
  <2>3. Len(buf') = Len(buf) - n
    BY <1>0, <2>1, <2>2
  <2>4. n \in Nat /\ Len(queue') = Len(queue)
    BY <1>0, <2>1, <2>2
  <2>5. Landed' = made - Len(queue) - (Len(buf) - n)
    BY <2>1, <2>3, <2>4 DEF Landed
  <2>6. Landed' = Landed + n
    BY <1>0, <2>4, <2>5 DEF Landed
  <2>7. QED
    BY <1>5, <2>2, <2>6
<1>6. QED
  BY <1>1, <1>2, <1>3, <1>4, <1>5 DEF FreeMove

LEMMA UnbrokenStep ==
  ASSUME ~TornHead, LogInv, LogInv', KeepInv, [Next]_vars, faults' = 0, ready'
  PROVE  \A r : Own(r)' => \A i \in r.id .. Landed' : \E q : Own(q)' /\ q.id = i
<1>0. /\ IInv /\ OrderInv /\ HeadInv /\ Awake /\ faults = 0 /\ ~stale /\ ~stale'
      /\ Numbers /\ BufHome /\ FullUse /\ BootOld
  BY Faultless, NotStaleStep DEF LogInv, SlotInv, KeepInv, NotStale
<1>1. ready => \A r : Own(r) => \A i \in r.id .. Landed : \E q : Own(q) /\ q.id = i
  BY <1>0 DEF KeepInv, Unbroken
<1>2. \/ ~Wrote /\ Landed' = Landed
      \/ EraseQueue \/ PowerCut
      \/ Wrote /\ Landed' = Landed + Run
  BY <1>0, LandedMoves
<1>3. /\ blk \in [Blocks -> BlockRec] /\ block \in Blocks /\ boots \in Nat /\ used \in Nat
      /\ Landed \in Int
      /\ \A r : Own(r) => r \in Records /\ r.id \in Nat
  BY <1>0, HeadTypes, RamTypes DEF Own, Records
<1>4. ASSUME \A b \in Blocks : ~blk'[b].valid
      PROVE  \A r : ~Own(r)'
  <2>1. \A b \in Blocks : InFlash(b)' = {}
    <3>1. RecsValid'
      BY DEF LogInv, HeadInv
    <3>2. \A b \in Blocks : blk'[b].recs = <<>>
      BY <1>4, <3>1 DEF RecsValid
    <3>3. QED
      BY <3>2 DEF InFlash, Places
  <2>2. QED
    BY <2>1 DEF Own
<1>5. CASE EraseFlash \/ EraseQueue
  <2>1. Restarting'
    BY <1>5 DEF EraseFlash, EraseQueue, Restarting
  <2>2. \A b \in Blocks : ~blk'[b].valid
    BY <1>0, <2>1 DEF LogInv, HeadInv, CleanBlocks
  <2>3. QED
    BY <1>4, <2>2
<1>6. CASE Start
  <2>1. ~ready /\ UNCHANGED <<blk, boots>>
    BY <1>0, <1>6 DEF Start, ghost, Awake
  <2>2. \A r : ~Own(r)
    BY <1>0, <2>1 DEF BootOld, Own
  <2>3. \A r : ~Own(r)'
    BY <2>1, <2>2 DEF Own, InFlash
  <2>4. QED
    BY <2>3
<1>7. CASE Landed' = Landed /\ boots' = boots /\ ready
           /\ \A b \in Blocks : InFlash(b)' = InFlash(b)
  <2>1. \A r : Own(r)' <=> Own(r)
    BY <1>7 DEF Own
  <2>2. QED
    BY <1>1, <1>7, <2>1
<1>8. CASE Landed' = Landed /\ (Quiet \/ OpenHead \/ CloseBlock \/ EraseReset)
  <2>1. boots' = boots /\ ready
    BY <1>8 DEF Quiet, OpenHead, CloseBlock, EraseReset, ghost
  <2>2. \A b \in Blocks : blk'[b].recs = blk[b].recs
    <3>1. \/ UNCHANGED blk
          \/ blk' = [blk EXCEPT ![block].valid = TRUE, ![block].session = session, ![block].seq = seq]
          \/ blk' = [blk EXCEPT ![block].closed = TRUE]
      BY <1>8 DEF Quiet, OpenHead, CloseBlock, EraseReset, flash
    <3>2. QED
      BY <1>3, <3>1 DEF BlockRec
  <2>3. \A b \in Blocks : InFlash(b)' = InFlash(b)
    BY <2>2 DEF InFlash, Places
  <2>4. QED
    BY <1>7, <1>8, <2>1, <2>3
<1>9. CASE Landed' = Landed /\ OpenErase /\ pc' = "head"
  <2>1. /\ blk' = [blk EXCEPT ![block] = NoBlock] /\ pc = "write" /\ boots' = boots /\ ready
    BY <1>9 DEF OpenErase, GiveUp, ghost
  <2>2. PICK p \in Blocks : p = block
    BY <1>3
  <2>3. ~blk'[p].valid /\ blk'[p].recs = <<>> /\ \A b \in Blocks \ {p} : blk'[b] = blk[b]
    <3>1. blk'[p] = NoBlock /\ \A b \in Blocks \ {p} : blk'[b] = blk[b]
      BY <1>3, <2>1, <2>2
    <3>2. QED
      BY <3>1 DEF NoBlock
  <2>4. InFlash(p)' = {} /\ \A b \in Blocks \ {p} : InFlash(b)' = InFlash(b)
    BY <2>3 DEF InFlash, Places
  <2>5. InFlash(p) # {} =>
          \A c \in Blocks \ {p} : \A r \in InFlash(p), q \in InFlash(c) : r.id < q.id
    <3>1. Next
      BY <1>9 DEF Next, Step
    <3>2. QED
      BY <1>0, <2>1, <2>3, <3>1, NewestStep
  <2>6. ASSUME NEW r, Own(r)', NEW i \in r.id .. Landed' PROVE \E q : Own(q)' /\ q.id = i
    <3>1. PICK c \in Blocks \ {p} : r \in InFlash(c) /\ r.boot = boots
      <4>1. PICK c \in Blocks : r \in InFlash(c)' /\ r.boot = boots
        BY <2>1, <2>6 DEF Own
      <4>2. c # p /\ r \in InFlash(c)
        BY <2>4, <4>1
      <4>3. QED
        BY <4>1, <4>2
    <3>2. Own(r) /\ i \in r.id .. Landed /\ r.id \in Nat
      BY <1>3, <1>9, <2>6, <3>1 DEF Own
    <3>3. PICK q : Own(q) /\ q.id = i
      BY <1>1, <2>1, <3>2
    <3>4. ~(q.id < r.id) /\ q.id \in Nat
      BY <1>3, <3>2, <3>3
    <3>5. PICK b \in Blocks : q \in InFlash(b) /\ q.boot = boots
      BY <3>3 DEF Own
    <3>6. b # p
      BY <2>5, <3>1, <3>4, <3>5
    <3>7. q \in InFlash(b)'
      BY <2>4, <3>5, <3>6
    <3>8. Own(q)'
      BY <2>1, <3>5, <3>7 DEF Own
    <3>9. QED
      BY <3>3, <3>8
  <2>7. QED
    BY <2>6
<1>10. CASE Wrote /\ Landed' = Landed + Run
  <2>1. ready /\ boots' = boots /\ Run \in 1 .. Len(buf) /\ pc = "write" /\ open
    BY <1>10 DEF Wrote, ghost
  <2>2. Len(blk[block].recs) = used
    BY <1>0, <2>1 DEF FullUse, Restarting
  <2>3. /\ \A k \in DOMAIN blk[block].recs :
             k \in DOMAIN blk'[block].recs /\ blk'[block].recs[k] = blk[block].recs[k]
        /\ \A j \in 1 .. Run : /\ used + j \in DOMAIN blk'[block].recs
                               /\ blk'[block].recs[used + j] = buf[j]
    BY <1>0, <1>10, <2>2, WroteAll
  <2>4. \A b \in Blocks \ {block} : blk'[b] = blk[b]
    BY <1>10 DEF Wrote
  <2> HIDE DEF Run
  <2>5. PICK n \in 1 .. Len(buf) : n = Run
    BY <2>1
  <2>6. /\ Len(buf) \in Nat /\ DOMAIN buf = 1 .. Len(buf)
        /\ \A k \in DOMAIN buf : buf[k].boot = boots /\ buf[k].id = Landed + k
    BY <1>0, RamTypes DEF OrderInv, RamOrder, Numbers
  <2>7. ASSUME NEW b \in Blocks PROVE InFlash(b) \subseteq InFlash(b)'
    BY <2>3, <2>4 DEF InFlash, Places
  <2>8. \A r : Own(r) => Own(r)'
    BY <2>1, <2>7 DEF Own
  <2>9. ASSUME NEW j \in 1 .. n PROVE \E r : Own(r)' /\ r.id = Landed + j
    <3>1. j \in DOMAIN buf /\ buf[j].boot = boots /\ buf[j].id = Landed + j
      BY <2>5, <2>6
    <3>2. buf[j] # Torn
      <4>1. boots # 0
        BY <1>0, <1>3 DEF BootOld
      <4>2. QED
        BY <3>1, <4>1 DEF Torn
    <3>3. PICK k : k = used + j
      OBVIOUS
    <3>4. k \in DOMAIN blk'[block].recs /\ blk'[block].recs[k] = buf[j]
      BY <2>3, <2>5, <3>3
    <3>5. PICK r : r = buf[j]
      OBVIOUS
    <3>6. PICK b \in Blocks : b = block
      BY <1>3
    <3>7. r \in InFlash(b)'
      BY <3>2, <3>4, <3>5, <3>6 DEF InFlash, Places
    <3>8. Own(r)'
      BY <2>1, <3>1, <3>5, <3>7 DEF Own
    <3>9. QED
      BY <3>1, <3>5, <3>8
  <2>10. ASSUME NEW r, Own(r)' PROVE Own(r) \/ (r.id \in Int /\ r.id > Landed)
    <3>1. PICK b \in Blocks : r \in InFlash(b)' /\ r.boot = boots
      BY <2>1, <2>10 DEF Own
    <3>2. CASE b # block
      BY <2>4, <3>1, <3>2 DEF Own, InFlash
    <3>3. CASE b = block
      <4>1. PICK k \in Places(blk'[b].recs) : r = blk'[b].recs[k]
        BY <3>1 DEF InFlash
      <4>2. CASE k \in Places(blk[b].recs) /\ blk'[b].recs[k] = blk[b].recs[k]
        BY <3>1, <4>1, <4>2 DEF Own, InFlash
      <4>3. CASE k - used \in 1 .. n /\ blk'[b].recs[k] = buf[k - used]
        <5>1. PICK j \in 1 .. n : j = k - used
          BY <4>3
        <5>2. r.id = Landed + j
          BY <2>5, <2>6, <4>1, <4>3, <5>1
        <5>3. QED
          BY <1>3, <5>1, <5>2
      <4>4. QED
        BY <1>10, <2>5, <3>3, <4>1, <4>2, <4>3 DEF Wrote
    <3>4. QED
      BY <3>2, <3>3
  <2>11. ASSUME NEW r, Own(r)', NEW i \in r.id .. Landed' PROVE \E q : Own(q)' /\ q.id = i
    <3>1. r.id \in Int /\ i \in Int /\ i >= r.id /\ i <= Landed + n
      BY <1>3, <1>10, <2>5, <2>10, <2>11
    <3>2. CASE i > Landed
      <4>1. PICK j \in 1 .. n : i = Landed + j
        <5>1. i - Landed \in 1 .. n
          BY <1>3, <2>5, <2>6, <3>1, <3>2
        <5>2. i = Landed + (i - Landed)
          BY <1>3, <3>1
        <5>3. QED
          BY <5>1, <5>2
      <4>2. QED
        BY <2>9, <4>1
    <3>3. CASE ~(i > Landed)
      <4>1. Own(r) /\ i \in r.id .. Landed
        BY <1>3, <2>10, <2>11, <3>1, <3>3
      <4>2. QED
        BY <1>1, <2>1, <2>8, <4>1
    <3>4. QED
      BY <3>2, <3>3
  <2>12. QED
    BY <2>11
<1>11. ~PowerCut
  BY DEF PowerCut
<1>12. \/ Quiet \/ Wrote \/ (OpenErase /\ pc' = "head") \/ OpenHead \/ CloseBlock
       \/ EraseFlash \/ EraseReset \/ Start
  BY <1>0, <1>11, FreeCases
<1>13. CASE Wrote
  BY <1>2, <1>5, <1>10, <1>11, <1>13
<1>14. CASE ~Wrote
  BY <1>2, <1>5, <1>6, <1>8, <1>9, <1>11, <1>12, <1>14
<1>15. QED
  BY <1>13, <1>14

LEMMA KeepSteps ==
  ASSUME ~TornHead
  PROVE  LogInv /\ LogInv' /\ KeepInv /\ [Next]_vars => KeepInv'
<1> SUFFICES ASSUME LogInv, LogInv', KeepInv, [Next]_vars PROVE KeepInv'
  OBVIOUS
<1>1. /\ IInv /\ OrderInv /\ HeadInv /\ Awake
      /\ Numbers /\ BufHome /\ NotStale /\ FullUse /\ BootOld /\ Unbroken
  BY DEF LogInv, SlotInv, KeepInv
<1>2. BufHome' /\ BootOld'
  BY <1>1, HomeStep, BootOldStep
<1>3. CASE faults' = 0
  <2>1. Numbers' /\ FullUse'
    BY <1>1, <1>3, NumbersStep, FullUseStep
  <2>2. NotStale'
    BY <1>1, <1>3, NotStaleStep DEF NotStale
  <2>3. Unbroken'
    BY <1>3, UnbrokenStep DEF Unbroken
  <2>4. QED
    BY <1>2, <2>1, <2>2, <2>3 DEF KeepInv
<1>4. CASE faults' # 0
  BY <1>2, <1>4 DEF KeepInv, Numbers, FullUse, NotStale, Unbroken
<1>5. QED
  BY <1>3, <1>4

LEMMA KeepInit == Init => KeepInv
<1> SUFFICES ASSUME Init PROVE KeepInv
  OBVIOUS
<1>1. /\ blk = [b \in Blocks |-> NoBlock] /\ queue = <<>> /\ buf = <<>> /\ ~open /\ ~ready
      /\ ~stale /\ boots = 1
  BY DEF Init
<1>2. \A b \in Blocks : InFlash(b) = {}
  BY <1>1 DEF InFlash, Places, NoBlock
<1>3. DOMAIN queue = {} /\ DOMAIN buf = {}
  BY <1>1
<1>4. QED
  BY <1>1, <1>2, <1>3 DEF KeepInv, Numbers, BufHome, NotStale, FullUse, BootOld, Unbroken

LEMMA NoneMissing ==
  ASSUME IInv, Numbers, Unbroken
  PROVE  NothingLost
<1> DEFINE mine == {r \in UNION {InFlash(b) : b \in Blocks} : r.boot = boots}
<1> SUFFICES ASSUME faults = 0, ready, NEW r \in mine, NEW i \in r.id .. made
             PROVE  \E q \in mine \cup InRam : q.id = i
  BY DEF NothingLost
<1>0. /\ made \in Nat /\ Len(queue) \in Nat /\ Len(buf) \in Nat /\ boots \in Nat
      /\ DOMAIN queue = 1 .. Len(queue) /\ DOMAIN buf = 1 .. Len(buf)
  BY RamTypes
<1>1. /\ \A k \in DOMAIN queue : queue[k].id = made - Len(queue) + k
      /\ \A k \in DOMAIN buf : buf[k].id = Landed + k
      /\ Landed = made - Len(queue) - Len(buf)
  BY DEF Numbers, Landed
<1>2. Own(r) /\ r.id \in Nat
  <2>1. r.boot = boots /\ r \in UNION {InFlash(b) : b \in Blocks}
    OBVIOUS
  <2>2. PICK b \in Blocks : r \in InFlash(b)
    BY <2>1
  <2>3. r.boot = boots /\ r.id \in Nat
    BY <2>1, <2>2, HeadTypes DEF Records
  <2>4. QED
    BY <2>2, <2>3 DEF Own
<1>3. \A q : Own(q) => q \in mine
  <2>1. \A b \in Blocks : InFlash(b) \subseteq Records
    BY HeadTypes
  <2>2. ASSUME NEW q, Own(q) PROVE q \in mine
    <3>1. PICK b \in Blocks : q \in InFlash(b) /\ q \in Records /\ q.boot = boots
      BY <2>1, <2>2 DEF Own
    <3>2. q \in UNION {InFlash(c) : c \in Blocks}
      BY <3>1
    <3>3. QED
      BY <3>1, <3>2
  <2>3. QED
    BY <2>2
<1>4. CASE i <= Landed
  <2>1. i \in r.id .. Landed
    BY <1>0, <1>1, <1>2, <1>4
  <2>2. PICK q : Own(q) /\ q.id = i
    BY <1>2, <2>1 DEF Unbroken
  <2>3. QED
    BY <1>3, <2>2
<1>5. CASE i > Landed /\ i <= made - Len(queue)
  <2>1. i - Landed \in DOMAIN buf /\ i = Landed + (i - Landed)
    BY <1>0, <1>1, <1>2, <1>5
  <2>2. PICK k \in DOMAIN buf : i = Landed + k
    BY <2>1
  <2>3. buf[k] \in InRam /\ buf[k].id = i
    BY <1>1, <2>2 DEF InRam
  <2>4. QED
    BY <2>3
<1>6. CASE i > made - Len(queue)
  <2>1. i - (made - Len(queue)) \in DOMAIN queue /\ i = made - Len(queue) + (i - (made - Len(queue)))
    BY <1>0, <1>2, <1>6
  <2>2. PICK k \in DOMAIN queue : i = made - Len(queue) + k
    BY <2>1
  <2>3. queue[k] \in InRam /\ queue[k].id = i
    BY <1>1, <2>2 DEF InRam
  <2>4. QED
    BY <2>3
<1>7. QED
  BY <1>0, <1>1, <1>2, <1>4, <1>5, <1>6

\* Without a failed flash operation every record the queue accepted is kept:
\* from the oldest record of the boot still in flash to the newest accepted
\* one, each is in flash, in the batch being written, or in the queue.  flush
\* empties the queue into a batch, a full block carries the rest of the batch
\* over to the next one, and only the reuse of the oldest block removes any.
THEOREM RecordsKept == ASSUME ~TornHead PROVE Spec /\ []NoWrap => []NothingLost
<1>1. Init => LogInv /\ KeepInv
  BY LogInit, KeepInit
<1>2. LogInv /\ NoWrap /\ [Next]_vars => LogInv'
  BY LogSteps
<1>3. LogInv /\ LogInv' /\ KeepInv /\ [Next]_vars => KeepInv'
  BY KeepSteps
<1>4. LogInv /\ KeepInv => NothingLost
  BY NoneMissing DEF LogInv, KeepInv
<1>5. QED
  BY <1>1, <1>2, <1>3, <1>4, PTL DEF Spec
=============================================================================
