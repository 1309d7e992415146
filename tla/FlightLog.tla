----------------------------- MODULE FlightLog -----------------------------
(***************************************************************************)
(* The onboard flight log (flightlog.c, flightlog_format.h).  Producers    *)
(* copy records into a RAM queue; a priority 1 task appends the queue to   *)
(* the current block of a ring of flash blocks, closes a full block, and   *)
(* writes IQ snapshots into a second ring.  The console dumps or erases    *)
(* the log under the same flash lock.  Power may go at any step; the next  *)
(* boot finds its place from what the flash holds.                         *)
(*                                                                         *)
(* A record stands for its bytes and takes one unit of queue and block.    *)
(* The reads of the boot scan are taken to succeed.                        *)
(***************************************************************************)
EXTENDS Naturals, Sequences, FiniteSets

CONSTANTS
  FLOG_RECORD_BLOCKS,  \* blocks of the record ring
  FLOG_BLOCK_ROOM,     \* records that fit a block
  FLOG_QUEUE,          \* records that fit the RAM queue
  FLOG_SNAP_SLOTS,     \* slots of the snapshot ring
  Triggers,            \* snapshot triggers, each by its flog_snap_priority
  Erased,              \* the word erased flash reads as (all ones)
  TornHead,            \* whether a power cut may leave half a block head
  MaxRecords, MaxDrops, MaxBoots, MaxRequests, MaxErases, MaxFaults  \* bounds of the model

ASSUME SizesAssumption ==
  /\ FLOG_RECORD_BLOCKS \in Nat \ {0, 1}
  /\ FLOG_BLOCK_ROOM \in Nat \ {0}
  /\ FLOG_QUEUE \in Nat \ {0}
  /\ FLOG_SNAP_SLOTS \in Nat
ASSUME TriggersAssumption == Triggers \subseteq 1 .. 4
ASSUME ErasedAssumption == Erased \in Nat \ {0}
ASSUME TornAssumption == TornHead \in BOOLEAN
ASSUME BoundsAssumption ==
  {MaxRecords, MaxDrops, MaxBoots, MaxRequests, MaxErases, MaxFaults} \subseteq Nat

Blocks == 0 .. FLOG_RECORD_BLOCKS - 1
Slots  == 0 .. FLOG_SNAP_SLOTS - 1
Words  == 0 .. Erased

\* A record by the boot that produced it and its place in the order in which
\* the queue accepted records; Torn is a record flash cannot give back.
Records == [boot : Nat, id : Nat]
Torn == [boot |-> 0, id |-> 0]

NoBlock == [valid |-> FALSE, session |-> 0, seq |-> 0, recs |-> <<>>, closed |-> FALSE]
NoSlot  == [valid |-> FALSE, trigger |-> 0, seq |-> 0, session |-> 0, boot |-> 0, whole |-> FALSE]
NoMeta  == [used |-> FALSE, trigger |-> 0, seq |-> 0]

VARIABLES
  header,     \* flash: the header sector is valid
  blk,        \* flash: the record blocks (head, records, CRC)
  slot,       \* flash: the snapshot slots (head, IQ bytes complete)
  ready,      \* s_ready
  session, seq, block, used, open,   \* s_session, s_seq, s_block, s_used, s_block_open
  queue,      \* s_queue
  buf,        \* what flush has yet to write of s_flush_buf
  drops,      \* s_dropped, its copy in flush, s_dropped_logged
  request,    \* s_snap_request
  meta,       \* s_slot_used, s_slot_trigger, s_slot_seq
  snapSeq,    \* s_snap_seq
  pc,         \* step of the task that holds s_flash_lock; "idle": nobody does
  trig,       \* the trigger of the snapshot in progress
  faults,     \* history: failed flash operations so far
  boots,      \* history: boots so far
  made,       \* history: records accepted so far
  asked,      \* history: snapshot requests so far
  erases,     \* history: erases so far
  stale       \* history: a failed erase left old blocks or snapshots behind

flash == <<header, blk, slot>>
place == <<session, seq, block, used, open>>
snaps == <<request, meta, snapSeq, trig>>
ghost == <<boots, asked, erases, stale>>
vars  == <<flash, ready, place, queue, buf, drops, snaps, pc, faults, made, ghost>>

-----------------------------------------------------------------------------
(* Power on. *)

Init ==
  /\ header = FALSE
  /\ blk = [b \in Blocks |-> NoBlock]
  /\ slot = [k \in Slots |-> NoSlot]
  /\ ready = FALSE
  /\ session = 0 /\ seq = 0 /\ block = 0 /\ used = 0 /\ open = FALSE
  /\ queue = <<>> /\ buf = <<>>
  /\ drops = [now |-> 0, seen |-> 0, logged |-> 0]
  /\ request = 0
  /\ meta = [k \in Slots |-> NoMeta]
  /\ snapSeq = 0 /\ trig = 0
  /\ pc = "off"
  /\ boots = 1 /\ made = 0 /\ asked = 0 /\ erases = 0 /\ faults = 0 /\ stale = FALSE

\* A flash operation reports an error.
Fault == faults < MaxFaults /\ faults' = faults + 1

\* 32-bit increment.
Inc(w) == (w + 1) % (Erased + 1)

\* flog_resume_add over every head: the block after the highest sequence
\* number, and the session after the highest session.
Valid == {b \in Blocks : blk[b].valid}
Newest == CHOOSE b \in Valid : \A c \in Valid :
            blk[c].seq < blk[b].seq \/ (blk[c].seq = blk[b].seq /\ b <= c)
TopSession == CHOOSE s \in {blk[b].session : b \in Valid} : \A b \in Valid : blk[b].session <= s

\* Mutant of Resume: continue in the newest block.
ResumeInPlace ==
  IF Valid = {} THEN session' = 1 /\ seq' = 1 /\ block' = 0
  ELSE /\ session' = Inc(TopSession)
       /\ seq' = Inc(blk[Newest].seq)
       /\ block' = Newest

Resume ==
  IF Valid = {} THEN session' = 1 /\ seq' = 1 /\ block' = 0
  ELSE /\ session' = Inc(TopSession)
       /\ seq' = Inc(blk[Newest].seq)
       /\ block' = (Newest + 1) % FLOG_RECORD_BLOCKS

\* The number after the highest one in the snapshot slots.  Mutant: the number
\* of slots in use.
UsedSlots == {k \in Slots : slot[k].valid}
NextSnapCount == Cardinality(UsedSlots)
NextSnap ==
  IF UsedSlots = {} THEN 0
  ELSE 1 + CHOOSE s \in {slot[k].seq : k \in UsedSlots} : \A k \in UsedSlots : slot[k].seq <= s

\* flightlog_record: a full queue drops the record and counts it.
Enqueue(q) ==
  IF Len(q) < FLOG_QUEUE
  THEN /\ queue' = Append(q, [boot |-> boots, id |-> made + 1])
       /\ made' = made + 1
       /\ UNCHANGED drops
  ELSE /\ drops' = [drops EXCEPT !.now = @ + 1]
       /\ queue' = q
       /\ UNCHANGED made

\* flightlog_start, with the session record as the first one of the boot.
Start ==
  /\ pc = "off"
  /\ header' = TRUE
  /\ Resume
  /\ used' = 0 /\ open' = FALSE
  /\ meta' = [k \in Slots |->
       IF slot[k].valid THEN [used |-> TRUE, trigger |-> slot[k].trigger, seq |-> slot[k].seq]
                        ELSE NoMeta]
  /\ snapSeq' = NextSnap
  /\ Enqueue(queue)
  /\ ready' = TRUE
  /\ pc' = "idle"
  /\ UNCHANGED <<blk, slot, buf, request, trig, faults, ghost>>

\* The header cannot be written, or the task cannot be created.
StartFails ==
  /\ pc = "off" /\ ~header
  /\ pc' = "dead"
  /\ Fault
  /\ UNCHANGED <<flash, ready, place, queue, buf, drops, snaps, made, ghost>>

\* Reset or battery pull.  An interrupted write may leave part of it.
TornHeads == IF TornHead THEN {[s |-> session, q |-> Erased], [s |-> Erased, q |-> Erased]} ELSE {}

PowerCut ==
  /\ boots < MaxBoots
  /\ boots' = boots + 1
  /\ \/ UNCHANGED blk
     \/ /\ pc = "head"
        /\ \E h \in TornHeads :
             blk' = [blk EXCEPT ![block].valid = TRUE, ![block].session = h.s, ![block].seq = h.q]
     \/ /\ pc = "write" /\ open /\ buf # <<>> /\ used < FLOG_BLOCK_ROOM
        /\ blk' = [blk EXCEPT ![block].recs = SubSeq(@, 1, used) \o <<Torn>>]
  /\ ready' = FALSE
  /\ session' = 0 /\ seq' = 0 /\ block' = 0 /\ used' = 0 /\ open' = FALSE
  /\ queue' = <<>> /\ buf' = <<>>
  /\ drops' = [now |-> 0, seen |-> 0, logged |-> 0]
  /\ request' = 0
  /\ meta' = [k \in Slots |-> NoMeta]
  /\ snapSeq' = 0 /\ trig' = 0
  /\ pc' = "off"
  /\ UNCHANGED <<header, slot, faults, made, asked, erases, stale>>

-----------------------------------------------------------------------------
(* Producers. *)

Record ==
  /\ ready
  /\ IF Len(queue) < FLOG_QUEUE THEN made < MaxRecords ELSE drops.now < MaxDrops
  /\ Enqueue(queue)
  /\ UNCHANGED <<flash, ready, place, buf, snaps, pc, faults, ghost>>

\* flightlog_snapshot_request: a more important request replaces a waiting one.
SnapRequest ==
  /\ ready /\ asked < MaxRequests
  /\ asked' = asked + 1
  /\ \E t \in Triggers : request' = IF t > request THEN t ELSE request
  /\ UNCHANGED <<flash, ready, place, queue, buf, drops, meta, snapSeq, trig, pc, faults, made, boots, erases, stale>>

-----------------------------------------------------------------------------
(* logger_task. *)

\* Woken with the lock free; a waiting request is taken once the gap since
\* the last snapshot has passed.
LoggerTake ==
  /\ ready /\ pc = "idle"
  /\ \/ request > 0 /\ trig' = request /\ request' = 0 /\ pc' = "snap"
     \/ pc' = "due" /\ UNCHANGED <<trig, request>>
  /\ UNCHANGED <<flash, ready, place, queue, buf, drops, meta, snapSeq, faults, made, ghost>>

\* flog_snap_victim: an empty slot, else the oldest of the least important
\* slots that are not more important than the new snapshot.
Empty == {k \in Slots : ~meta[k].used}
Lesser == {k \in Slots : meta[k].trigger <= trig}
Before(j, k) ==
  \/ meta[j].trigger < meta[k].trigger
  \/ meta[j].trigger = meta[k].trigger /\ meta[j].seq < meta[k].seq
  \/ meta[j].trigger = meta[k].trigger /\ meta[j].seq = meta[k].seq /\ j <= k
\* Mutant of Victim: the oldest slot, whatever it holds.
VictimOldest ==
  IF Empty # {} THEN CHOOSE k \in Empty : \A j \in Empty : k <= j
  ELSE CHOOSE k \in Slots : \A j \in Slots : meta[k].seq <= meta[j].seq

Victim ==
  IF Empty # {} THEN CHOOSE k \in Empty : \A j \in Empty : k <= j
  ELSE CHOOSE k \in Lesser : \A j \in Lesser : Before(k, j)

SnapOver == trig' = 0 /\ pc' = "due"

\* Skipped when every slot is more important, refused while the receiver is
\* busy or unsettled or memory is short; the request is consumed either way.
SnapSkip ==
  /\ pc = "snap"
  /\ SnapOver
  /\ UNCHANGED <<flash, ready, place, queue, buf, drops, meta, snapSeq, request, faults, made, ghost>>

\* The victim is erased, then written in two parts; its metadata changes only
\* when all three succeed.
SnapErase ==
  /\ pc = "snap" /\ Empty \cup Lesser # {}
  /\ \/ slot' = [slot EXCEPT ![Victim] = NoSlot] /\ pc' = "snapHead" /\ UNCHANGED <<trig, faults>>
     \/ UNCHANGED slot /\ SnapOver /\ Fault
  /\ UNCHANGED <<header, blk, ready, place, queue, buf, drops, meta, snapSeq, request, made, ghost>>

SnapHead ==
  /\ pc = "snapHead"
  /\ \/ /\ slot' = [slot EXCEPT ![Victim] = [valid |-> TRUE, trigger |-> trig, seq |-> snapSeq,
                                           session |-> session, boot |-> boots, whole |-> FALSE]]
        /\ pc' = "snapBody" /\ UNCHANGED <<trig, faults>>
     \/ UNCHANGED slot /\ SnapOver /\ Fault
  /\ UNCHANGED <<header, blk, ready, place, queue, buf, drops, meta, snapSeq, request, made, ghost>>

SnapBody ==
  /\ pc = "snapBody"
  /\ SnapOver
  /\ \/ /\ slot' = [slot EXCEPT ![Victim].whole = TRUE]
        /\ meta' = [meta EXCEPT ![Victim] = [used |-> TRUE, trigger |-> trig, seq |-> snapSeq]]
        /\ snapSeq' = snapSeq + 1
        /\ Enqueue(queue)
        /\ UNCHANGED faults
     \/ Fault /\ UNCHANGED <<slot, meta, snapSeq, queue, made, drops>>
  /\ UNCHANGED <<header, blk, ready, place, buf, request, ghost>>

\* Every FLOG_FLUSH_US, or when the queue is half full, the queue is flushed.
LoggerDue ==
  /\ pc = "due"
  /\ \/ pc' = "flush"
     \/ pc' = "idle"
  /\ UNCHANGED <<flash, ready, place, queue, buf, drops, snaps, faults, made, ghost>>

-----------------------------------------------------------------------------
(* flush, under the lock. *)

\* Mutant of FlushTake: the queue is copied but not emptied.
FlushTakeKeeps ==
  /\ pc = "flush"
  /\ buf' = queue
  /\ drops' = [drops EXCEPT !.seen = drops.now]
  /\ pc' = "write"
  /\ UNCHANGED <<flash, ready, place, queue, snaps, faults, made, ghost>>

FlushTake ==
  /\ pc = "flush"
  /\ buf' = queue /\ queue' = <<>>
  /\ drops' = [drops EXCEPT !.seen = drops.now]
  /\ pc' = "write"
  /\ UNCHANGED <<flash, ready, place, snaps, faults, made, ghost>>

\* flush returns on a failed erase or write; the rest of the batch is gone.
GiveUp ==
  /\ Fault
  /\ buf' = <<>>
  /\ pc' = "idle"

\* block_open: erase, then write the head.
OpenErase ==
  /\ pc = "write" /\ buf # <<>> /\ ~open
  /\ \/ blk' = [blk EXCEPT ![block] = NoBlock] /\ pc' = "head" /\ UNCHANGED <<buf, faults>>
     \/ UNCHANGED blk /\ GiveUp
  /\ UNCHANGED <<header, slot, ready, place, queue, drops, snaps, made, ghost>>

OpenHead ==
  /\ pc = "head"
  /\ \/ /\ blk' = [blk EXCEPT ![block].valid = TRUE, ![block].session = session, ![block].seq = seq]
        /\ used' = 0 /\ open' = TRUE
        /\ pc' = "write" /\ UNCHANGED <<buf, faults>>
     \/ UNCHANGED <<blk, used, open>> /\ GiveUp
  /\ UNCHANGED <<header, slot, ready, session, seq, block, queue, drops, snaps, made, ghost>>

\* The records that fit are written after the last good one.  What an earlier
\* failed write left there cannot be programmed again.
Run == IF Len(buf) < FLOG_BLOCK_ROOM - used THEN Len(buf) ELSE FLOG_BLOCK_ROOM - used
Written ==
  LET old == blk[block].recs
      end == IF Len(old) > used + Run THEN Len(old) ELSE used + Run
  IN [k \in 1 .. end |-> IF k <= Len(old) THEN old[k] ELSE buf[k - used]]

\* Mutant of AppendRun: what does not fit the block is forgotten.
AppendRunForgets ==
  /\ pc = "write" /\ buf # <<>> /\ open /\ used < FLOG_BLOCK_ROOM
  /\ blk' = [blk EXCEPT ![block].recs = Written]
  /\ used' = used + Run
  /\ buf' = <<>>
  /\ UNCHANGED <<header, slot, ready, session, seq, block, open, queue, drops, snaps, pc, faults, made, ghost>>

AppendRun ==
  /\ pc = "write" /\ buf # <<>> /\ open /\ used < FLOG_BLOCK_ROOM
  /\ \/ /\ blk' = [blk EXCEPT ![block].recs = Written]
        /\ used' = used + Run
        /\ buf' = SubSeq(buf, Run + 1, Len(buf))
        /\ UNCHANGED <<pc, faults>>
     \/ /\ \/ UNCHANGED blk
           \/ Len(blk[block].recs) = used /\ blk' = [blk EXCEPT ![block].recs = Append(@, Torn)]
        /\ UNCHANGED used
        /\ GiveUp
  /\ UNCHANGED <<header, slot, ready, session, seq, block, open, queue, drops, snaps, made, ghost>>

\* block_close: a block whose bytes cannot be read back stays open and is
\* tried again; a CRC that cannot be written leaves it without one.
CloseBlock ==
  /\ pc = "write" /\ buf # <<>> /\ open /\ used = FLOG_BLOCK_ROOM
  /\ \/ blk' = [blk EXCEPT ![block].closed = TRUE] /\ UNCHANGED faults
     \/ UNCHANGED blk /\ Fault
  /\ open' = FALSE
  /\ block' = (block + 1) % FLOG_RECORD_BLOCKS
  /\ seq' = Inc(seq)
  /\ UNCHANGED <<header, slot, ready, session, used, queue, buf, drops, snaps, pc, made, ghost>>

CloseReadFails ==
  /\ pc = "write" /\ buf # <<>> /\ open /\ used = FLOG_BLOCK_ROOM
  /\ Fault
  /\ UNCHANGED <<flash, ready, place, queue, buf, drops, snaps, pc, made, ghost>>

\* Drops counted since the last report become an event of their own.
FlushEnd ==
  /\ pc = "write" /\ buf = <<>>
  /\ IF drops.seen # drops.logged
     THEN IF Len(queue) < FLOG_QUEUE
          THEN /\ queue' = Append(queue, [boot |-> boots, id |-> made + 1])
               /\ made' = made + 1
               /\ drops' = [drops EXCEPT !.logged = drops.seen]
          ELSE /\ drops' = [drops EXCEPT !.logged = drops.seen, !.now = @ + 1]
               /\ UNCHANGED <<queue, made>>
     ELSE UNCHANGED <<queue, made, drops>>
  /\ pc' = "idle"
  /\ UNCHANGED <<flash, ready, place, buf, snaps, faults, ghost>>

-----------------------------------------------------------------------------
(* The console (W and X). *)

\* dump waits for the lock, flushes, and then only reads.
DumpTake ==
  /\ ready /\ pc = "idle"
  /\ pc' = "flush"
  /\ UNCHANGED <<flash, ready, place, queue, buf, drops, snaps, faults, made, ghost>>

\* erase_all: sector after sector from the header on, then a new header.
EraseTake ==
  /\ ready /\ pc = "idle" /\ erases < MaxErases
  /\ erases' = erases + 1
  /\ pc' = "erase"
  /\ UNCHANGED <<flash, ready, place, queue, buf, drops, snaps, faults, made, boots, asked, stale>>

EraseFlash ==
  /\ pc = "erase"
  /\ \E n \in 0 .. FLOG_RECORD_BLOCKS, m \in 0 .. FLOG_SNAP_SLOTS :
       /\ m > 0 => n = FLOG_RECORD_BLOCKS
       /\ blk' = [b \in Blocks |-> IF b < n THEN NoBlock ELSE blk[b]]
       /\ slot' = [k \in Slots |-> IF k < m THEN NoSlot ELSE slot[k]]
       /\ \/ n = FLOG_RECORD_BLOCKS /\ m = FLOG_SNAP_SLOTS /\ header' = TRUE /\ UNCHANGED faults
          \/ header' \in {FALSE, n = 0 /\ header} /\ Fault
  /\ stale' = ((\E b \in Blocks : blk'[b].valid) \/ (\E k \in Slots : slot'[k].valid))
  /\ pc' = "clear"
  /\ UNCHANGED <<ready, place, queue, buf, drops, snaps, made, boots, asked, erases>>

EraseQueue ==
  /\ pc = "clear"
  /\ queue' = <<>>
  /\ pc' = "reset"
  /\ UNCHANGED <<flash, ready, place, buf, drops, snaps, faults, made, ghost>>

\* The RAM state starts over in a session of its own; its session record is
\* queued as soon as the lock is given back.
EraseReset ==
  /\ pc = "reset"
  /\ block' = 0 /\ used' = 0 /\ open' = FALSE /\ seq' = 1 /\ snapSeq' = 0
  /\ meta' = [k \in Slots |-> [meta[k] EXCEPT !.used = FALSE]]
  /\ session' = Inc(session)
  /\ Enqueue(queue)
  /\ pc' = "idle"
  /\ UNCHANGED <<flash, ready, buf, request, trig, faults, ghost>>

-----------------------------------------------------------------------------
Step ==
  \/ SnapSkip \/ SnapErase \/ SnapHead \/ SnapBody \/ LoggerDue
  \/ FlushTake \/ OpenErase \/ OpenHead \/ AppendRun \/ CloseBlock \/ CloseReadFails \/ FlushEnd
  \/ EraseFlash \/ EraseQueue \/ EraseReset

Next ==
  \/ Start \/ StartFails \/ PowerCut
  \/ Record \/ SnapRequest
  \/ LoggerTake \/ DumpTake \/ EraseTake
  \/ Step

Spec == Init /\ [][Next]_vars

-----------------------------------------------------------------------------
(* Properties. *)

Places(recs) == {k \in DOMAIN recs : recs[k] # Torn}
InFlash(b) == {blk[b].recs[k] : k \in Places(blk[b].recs)}
InRam == {queue[k] : k \in DOMAIN queue} \cup {buf[k] : k \in DOMAIN buf}

TypeOK ==
  /\ header \in BOOLEAN /\ ready \in BOOLEAN /\ open \in BOOLEAN /\ faults \in 0 .. MaxFaults
  /\ \A b \in Blocks :
       /\ {blk[b].session, blk[b].seq} \subseteq Words
       /\ Len(blk[b].recs) <= FLOG_BLOCK_ROOM
       /\ InFlash(b) \subseteq Records
  /\ \A k \in Slots : slot[k].trigger \in Triggers \cup {0} /\ meta[k].trigger \in Triggers \cup {0}
  /\ {session, seq} \subseteq Words /\ block \in Blocks /\ used \in 0 .. FLOG_BLOCK_ROOM
  /\ Len(queue) <= FLOG_QUEUE /\ Len(buf) <= FLOG_QUEUE
  /\ {request, trig} \subseteq Triggers \cup {0}

\* "Every boot starts a new block, so a block never mixes sessions", and the
\* decoder groups blocks by session: blocks of one session hold records of
\* one boot, and in the order of their sequence numbers they give the records
\* back in the order they were queued, each once.
SessionInOrder ==
  \A b, c \in Valid : blk[b].session = blk[c].session =>
    /\ \A r \in InFlash(b), q \in InFlash(c) : r.boot = q.boot
    /\ b # c => blk[b].seq # blk[c].seq
    /\ blk[b].seq < blk[c].seq => \A r \in InFlash(b), q \in InFlash(c) : r.id < q.id
    /\ \A i, j \in Places(blk[b].recs) : i < j => blk[b].recs[i].id < blk[b].recs[j].id

\* "The oldest block is erased and reused: the most recent ~4 hours are
\* always there", and "a battery pulled mid-write loses at most the unwritten
\* block": unless an erase failed half way, a block with records is given up
\* only when every other block already holds newer data.
RingKeepsNewest ==
  [][ pc = "write" /\ ~stale => \A b \in Blocks :
        InFlash(b) # {} /\ ~blk'[b].valid =>
          \A c \in Blocks \ {b} :
            /\ blk[c].valid
            /\ \A r \in InFlash(b), q \in InFlash(c) : r.id < q.id ]_vars

\* Without a failed flash operation no accepted record of the boot is lost
\* as long as the ring has not come round to it: from the oldest one still
\* in flash to the newest, each is in flash or on its way there.
NothingLost ==
  faults = 0 /\ ready =>
    LET mine == {r \in UNION {InFlash(b) : b \in Blocks} : r.boot = boots}
    IN \A r \in mine : \A i \in r.id .. made :
         \E q \in mine \cup InRam : q.id = i

\* "The snapshot ring keeps the moments that went wrong longest": a complete
\* snapshot makes room only for one at least as important, and only while no
\* slot is empty or less important.
ImportantOutlive ==
  [][ pc = "snap" /\ ~stale => \A k \in Slots :
        slot[k].valid /\ slot[k].whole /\ slot'[k] # slot[k] =>
          /\ slot[k].trigger <= trig
          /\ \A j \in Slots : slot[j].valid /\ slot[j].trigger >= slot[k].trigger ]_vars

\* No two complete snapshots carry the same number.
SnapshotsNumbered ==
  \A j, k \in Slots : slot[j].valid /\ slot[k].valid /\ slot[j].whole /\ slot[k].whole /\ j # k =>
    slot[j].seq # slot[k].seq

\* docs/FLIGHT_LOG.md: the session id is there to "order sessions without a
\* real-time clock": a snapshot and a record that carry the same session come
\* from the same boot.
SnapshotSession ==
  \A k \in Slots, b \in Valid :
    slot[k].valid /\ slot[k].session = blk[b].session =>
      \A r \in InFlash(b) : r.boot = slot[k].boot
=============================================================================
