------------------------------- MODULE Bcache -------------------------------
(***************************************************************************)
(* The buffer cache (kernel/fs/bio.c) and the sleep-locks of its buffers   *)
(* (kernel/sleeplock.c), used by several threads.                          *)
(*                                                                         *)
(* What runs under bcache.lock, or under the spin-lock of a sleep-lock, is *)
(* one step.  virtio_disk_rw() returns when the block is read or written.  *)
(* The log (module Log) pins a block that it has recorded until it has     *)
(* installed it.  A thread may hold a buffer while it asks for another, as *)
(* install_trans(), write_log(), bmap() and itrunc() do; which blocks, in  *)
(* which order, is left open.                                              *)
(***************************************************************************)
EXTENDS Naturals, FiniteSets

CONSTANTS
  Threads,
  Slots,        \* one for each buffer that a thread may hold at a time
  NoThread,
  Blocks, Values, InitValue,
  NBUF,         \* buffers
  LOGSIZE       \* blocks that the log records at most

NoBlock == "none"

(* A handle is a variable of a thread in which bread() leaves a buffer. *)
Handles == Threads \X Slots

ASSUME BcacheAssumption ==
  /\ NBUF \in Nat /\ LOGSIZE \in Nat /\ IsFiniteSet(Threads) /\ IsFiniteSet(Slots)
  /\ NoThread \notin Handles /\ NoBlock \notin Blocks /\ InitValue \in Values

VARIABLES
  disk,         \* contents of the blocks on disk
  buf,          \* the buffers: blockno, valid, refcnt, data, holder of the lock
  lru,          \* the list, from head.next to head.prev
  pinned,       \* blocks that the log has recorded and pinned
  pc, use       \* of each handle: where its thread is with it, and its buffer

vars == <<disk, buf, lru, pinned, pc, use>>

Bufs == 1 .. NBUF

Empty == [blockno |-> NoBlock, valid |-> FALSE, refcnt |-> 0,
          data |-> InitValue, owner |-> NoThread]

(* binit() puts each buffer in front of the list. *)
Init ==
  /\ disk = [b \in Blocks |-> InitValue]
  /\ buf = [i \in Bufs |-> Empty]
  /\ lru = [i \in Bufs |-> NBUF + 1 - i]
  /\ pinned = {}
  /\ pc = [h \in Handles |-> "idle"] /\ use = [h \in Handles |-> 0]

Goto(h, label) == pc' = [pc EXCEPT ![h] = label]

(* A thread does one thing at a time: its other handles are at rest. *)
Ready(h) == \A g \in Handles : g[1] = h[1] /\ g # h => pc[g] \in {"idle", "held"}

(* bget() panics inside bcache.lock: a step that takes it waits forever,   *)
(* the others go on.                                                       *)
Up == \A h \in Handles : pc[h] # "panic"

-----------------------------------------------------------------------------
(* bget(), under bcache.lock *)

Cached(b)  == {i \in Bufs : buf[i].blockno = b}

(* Mutant of Unused: a buffer in use is recycled too. *)
AnyBuffer == Bufs

Unused == {i \in Bufs : buf[i].refcnt = 0}

PlaceOf(i) == CHOOSE n \in DOMAIN lru : lru[n] = i

(* The loop over the list from its end. *)
Recycled == CHOOSE i \in Unused : \A j \in Unused : PlaceOf(i) >= PlaceOf(j)

(* Mutant of Reused: valid stays as it was. *)
ReusedAsIs(x, b) == [x EXCEPT !.blockno = b, !.refcnt = 1]

Reused(x, b) == [x EXCEPT !.blockno = b, !.valid = FALSE, !.refcnt = 1]

(* A thread asks for a block that it does not hold. *)
Asks(h, b) ==
  /\ Up /\ Ready(h) /\ pc[h] = "idle"
  /\ \A g \in Handles : g[1] = h[1] /\ pc[g] = "held" => buf[use[g]].blockno # b

BgetHit(h, b) ==
  /\ Asks(h, b)
  /\ \E i \in Cached(b) :
       /\ buf' = [buf EXCEPT ![i].refcnt = @ + 1]
       /\ use' = [use EXCEPT ![h] = i]
  /\ Goto(h, "lock")
  /\ UNCHANGED <<disk, lru, pinned>>

BgetRecycle(h, b) ==
  /\ Asks(h, b) /\ Cached(b) = {} /\ Unused # {}
  /\ buf' = [buf EXCEPT ![Recycled] = Reused(@, b)]
  /\ use' = [use EXCEPT ![h] = Recycled]
  /\ Goto(h, "lock")
  /\ UNCHANGED <<disk, lru, pinned>>

(* "bget: no buffers" *)
BgetPanic(h, b) ==
  /\ Asks(h, b) /\ Cached(b) = {} /\ Unused = {}
  /\ Goto(h, "panic")
  /\ UNCHANGED <<disk, buf, lru, pinned, use>>

(* acquiresleep(): sleep while the lock is held. *)
Acquiresleep(h) ==
  /\ pc[h] = "lock"
  /\ IF buf[use[h]].owner = NoThread
       THEN /\ buf' = [buf EXCEPT ![use[h]].owner = h]
            /\ Goto(h, IF buf[use[h]].valid THEN "held" ELSE "read")
       ELSE Goto(h, "asleep") /\ UNCHANGED buf
  /\ UNCHANGED <<disk, lru, pinned, use>>

(* The rest of bread(): the block comes from the disk. *)
BreadDone(h) ==
  /\ pc[h] = "read"
  /\ buf' = [buf EXCEPT ![use[h]].data = disk[buf[use[h]].blockno], ![use[h]].valid = TRUE]
  /\ Goto(h, "held")
  /\ UNCHANGED <<disk, lru, pinned, use>>

-----------------------------------------------------------------------------
(* What the holder of a buffer does with it *)

Holds(h) == pc[h] = "held" /\ Ready(h)

Modify(h, v) ==
  /\ Holds(h)
  /\ buf' = [buf EXCEPT ![use[h]].data = v]
  /\ UNCHANGED <<disk, lru, pinned, pc, use>>

Bwrite(h) ==
  /\ Holds(h)
  /\ disk' = [disk EXCEPT ![buf[use[h]].blockno] = buf[use[h]].data]
  /\ UNCHANGED <<buf, lru, pinned, pc, use>>

(* log_write() of a block that it has not recorded yet. *)
Bpin(h) ==
  LET b == buf[use[h]].blockno IN
  /\ Up /\ Holds(h) /\ b \notin pinned /\ Cardinality(pinned) < LOGSIZE
  /\ buf' = [buf EXCEPT ![use[h]].refcnt = @ + 1]
  /\ pinned' = pinned \union {b}
  /\ UNCHANGED <<disk, lru, pc, use>>

(* Mutant of Unpinned: the log keeps its reference. *)
UnpinForgotten(x) == x

Unpinned(x) == [x EXCEPT !.refcnt = @ - 1]

(* install_trans(), when it has written the block home. *)
Bunpin(h) ==
  LET b == buf[use[h]].blockno IN
  /\ Up /\ Holds(h) /\ b \in pinned
  /\ buf' = [buf EXCEPT ![use[h]] = Unpinned(@)]
  /\ pinned' = pinned \ {b}
  /\ UNCHANGED <<disk, lru, pc, use>>

(* Mutant of Wakeup: releasesleep() wakes nobody. *)
WakeupNone(i) == pc

(* brelse(): releasesleep() wakes whoever sleeps on the lock, ... *)
Wakeup(i) == [h \in Handles |-> IF pc[h] = "asleep" /\ use[h] = i THEN "lock" ELSE pc[h]]

Releasesleep(h) ==
  /\ Holds(h)
  /\ buf' = [buf EXCEPT ![use[h]].owner = NoThread]
  /\ pc' = [Wakeup(use[h]) EXCEPT ![h] = "unref"]
  /\ UNCHANGED <<disk, lru, pinned, use>>

(* Unlinked and put in front, where those that were in front move up. *)
MoveToFront(i) ==
  [n \in DOMAIN lru |-> IF n = 1 THEN i
                        ELSE IF n <= PlaceOf(i) THEN lru[n - 1] ELSE lru[n]]

(* ... then, under bcache.lock, the last reference puts it in front. *)
Brelse(h) ==
  LET i == use[h] IN
  /\ Up /\ pc[h] = "unref"
  /\ buf' = [buf EXCEPT ![i].refcnt = @ - 1]
  /\ lru' = IF buf[i].refcnt = 1 THEN MoveToFront(i) ELSE lru
  /\ use' = [use EXCEPT ![h] = 0]
  /\ Goto(h, "idle")
  /\ UNCHANGED <<disk, pinned>>

-----------------------------------------------------------------------------
Next ==
  \E h \in Handles :
    \/ \E b \in Blocks : BgetHit(h, b) \/ BgetRecycle(h, b) \/ BgetPanic(h, b)
    \/ Acquiresleep(h) \/ BreadDone(h)
    \/ \E v \in Values : Modify(h, v)
    \/ Bwrite(h) \/ Bpin(h) \/ Bunpin(h) \/ Releasesleep(h) \/ Brelse(h)

Spec == Init /\ [][Next]_vars

-----------------------------------------------------------------------------
(* Properties *)

(* A buffer is counted by the handles that use it and the log's pin.  A    *)
(* block has one buffer, and a buffer in use keeps its block: the lock     *)
(* that a thread gets after it slept is that of the block it asked for.    *)
RefcntExact ==
  /\ \A i \in Bufs :
       buf[i].refcnt = Cardinality({h \in Handles : use[h] = i})
                         + (IF buf[i].blockno \in pinned THEN 1 ELSE 0)
  /\ \A b \in Blocks : Cardinality(Cached(b)) <= 1
  /\ \A b \in pinned : Cached(b) # {}
  /\ \A h \in Handles : pc[h] = "read" => ~buf[use[h]].valid

(* bget() panics with "no buffers" only when the log's pins and the        *)
(* threads between bget() and brelse() account for every buffer: none is   *)
(* lost, however often blocks are pinned, waited for and recycled.         *)
PanicsOnlyFull ==
  ~Up => Cardinality(pinned) + Cardinality({h \in Handles : use[h] # 0}) >= NBUF

(* A thread that sleeps in acquiresleep() sleeps on a lock that is held:   *)
(* releasesleep() forgets nobody, although a thread that came later may    *)
(* take the lock before the one that was woken.                            *)
SleepersOnHeldLock ==
  \A h \in Handles : pc[h] = "asleep" => buf[use[h]].owner # NoThread

(* The value of a block, and the handle that holds it. *)
Val ==
  [b \in Blocks |->
     IF \E i \in Cached(b) : buf[i].valid
       THEN buf[CHOOSE i \in Cached(b) : TRUE].data ELSE disk[b]]

Holder ==
  [b \in Blocks |->
     IF \E h \in Handles : pc[h] = "held" /\ buf[use[h]].blockno = b
       THEN CHOOSE h \in Handles : pc[h] = "held" /\ buf[use[h]].blockno = b
       ELSE NoThread]

(* The cache is a store of blocks: a block's value is that of its buffer,  *)
(* or what is on disk, and reading changes no value; a holder is alone     *)
(* with its block; recycling a buffer forgets a change that bwrite() has   *)
(* not written only when the block is neither pinned nor held.             *)
Store == INSTANCE BlockStore WITH
  Users <- Handles, val <- Val, saved <- disk, kept <- pinned, holder <- Holder

ImplementsStore == Store!Spec

-----------------------------------------------------------------------------
(* The inductive invariant, from which BcacheProofs proves the properties. *)

Buffers == [blockno : Blocks \union {NoBlock}, valid : BOOLEAN, refcnt : Nat,
            data : Values, owner : Handles \union {NoThread}]

TypeOK ==
  /\ disk \in [Blocks -> Values] /\ buf \in [Bufs -> Buffers] /\ lru \in [Bufs -> Bufs]
  /\ pinned \in SUBSET Blocks
  /\ pc \in [Handles -> {"idle", "lock", "asleep", "read", "held", "unref", "panic"}]
  /\ use \in [Handles -> Bufs \union {0}]

(* The list goes through every buffer. *)
LruInv == \A i \in Bufs : \E n \in Bufs : lru[n] = i

(* A handle that is not at rest has a buffer that has a block, and the     *)
(* lock of the buffer is held by the one handle that reads or holds it.    *)
HandleInv ==
  \A h \in Handles :
    /\ pc[h] \in {"idle", "panic"} <=> use[h] = 0
    /\ use[h] # 0 => buf[use[h]].blockno \in Blocks
    /\ pc[h] \in {"read", "held"} => buf[use[h]].owner = h
    /\ pc[h] = "read" => ~buf[use[h]].valid
    /\ pc[h] = "held" => buf[use[h]].valid
    /\ pc[h] = "asleep" => buf[use[h]].owner # NoThread

OwnerInv ==
  \A i \in Bufs : LET o == buf[i].owner IN
    o # NoThread => use[o] = i /\ pc[o] \in {"read", "held"}

UsersOf(i) == {h \in Handles : use[h] = i}
Pin(i)   == IF buf[i].blockno \in pinned THEN 1 ELSE 0

RefInv == \A i \in Bufs : buf[i].refcnt = Cardinality(UsersOf(i)) + Pin(i)

(* A block has one buffer at most, and one with its contents while it is   *)
(* pinned.                                                                 *)
BlockInv ==
  /\ \A i, j \in Bufs :
       buf[i].blockno \in Blocks /\ buf[i].blockno = buf[j].blockno => i = j
  /\ IsFiniteSet(pinned) /\ Cardinality(pinned) <= LOGSIZE
  /\ \A b \in pinned : \E i \in Bufs : buf[i].blockno = b /\ buf[i].valid

(* A panic found every buffer in use, and nothing gives one back. *)
FullInv == ~Up => Unused = {}

IInv == TypeOK /\ LruInv /\ HandleInv /\ OwnerInv /\ RefInv /\ BlockInv /\ FullInv
=============================================================================
