----------------------------- MODULE VirtioDisk -----------------------------
(***************************************************************************)
(* The virtio disk driver (kernel/platform/qemu/driver/virtio_disk.c) and  *)
(* the device it drives.  A process stands for a call of virtio_disk_rw()  *)
(* on its own buffer, whose sleep-lock it holds, and its own block.        *)
(*                                                                         *)
(* vdisk_lock is held across several steps where the device, which does    *)
(* not take it, can act in between: around the publication of a request    *)
(* and in the loop of the interrupt handler.  The ring indices are         *)
(* uint16 and wrap around at Word, which stands for 2^16.                  *)
(***************************************************************************)
EXTENDS Naturals

CONSTANTS
  Procs,
  NoProc,
  Handler,   \* owner of vdisk_lock in virtio_disk_intr()
  Values, InitValue,
  NUM,       \* descriptors, and entries of each ring
  Word,      \* number of values of a ring index
  Start,     \* requests served before, one after the other
  MaxCalls   \* bound: calls of virtio_disk_rw()

Descs == 0 .. NUM - 1

ASSUME VirtioAssumption ==
  /\ NUM \in Nat /\ NUM >= 3
  /\ Word \in Nat /\ Word > 0 /\ Word % NUM = 0 /\ Start \in 0 .. Word - 1
  /\ MaxCalls \in Nat /\ InitValue \in Values
  /\ NoProc \notin Procs /\ Handler \notin Procs /\ Handler # NoProc

VARIABLES
  free,       \* disk.free
  desc,       \* disk.desc: next descriptor, NUM for none, and whose data
  ops,        \* disk.ops: the command in a head descriptor
  info,       \* disk.info: whose request, and its status
  avail,      \* disk.avail->ring
  availIdx,   \* disk.avail->idx
  used,       \* disk.used->ring
  usedIdx,    \* disk.used->idx
  used_idx,   \* disk.used_idx
  vlock,      \* owner of vdisk_lock
  bdisk,      \* b->disk
  buf,        \* b->data
  write,      \* the call's argument
  idx,        \* the call's descriptors
  pc,
  block,      \* device: contents of the blocks
  devIdx,     \* device: how far it has read the avail ring
  inflight,   \* device: heads it is working on
  notified,   \* device: QUEUE_NOTIFY has been written
  isr,        \* device: its interrupt is pending
  calls       \* calls so far

driverVars == <<free, desc, ops, info, avail, availIdx, used_idx>>
callVars   == <<bdisk, write, idx, pc, calls>>
deviceVars == <<used, usedIdx, block, devIdx, inflight, notified, isr>>
vars == <<driverVars, callVars, deviceVars, vlock, buf>>

(* virtio_disk_init(), and Start requests after it, each of which used the *)
(* descriptors from 0 on and gave them back.                               *)
Init ==
  /\ free = [d \in Descs |-> TRUE]
  /\ desc = [d \in Descs |-> [next |-> NUM, data |-> NoProc]]
  /\ ops = [d \in Descs |-> [write |-> FALSE, sector |-> NoProc]]
  /\ info = [d \in Descs |-> [b |-> NoProc, ok |-> TRUE]]
  /\ avail = [d \in Descs |-> 0] /\ used = [d \in Descs |-> 0]
  /\ availIdx = Start /\ usedIdx = Start /\ used_idx = Start /\ devIdx = Start
  /\ vlock = NoProc
  /\ bdisk = [p \in Procs |-> FALSE] /\ write = [p \in Procs |-> FALSE]
  /\ buf = [p \in Procs |-> InitValue] /\ block = [p \in Procs |-> InitValue]
  /\ idx = [p \in Procs |-> {}]
  /\ pc = [p \in Procs |-> "idle"]
  /\ inflight = {}
  /\ notified = FALSE /\ isr = FALSE
  /\ calls = 0

-----------------------------------------------------------------------------
Goto(p, l) == pc' = [pc EXCEPT ![p] = l]

(* p goes to l, and wakeup(&disk.free[0]) makes the processes that wait    *)
(* for descriptors try again.                                              *)
GotoAndWakeup(p, l) ==
  pc' = [q \in Procs |-> IF q = p THEN l
                         ELSE IF pc[q] = "nodesc" THEN "alloc" ELSE pc[q]]

FreeDescs == {d \in Descs : free[d]}

(* alloc_desc() takes the first free descriptor. *)
First(S) == CHOOSE d \in S : \A e \in S : d <= e

(* alloc3_desc() succeeds when alloc_desc() finds one three times. *)
Alloc3 == \E d0, d1, d2 \in FreeDescs : d0 # d1 /\ d0 # d2 /\ d1 # d2

-----------------------------------------------------------------------------
(* virtio_disk_rw() *)

(* bread() calls it for a buffer that is not valid, bwrite() to write one  *)
(* that has been changed.                                                  *)
CallRead(p) ==
  /\ pc[p] = "idle" /\ calls < MaxCalls
  /\ calls' = calls + 1
  /\ write' = [write EXCEPT ![p] = FALSE]
  /\ Goto(p, "alloc")
  /\ UNCHANGED <<driverVars, deviceVars, bdisk, idx, vlock, buf>>

CallWrite(p, v) ==
  /\ pc[p] = "idle" /\ calls < MaxCalls
  /\ calls' = calls + 1
  /\ write' = [write EXCEPT ![p] = TRUE]
  /\ buf' = [buf EXCEPT ![p] = v]
  /\ Goto(p, "alloc")
  /\ UNCHANGED <<driverVars, deviceVars, bdisk, idx, vlock>>

(* alloc3_desc() fails: what it got is freed again, with a wakeup() if     *)
(* that was anything, and the process sleeps.                              *)
AllocFail(p) ==
  /\ pc[p] = "alloc" /\ vlock = NoProc
  /\ ~Alloc3
  /\ IF FreeDescs = {} THEN Goto(p, "nodesc") ELSE GotoAndWakeup(p, "nodesc")
  /\ UNCHANGED <<driverVars, deviceVars, bdisk, write, idx, calls, vlock, buf>>

(* The chain is built and its head put into the avail ring. *)
Fill(p) ==
  LET d0 == First(FreeDescs)
      d1 == First(FreeDescs \ {d0})
      d2 == First(FreeDescs \ {d0, d1})
  IN
  /\ pc[p] = "alloc" /\ vlock = NoProc
  /\ Alloc3
  /\ vlock' = p
  /\ free' = [free EXCEPT ![d0] = FALSE, ![d1] = FALSE, ![d2] = FALSE]
  /\ ops' = [ops EXCEPT ![d0] = [write |-> write[p], sector |-> p]]
  /\ desc' = [desc EXCEPT ![d0] = [next |-> d1, data |-> NoProc],
                          ![d1] = [next |-> d2, data |-> p],
                          ![d2] = [next |-> NUM, data |-> NoProc]]
  /\ bdisk' = [bdisk EXCEPT ![p] = TRUE]
  /\ info' = [info EXCEPT ![d0] = [b |-> p, ok |-> FALSE]]
  /\ avail' = [avail EXCEPT ![availIdx % NUM] = d0]
  /\ idx' = [idx EXCEPT ![p] = {d0, d1, d2}]
  /\ Goto(p, "publish")
  /\ UNCHANGED <<availIdx, used_idx, deviceVars, write, calls, buf>>

Publish(p) ==
  /\ pc[p] = "publish"
  /\ availIdx' = (availIdx + 1) % Word
  /\ Goto(p, "notify")
  /\ UNCHANGED <<free, desc, ops, info, avail, used_idx, deviceVars,
                 bdisk, write, idx, calls, vlock, buf>>

(* Mutant of Notify: the device is told only when it has nothing to do. *)
NotifyIdle(p) ==
  /\ pc[p] = "notify"
  /\ notified' = (notified \/ inflight = {})
  /\ vlock' = NoProc
  /\ Goto(p, "sleep")
  /\ UNCHANGED <<driverVars, used, usedIdx, block, devIdx, inflight, isr,
                 bdisk, write, idx, calls, buf>>

(* QUEUE_NOTIFY is written, and the process sleeps: b->disk is 1. *)
Notify(p) ==
  /\ pc[p] = "notify"
  /\ notified' = TRUE
  /\ vlock' = NoProc
  /\ Goto(p, "sleep")
  /\ UNCHANGED <<driverVars, used, usedIdx, block, devIdx, inflight, isr,
                 bdisk, write, idx, calls, buf>>

(* Awake, but the request has not finished. *)
SleepAgain(p) ==
  /\ pc[p] = "awake" /\ vlock = NoProc
  /\ bdisk[p]
  /\ Goto(p, "sleep")
  /\ UNCHANGED <<driverVars, deviceVars, bdisk, write, idx, calls, vlock, buf>>

(* Mutant of Chain: free_chain() stops one descriptor early. *)
ChainShort(d) == {d, desc[d].next}

(* The chain that starts at d: free_chain() follows next. *)
Chain(d) == {d, desc[d].next, desc[desc[d].next].next}

(* Mutant of Finish: b->disk is not looked at again after sleep(). *)
FinishUnchecked(p) ==
  LET h == CHOOSE d \in idx[p] : info[d].b = p IN
  /\ pc[p] = "awake" /\ vlock = NoProc
  /\ info' = [info EXCEPT ![h].b = NoProc]
  /\ free' = [d \in Descs |-> free[d] \/ d \in Chain(h)]
  /\ desc' = [d \in Descs |-> IF d \in Chain(h) THEN [next |-> NUM, data |-> NoProc]
                                                ELSE desc[d]]
  /\ idx' = [idx EXCEPT ![p] = {}]
  /\ GotoAndWakeup(p, "idle")
  /\ UNCHANGED <<ops, avail, availIdx, used_idx, deviceVars, bdisk, write, calls, vlock, buf>>

(* The request has finished: its chain is freed. *)
Finish(p) ==
  LET h == CHOOSE d \in idx[p] : info[d].b = p IN
  /\ pc[p] = "awake" /\ vlock = NoProc
  /\ ~bdisk[p]
  /\ info' = [info EXCEPT ![h].b = NoProc]
  /\ free' = [d \in Descs |-> free[d] \/ d \in Chain(h)]
  /\ desc' = [d \in Descs |-> IF d \in Chain(h) THEN [next |-> NUM, data |-> NoProc]
                                                ELSE desc[d]]
  /\ idx' = [idx EXCEPT ![p] = {}]
  /\ GotoAndWakeup(p, "idle")
  /\ UNCHANGED <<ops, avail, availIdx, used_idx, deviceVars, bdisk, write, calls, vlock, buf>>

(* kill() ends any sleep(). *)
Kill(p) ==
  /\ pc[p] \in {"nodesc", "sleep"}
  /\ Goto(p, IF pc[p] = "nodesc" THEN "alloc" ELSE "awake")
  /\ UNCHANGED <<driverVars, deviceVars, bdisk, write, idx, calls, vlock, buf>>

-----------------------------------------------------------------------------
(* The device. *)

(* It reads the avail ring up to its index, then waits for a notification. *)
DeviceTake ==
  /\ notified /\ devIdx # availIdx
  /\ inflight' = inflight \union {avail[devIdx % NUM]}
  /\ devIdx' = (devIdx + 1) % Word
  /\ UNCHANGED <<driverVars, callVars, used, usedIdx, block, notified, isr, vlock, buf>>

DeviceWait ==
  /\ notified /\ devIdx = availIdx
  /\ notified' = FALSE
  /\ UNCHANGED <<driverVars, callVars, used, usedIdx, block, devIdx, inflight, isr, vlock, buf>>

(* It finishes requests in any order: data moved, status written, head put *)
(* into the used ring, interrupt raised.                                   *)
DeviceDone(h) ==
  LET q == desc[desc[h].next].data
      s == ops[h].sector
  IN
  /\ h \in inflight
  /\ IF ops[h].write THEN block' = [block EXCEPT ![s] = buf[q]] /\ UNCHANGED buf
                     ELSE buf' = [buf EXCEPT ![q] = block[s]] /\ UNCHANGED block
  /\ info' = [info EXCEPT ![h].ok = TRUE]
  /\ inflight' = inflight \ {h}
  /\ used' = [used EXCEPT ![usedIdx % NUM] = h]
  /\ usedIdx' = (usedIdx + 1) % Word
  /\ isr' = TRUE
  /\ UNCHANGED <<free, desc, ops, avail, availIdx, used_idx, callVars, devIdx, notified, vlock>>

-----------------------------------------------------------------------------
(* virtio_disk_intr() *)

(* The interrupt is acknowledged before the used ring is read. *)
IntrAck ==
  /\ isr /\ vlock = NoProc
  /\ vlock' = Handler
  /\ isr' = FALSE
  /\ UNCHANGED <<driverVars, callVars, used, usedIdx, block, devIdx, inflight, notified, buf>>

(* One entry of the used ring: b->disk = 0 and wakeup(b).  That there is a *)
(* b, with a good status, is what RequestsOwned says.                      *)
IntrEntry ==
  LET b == info[used[used_idx % NUM]].b IN
  /\ vlock = Handler /\ used_idx # usedIdx
  /\ b # NoProc
  /\ bdisk' = [bdisk EXCEPT ![b] = FALSE]
  /\ pc' = [pc EXCEPT ![b] = IF @ = "sleep" THEN "awake" ELSE @]
  /\ used_idx' = (used_idx + 1) % Word
  /\ UNCHANGED <<free, desc, ops, info, avail, availIdx, deviceVars,
                 write, idx, calls, vlock, buf>>

IntrDone ==
  /\ vlock = Handler /\ used_idx = usedIdx
  /\ vlock' = NoProc
  /\ UNCHANGED <<driverVars, callVars, deviceVars, buf>>

-----------------------------------------------------------------------------
Request(p) ==
  \/ AllocFail(p) \/ Fill(p) \/ Publish(p) \/ Notify(p) \/ SleepAgain(p) \/ Finish(p)

Device == DeviceTake \/ DeviceWait
Interrupt == IntrAck \/ IntrEntry \/ IntrDone

Next ==
  \/ \E p \in Procs : \/ CallRead(p) \/ Request(p) \/ Kill(p)
                      \/ \E v \in Values \ {buf[p]} : CallWrite(p, v)
  \/ Device \/ (\E h \in Descs : DeviceDone(h))
  \/ Interrupt

Spec == Init /\ [][Next]_vars

(* The device serves what it is notified of; its interrupt is taken, as    *)
(* scheduler() and the kernel outside critical sections turn interrupts    *)
(* on; a process that can run gets the lock in the end.                    *)
FairSpec ==
  /\ Spec
  /\ WF_vars(Device) /\ \A h \in Descs : WF_vars(DeviceDone(h))
  /\ SF_vars(Interrupt)
  /\ \A p \in Procs : SF_vars(Request(p))

-----------------------------------------------------------------------------
(* Properties *)

(* The driver implements BlockDevice: each call moves the data of its own  *)
(* buffer to or from its own block once before it returns, though requests *)
(* finish in any order and descriptors and ring entries are reused         *)
(* (virtio_disk_rw, virtio_disk_intr).                                     *)
Served(p) == \E d \in idx[p] : info[d].b = p /\ info[d].ok

Req == [p \in Procs |-> IF pc[p] = "idle" THEN "none"
                        ELSE IF Served(p) THEN "done"
                        ELSE IF write[p] THEN "write" ELSE "read"]

Promise == INSTANCE BlockDevice WITH req <- Req

Implements == Promise!Spec

(* How far one ring index is ahead of another. *)
Distance(from, to) == (to + Word - from) % Word

(* Every descriptor is free or belongs to one request: none is used twice, *)
(* none is lost, and the panics of free_desc() are out of reach            *)
(* (alloc3_desc, free_chain).  What the device has finished and the        *)
(* handler has not seen belongs to a process that waits for it, with a     *)
(* good status (virtio_disk_intr: its panic, and b = disk.info[id].b).     *)
Unseen == {k \in 0 .. NUM - 1 : k < Distance(used_idx, usedIdx)}

RequestsOwned ==
  /\ \A d \in Descs : free[d] <=> \A p \in Procs : d \notin idx[p]
  /\ \A p, q \in Procs : p # q => idx[p] \intersect idx[q] = {}
  /\ \A k \in Unseen :
       LET r == info[used[(used_idx + k) % NUM]] IN
       r.ok /\ r.b # NoProc /\ bdisk[r.b]

(* A call returns. *)
CallReturns == \A p \in Procs : pc[p] # "idle" ~> pc[p] = "idle"

-----------------------------------------------------------------------------
(* The inductive invariant, from which VirtioProofs proves RequestsOwned   *)
(* and Implements.                                                         *)

TypeOK ==
  /\ free \in [Descs -> BOOLEAN]
  /\ desc \in [Descs -> [next : 0 .. NUM, data : Procs \union {NoProc}]]
  /\ ops \in [Descs -> [write : BOOLEAN, sector : Procs \union {NoProc}]]
  /\ info \in [Descs -> [b : Procs \union {NoProc}, ok : BOOLEAN]]
  /\ avail \in [Descs -> Descs] /\ used \in [Descs -> Descs]
  /\ {availIdx, devIdx, usedIdx, used_idx} \subseteq 0 .. Word - 1
  /\ bdisk \in [Procs -> BOOLEAN] /\ write \in [Procs -> BOOLEAN]
  /\ buf \in [Procs -> Values] /\ block \in [Procs -> Values]
  /\ idx \in [Procs -> SUBSET Descs] /\ inflight \subseteq Descs
  /\ pc \in [Procs -> {"idle", "alloc", "nodesc", "publish", "notify", "sleep", "awake"}]

(* The entries of ring r between two indices: all different, and fewer     *)
(* than the ring has places.                                               *)
Slot(from, k) == (from + k) % NUM

Entries(r, from, to) == {r[Slot(from, k)] : k \in 0 .. Distance(from, to) - 1}

RingOK(r, from, to) ==
  /\ Distance(from, to) < NUM
  /\ \A j, k \in 0 .. Distance(from, to) - 1 : r[Slot(from, j)] = r[Slot(from, k)] => j = k

Queued   == Entries(avail, devIdx, availIdx)
Answered == Entries(used, used_idx, usedIdx)

(* p has descriptors. *)
Active(p) == pc[p] \in {"publish", "notify", "sleep", "awake"}

(* disk.info names p in one descriptor, the head d of p's chain of three. *)
HeadOf(p, d) ==
  LET d1 == desc[d].next  d2 == desc[d1].next IN
  /\ Active(p) /\ idx[p] = {d, d1, d2}
  /\ d1 \in Descs \ {d} /\ d2 \in Descs \ {d, d1}
  /\ info[d1].b = NoProc /\ info[d2].b = NoProc
  /\ desc[d1].data = p /\ ops[d] = [write |-> write[p], sector |-> p]

HeadInv == \A d \in Descs : info[d].b # NoProc => HeadOf(info[d].b, d)

CallInv ==
  \A p \in Procs :
    /\ Active(p) => \E d \in Descs : info[d].b = p
    /\ ~Active(p) => idx[p] = {} /\ ~bdisk[p]
    /\ pc[p] \in {"publish", "notify"} => vlock = p
    /\ Active(p) /\ ~bdisk[p] => pc[p] = "awake"

DescInv ==
  /\ \A d \in Descs : free[d] <=> \A p \in Procs : d \notin idx[p]
  /\ \A p, q \in Procs : p # q => idx[p] \intersect idx[q] = {}

(* A request is in the avail ring or with the device and has no status, is *)
(* in the used ring and has one, or has been seen by the handler.  The     *)
(* entry that is being published is the next one of the avail ring.        *)
RequestInv ==
  /\ RingOK(avail, devIdx, availIdx) /\ RingOK(used, used_idx, usedIdx)
  /\ Queued \intersect inflight = {}
  /\ \A h \in Queued \union inflight :
       /\ info[h].b # NoProc /\ ~info[h].ok
       /\ bdisk[info[h].b] /\ pc[info[h].b] # "publish"
  /\ \A h \in Answered : info[h].b # NoProc /\ info[h].ok /\ bdisk[info[h].b]
  /\ \A h \in Descs : info[h].b # NoProc /\ ~bdisk[info[h].b] => info[h].ok
  /\ \A p \in Procs : pc[p] = "publish" =>
       /\ info[avail[availIdx % NUM]].b = p /\ ~info[avail[availIdx % NUM]].ok
       /\ bdisk[p] /\ Distance(devIdx, availIdx) + 1 < NUM

IInv == TypeOK /\ HeadInv /\ CallInv /\ DescInv /\ RequestInv
=============================================================================
