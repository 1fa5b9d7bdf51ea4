-------------------------------- MODULE Log ---------------------------------
(***************************************************************************)
(* The write-ahead log of the file system: kernel/fs/log.c, with the part  *)
(* of the buffer cache it relies on (kernel/fs/bio.c: a pinned or locked   *)
(* buffer is not recycled) and crashes at any point, recovery included.    *)
(*                                                                         *)
(* Threads are processes inside file system calls.  A thread changes a     *)
(* block in two steps, as log_write()'s callers do: it changes the buffer  *)
(* it has locked, then log_write() records it and the buffer is released.  *)
(* writei() also releases a changed buffer without log_write().            *)
(* The disk writes one block atomically and bwrite() returns when it is    *)
(* written (virtio_disk_rw).                                               *)
(***************************************************************************)
EXTENDS Naturals, Sequences, FiniteSets

CONSTANTS
  Threads, Blocks, Values, InitValue,
  NoThread,     \* owner of an unlocked buffer
  Absent,       \* the block is not in the buffer cache
  MAXOPBLOCKS,  \* blocks one operation may write
  LOGSIZE,      \* capacity of the log header
  LogBlocks     \* log.size: blocks of the log on disk, header included

ASSUME LogAssumption ==
  /\ MAXOPBLOCKS \in Nat /\ LOGSIZE \in Nat /\ LogBlocks \in Nat
  /\ InitValue \in Values /\ Absent \notin Values /\ NoThread \notin Threads

VARIABLES
  home,         \* disk: the blocks' home locations
  dlog,         \* disk: the blocks of the log
  dhead,        \* disk: the header, the block numbers logged
  buf,          \* buffer cache: contents, or Absent
  pin,          \* references that bpin() took
  owner,        \* who holds the buffer's sleep-lock
  lh,           \* log.lh
  outstanding,  \* log.outstanding
  committing,   \* log.committing
  tail,         \* loop variable of write_log() and install_trans()
  pc,           \* control point of each thread
  wrote,        \* blocks that the thread's operation has logged
  sys           \* "boot1", "boot2": initlog(); "up"; or the panic hit

diskVars   == <<home, dlog, dhead>>
bufVars    == <<buf, pin, owner>>
logVars    == <<lh, outstanding, committing, tail>>
threadVars == <<pc, wrote>>
vars       == <<diskVars, bufVars, logVars, threadVars, sys>>

Panics == {"too big a transaction", "log_write outside of trans", "log.committing"}

(* mkfs leaves an empty log; the machine has just been started. *)
Init ==
  /\ home  = [b \in Blocks |-> InitValue]
  /\ dlog  = [k \in 1 .. LOGSIZE |-> InitValue]
  /\ dhead = <<>>
  /\ buf         = [b \in Blocks |-> Absent]
  /\ pin         = [b \in Blocks |-> 0]
  /\ owner       = [b \in Blocks |-> NoThread]
  /\ lh          = <<>>
  /\ outstanding = 0
  /\ committing  = FALSE
  /\ tail        = 0
  /\ pc          = [t \in Threads |-> "idle"]
  /\ wrote       = [t \in Threads |-> {}]
  /\ sys         = "boot1"

(* panic() stops one hart, inside log.lock: from then on a step that takes *)
(* log.lock waits forever, the others go on.                               *)
Up      == sys = "up"
Running == sys \in {"up"} \union Panics

-----------------------------------------------------------------------------
(* bread() of a block whose lock is free returns its cached contents, or   *)
(* reads them from disk.                                                   *)
Contents(b) == IF buf[b] = Absent THEN home[b] ELSE buf[b]

(* bget() recycles a buffer that nobody refers to. *)
Evict(b) ==
  /\ Running
  /\ buf[b] # Absent /\ pin[b] = 0 /\ owner[b] = NoThread
  /\ buf' = [buf EXCEPT ![b] = Absent]
  /\ UNCHANGED <<diskVars, pin, owner, logVars, threadVars, sys>>

-----------------------------------------------------------------------------
(* begin_op() *)

Call(t) ==
  /\ Running /\ pc[t] = "idle"
  /\ pc' = [pc EXCEPT ![t] = "begin"]
  /\ UNCHANGED <<diskVars, bufVars, logVars, wrote, sys>>

NoSpace == Len(lh) + (outstanding + 1) * MAXOPBLOCKS > LOGSIZE

BeginSleep(t) ==
  /\ Up /\ pc[t] = "begin"
  /\ committing \/ NoSpace
  /\ pc' = [pc EXCEPT ![t] = "asleep"]
  /\ UNCHANGED <<diskVars, bufVars, logVars, wrote, sys>>

(* Mutant of Begin: log.committing is not looked at. *)
BeginWhileCommitting(t) ==
  /\ Up /\ pc[t] = "begin"
  /\ ~NoSpace
  /\ outstanding' = outstanding + 1
  /\ pc' = [pc EXCEPT ![t] = "op"]
  /\ UNCHANGED <<diskVars, bufVars, lh, committing, tail, wrote, sys>>

Begin(t) ==
  /\ Up /\ pc[t] = "begin"
  /\ ~committing /\ ~NoSpace
  /\ outstanding' = outstanding + 1
  /\ pc' = [pc EXCEPT ![t] = "op"]
  /\ UNCHANGED <<diskVars, bufVars, lh, committing, tail, wrote, sys>>

-----------------------------------------------------------------------------
(* The file system call: bread(), change the data, log_write(), brelse().  *)

(* All of the new data, or as much of it as a failing copyin() has copied. *)
Modify(t, b, v) ==
  /\ Running /\ pc[t] = "op"
  /\ Cardinality(wrote[t] \union {b}) <= MAXOPBLOCKS
  /\ owner[b] = NoThread
  /\ owner' = [owner EXCEPT ![b] = t]
  /\ buf' = [buf EXCEPT ![b] = v]
  /\ pc' = [pc EXCEPT ![t] = "logw"]
  /\ UNCHANGED <<diskVars, pin, logVars, wrote, sys>>

(* writei() when either_copyin() fails: brelse() without log_write(). *)
GiveUp(t, b) ==
  /\ Running /\ pc[t] = "logw" /\ owner[b] = t
  /\ owner' = [owner EXCEPT ![b] = NoThread]
  /\ pc' = [pc EXCEPT ![t] = "op"]
  /\ UNCHANGED <<diskVars, buf, pin, logVars, wrote, sys>>

LogFull == Len(lh) >= LOGSIZE \/ Len(lh) >= LogBlocks - 1

LogWritePanic(t, b) ==
  /\ Up /\ pc[t] = "logw" /\ owner[b] = t
  /\ LogFull \/ outstanding < 1
  /\ sys' = IF LogFull THEN "too big a transaction"
                       ELSE "log_write outside of trans"
  /\ UNCHANGED <<diskVars, bufVars, logVars, threadVars>>

Logged == {lh[k] : k \in DOMAIN lh}

LogWrite(t, b) ==
  /\ Up /\ pc[t] = "logw" /\ owner[b] = t
  /\ ~LogFull /\ outstanding >= 1
  /\ IF b \in Logged
       THEN UNCHANGED <<lh, pin>>   \* absorption
       ELSE /\ lh' = Append(lh, b)
            /\ pin' = [pin EXCEPT ![b] = @ + 1]
  /\ owner' = [owner EXCEPT ![b] = NoThread]
  /\ wrote' = [wrote EXCEPT ![t] = @ \union {b}]
  /\ pc' = [pc EXCEPT ![t] = "op"]
  /\ UNCHANGED <<diskVars, buf, outstanding, committing, tail, sys>>

-----------------------------------------------------------------------------
(* end_op() *)

(* t moves to l and wakeup(&log) makes the sleepers try again. *)
GotoAndWakeup(t, l) ==
  pc' = [u \in Threads |-> IF u = t THEN l
                           ELSE IF pc[u] = "asleep" THEN "begin" ELSE pc[u]]

(* The last operation commits, where an empty log needs no disk write; any *)
(* other one wakes the sleepers, for it gives up its reservation.          *)
End(t) ==
  /\ Up /\ pc[t] = "op"
  /\ outstanding' = outstanding - 1
  /\ IF committing
       THEN sys' = "log.committing" /\ UNCHANGED <<committing, threadVars>>
       ELSE /\ committing' = (outstanding = 1)
            /\ IF outstanding > 1
                 THEN GotoAndWakeup(t, "idle")
                 ELSE pc' = [pc EXCEPT ![t] = IF lh = <<>> THEN "done" ELSE "wlog"]
            /\ wrote' = [wrote EXCEPT ![t] = {}]
            /\ UNCHANGED sys
  /\ UNCHANGED <<diskVars, bufVars, lh, tail>>

(* write_log(): one block from the cache to the log. *)
WriteLog(t) ==
  LET b == lh[tail + 1] IN
  /\ Running /\ pc[t] = "wlog" /\ tail < Len(lh)
  /\ owner[b] = NoThread
  /\ buf' = [buf EXCEPT ![b] = Contents(b)]
  /\ dlog' = [dlog EXCEPT ![tail + 1] = Contents(b)]
  /\ tail' = tail + 1
  /\ UNCHANGED <<home, dhead, pin, owner, lh, outstanding, committing, threadVars, sys>>

(* Mutant of WriteHead: the header is written before the log blocks are. *)
WriteHeadEarly(t) ==
  /\ Running /\ pc[t] = "wlog" /\ tail <= Len(lh)
  /\ dhead' = lh
  /\ tail' = 0
  /\ pc' = [pc EXCEPT ![t] = "inst"]
  /\ UNCHANGED <<home, dlog, bufVars, lh, outstanding, committing, wrote, sys>>

(* write_head(): the commit point. *)
WriteHead(t) ==
  /\ Running /\ pc[t] = "wlog" /\ tail = Len(lh)
  /\ dhead' = lh
  /\ tail' = 0
  /\ pc' = [pc EXCEPT ![t] = "inst"]
  /\ UNCHANGED <<home, dlog, bufVars, lh, outstanding, committing, wrote, sys>>

(* Mutant of Install: no bunpin(). *)
InstallKeepsPin(t) ==
  LET b == lh[tail + 1] IN
  /\ Running /\ pc[t] = "inst" /\ tail < Len(lh)
  /\ owner[b] = NoThread
  /\ buf' = [buf EXCEPT ![b] = dlog[tail + 1]]
  /\ home' = [home EXCEPT ![b] = dlog[tail + 1]]
  /\ tail' = tail + 1
  /\ UNCHANGED <<dlog, dhead, pin, owner, lh, outstanding, committing, threadVars, sys>>

(* install_trans(0): one block from the log to its home. *)
Install(t) ==
  LET b == lh[tail + 1] IN
  /\ Running /\ pc[t] = "inst" /\ tail < Len(lh)
  /\ owner[b] = NoThread
  /\ buf' = [buf EXCEPT ![b] = dlog[tail + 1]]
  /\ home' = [home EXCEPT ![b] = dlog[tail + 1]]
  /\ pin' = [pin EXCEPT ![b] = @ - 1]
  /\ tail' = tail + 1
  /\ UNCHANGED <<dlog, dhead, owner, lh, outstanding, committing, threadVars, sys>>

(* log.lh.n = 0 and write_head(): the transaction is erased. *)
Erase(t) ==
  /\ Running /\ pc[t] = "inst" /\ tail = Len(lh)
  /\ lh' = <<>>
  /\ dhead' = <<>>
  /\ tail' = 0
  /\ pc' = [pc EXCEPT ![t] = "done"]
  /\ UNCHANGED <<home, dlog, bufVars, outstanding, committing, wrote, sys>>

(* Mutant of CommitDone: no wakeup(&log). *)
CommitDoneSilent(t) ==
  /\ Up /\ pc[t] = "done"
  /\ committing' = FALSE
  /\ pc' = [pc EXCEPT ![t] = "idle"]
  /\ UNCHANGED <<diskVars, bufVars, lh, outstanding, tail, wrote, sys>>

CommitDone(t) ==
  /\ Up /\ pc[t] = "done"
  /\ committing' = FALSE
  /\ GotoAndWakeup(t, "idle")
  /\ UNCHANGED <<diskVars, bufVars, lh, outstanding, tail, wrote, sys>>

-----------------------------------------------------------------------------
(* A crash, from a panic or a power failure, and initlog(). *)

Crash ==
  /\ buf'         = [b \in Blocks |-> Absent]
  /\ pin'         = [b \in Blocks |-> 0]
  /\ owner'       = [b \in Blocks |-> NoThread]
  /\ lh'          = <<>>
  /\ outstanding' = 0
  /\ committing'  = FALSE
  /\ tail'        = 0
  /\ pc'          = [t \in Threads |-> "idle"]
  /\ wrote'       = [t \in Threads |-> {}]
  /\ sys'         = "boot1"
  /\ UNCHANGED diskVars

ReadHead ==
  /\ sys = "boot1"
  /\ lh' = dhead
  /\ sys' = "boot2"
  /\ UNCHANGED <<diskVars, bufVars, outstanding, committing, tail, threadVars>>

(* install_trans(1). *)
RecoverInstall ==
  LET b == lh[tail + 1] IN
  /\ sys = "boot2" /\ tail < Len(lh)
  /\ buf' = [buf EXCEPT ![b] = dlog[tail + 1]]
  /\ home' = [home EXCEPT ![b] = dlog[tail + 1]]
  /\ tail' = tail + 1
  /\ UNCHANGED <<dlog, dhead, pin, owner, lh, outstanding, committing, threadVars, sys>>

RecoverErase ==
  /\ sys = "boot2" /\ tail = Len(lh)
  /\ lh' = <<>>
  /\ dhead' = <<>>
  /\ tail' = 0
  /\ sys' = "up"
  /\ UNCHANGED <<home, dlog, bufVars, outstanding, committing, threadVars>>

-----------------------------------------------------------------------------
Thread(t) ==
  \/ BeginSleep(t) \/ Begin(t)
  \/ \E b \in Blocks : LogWritePanic(t, b) \/ LogWrite(t, b) \/ GiveUp(t, b)
  \/ End(t)
  \/ WriteLog(t) \/ WriteHead(t) \/ Install(t) \/ Erase(t) \/ CommitDone(t)

Recover == ReadHead \/ RecoverInstall \/ RecoverErase

Next ==
  \/ \E t \in Threads : Call(t) \/ Thread(t)
                        \/ \E b \in Blocks, v \in Values : Modify(t, b, v)
  \/ \E b \in Blocks : Evict(b)
  \/ Recover
  \/ Crash

Spec == Init /\ [][Next]_vars

(* Each thread inside the log goes on, and the boot goes on. *)
FairSpec ==
  /\ Spec
  /\ \A t \in Threads :
       WF_vars(Thread(t)) /\ SF_vars(End(t))
  /\ WF_vars(Recover)

-----------------------------------------------------------------------------
(* Properties *)

(* The blocks after a crash now, when recovery has run. *)
Recovered ==
  [b \in Blocks |->
     LET ks == {k \in DOMAIN dhead : dhead[k] = b} IN
     IF ks = {} THEN home[b] ELSE dlog[CHOOSE k \in ks : \A m \in ks : m <= k]]

(* What reads return; the blocks that are being changed, and those that    *)
(* wait for the commit; the threads inside operations.                     *)
View        == IF Running THEN [b \in Blocks |-> Contents(b)] ELSE Recovered
Busy        == {b \in Blocks : owner[b] # NoThread}
Uncommitted == IF Running /\ dhead = <<>> THEN Logged ELSE {}
Active      == {t \in Threads : pc[t] \in {"op", "logw"}}

(* The log implements AtomicDisk: at every point of every operation, of    *)
(* commit() and of recovery, a crash leaves the blocks as they were logged *)
(* when no operation was in progress (log.c: "The logging system only      *)
(* commits when there are no FS system calls active"), and reads go back   *)
(* only on a change that writei() gave up.                                 *)
Disk == INSTANCE AtomicDisk WITH
  view <- View, stable <- Recovered, busy <- Busy, recorded <- Uncommitted,
  active <- Active

CrashAtomic == Disk!Spec

(* A buffer is pinned exactly while its block waits to be installed, and   *)
(* once, however often the block is logged: log_write() with absorption    *)
(* and install_trans() balance, so that pinned buffers neither are         *)
(* recycled with changes in them nor use up the cache.                     *)
PinBalance ==
  \A b \in Blocks : Running =>
    pin[b] = IF \E k \in DOMAIN lh :
                  lh[k] = b /\ ((\E t \in Threads : pc[t] = "inst") => k > tail)
               THEN 1 ELSE 0

(* The panics "log.committing" of end_op() and "log_write outside of       *)
(* trans" of log_write() are never reached.                                *)
NoProtocolPanic == sys \notin {"log.committing", "log_write outside of trans"}

(* The space that begin_op() reserves suffices for operations that write   *)
(* at most MAXOPBLOCKS blocks each ("this op might exhaust log space; wait *)
(* for commit").                                                           *)
ReservationSuffices == sys # "too big a transaction"

(* A process asleep in begin_op() is woken, unless the kernel stops. *)
SleeperWoken ==
  \A t \in Threads : pc[t] = "asleep" ~> (pc[t] # "asleep" \/ sys \in Panics)
-----------------------------------------------------------------------------
(* The inductive invariant, from which LogProofs proves the properties. *)

Labels == {"idle", "begin", "asleep", "op", "logw", "wlog", "inst", "done"}

TypeOK ==
  /\ home \in [Blocks -> Values] /\ dlog \in [1 .. LOGSIZE -> Values]
  /\ dhead \in Seq(Blocks) /\ lh \in Seq(Blocks)
  /\ buf \in [Blocks -> Values \union {Absent}]
  /\ pin \in [Blocks -> Nat] /\ owner \in [Blocks -> Threads \union {NoThread}]
  /\ outstanding \in Nat /\ committing \in BOOLEAN /\ tail \in Nat
  /\ pc \in [Threads -> Labels] /\ wrote \in [Threads -> SUBSET Blocks]
  /\ sys \in {"boot1", "boot2", "up"} \union Panics

Commits(t) == pc[t] \in {"wlog", "inst", "done"}
WritingLog == \E t \in Threads : pc[t] = "wlog"
Installing == \E t \in Threads : pc[t] = "inst"

(* log.outstanding counts the operations; one thread at most commits, and  *)
(* no operation is in progress then, nor before recovery has run.          *)
ThreadInv ==
  /\ IsFiniteSet(Active) /\ outstanding = Cardinality(Active)
  /\ committing <=> \E t \in Threads : Commits(t)
  /\ \A t, u \in Threads : Commits(t) /\ Commits(u) => t = u
  /\ committing => Active = {}
  /\ ~Running => \A t \in Threads : pc[t] = "idle"
  /\ NoProtocolPanic

(* A locked buffer is the one that its owner is about to log. *)
OwnerInv ==
  /\ \A b \in Blocks : owner[b] # NoThread => pc[owner[b]] = "logw" /\ buf[b] # Absent
  /\ \A b, c \in Blocks : owner[b] # NoThread /\ owner[b] = owner[c] => b = c

(* The header in memory and the one on disk, and how far the loops are. *)
HeadInv ==
  /\ \A j, k \in 1 .. Len(lh) : lh[j] = lh[k] => j = k
  /\ \A j, k \in 1 .. Len(dhead) : dhead[j] = dhead[k] => j = k
  /\ Len(lh) <= LOGSIZE /\ Len(dhead) <= LOGSIZE /\ tail <= Len(lh)
  /\ Running => dhead = IF Installing THEN lh ELSE <<>>
  /\ Running /\ ~WritingLog /\ ~Installing => tail = 0
  /\ sys = "boot1" => tail = 0 /\ lh = <<>>
  /\ sys = "boot2" => lh = dhead

(* Where the contents of a logged block are: in the log when it has been   *)
(* copied there, and at home when it has been installed.                   *)
DataInv ==
  /\ WritingLog => \A k \in 1 .. tail : dlog[k] = Contents(lh[k])
  /\ Installing => \A k \in 1 .. Len(lh) : dlog[k] = Contents(lh[k])
  /\ Installing \/ sys = "boot2" => \A k \in 1 .. tail : home[lh[k]] = dlog[k]
  /\ ~Running => \A b \in Blocks : Contents(b) = home[b]

(* The blocks that log_write() has pinned and install_trans() has not unpinned. *)
Pinned == {lh[k] : k \in {i \in 1 .. Len(lh) : Installing => i > tail}}

PinInv == \A b \in Blocks : pin[b] = IF Running /\ b \in Pinned THEN 1 ELSE 0

IInv == TypeOK /\ ThreadInv /\ OwnerInv /\ HeadInv /\ DataInv /\ PinInv
=============================================================================
