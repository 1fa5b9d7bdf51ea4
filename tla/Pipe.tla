-------------------------------- MODULE Pipe --------------------------------
(***************************************************************************)
(* One pipe, its readers and its writers: kernel/fs/pipe.c, with kill()    *)
(* (kernel/proc.c) and the closing of the ends by fileclose().             *)
(*                                                                         *)
(* pi->lock is held over a whole turn of a call, but p->killed is not      *)
(* protected by it, so each test of it is a step of its own.  nread and    *)
(* nwrite are unsigned and wrap around at Word, which stands for 2^32.     *)
(***************************************************************************)
EXTENDS Naturals, FiniteSets

CONSTANTS
  Readers, Writers,  \* the processes that have each end open at first
  Bytes, NoByte,
  NoProc,            \* owner of the free lock
  PIPESIZE,
  Word,              \* number of values of a uint
  MaxN               \* bound: bytes that one call asks for

Procs == Readers \union Writers

ASSUME PipeAssumption ==
  /\ PIPESIZE \in Nat \ {0} /\ MaxN \in Nat
  /\ Word \in Nat /\ Word % PIPESIZE = 0 /\ Word > PIPESIZE
  /\ NoProc \notin Procs /\ NoByte \notin Bytes

VARIABLES
  data, nread, nwrite, readopen, writeopen,  \* struct pipe
  lock,    \* owner of pi->lock
  rfds,    \* processes that have the read end open
  wfds,    \* processes that have the write end open
  killed,  \* p->killed
  pc,      \* control point of each process
  left,    \* n - i of its call
  ch       \* ch of piperead(), whose loop runs under the lock

pipeVars == <<data, nread, nwrite>>
openVars == <<readopen, writeopen, rfds, wfds>>
vars == <<pipeVars, openVars, lock, killed, pc, left, ch>>

(* pipealloc() *)
Init ==
  /\ data = [k \in 0 .. PIPESIZE - 1 |-> NoByte]
  /\ nread = 0 /\ nwrite = 0
  /\ readopen = TRUE /\ writeopen = TRUE
  /\ lock = NoProc
  /\ rfds = Readers /\ wfds = Writers
  /\ killed = [p \in Procs |-> FALSE]
  /\ pc = [p \in Procs |-> "idle"]
  /\ left = [p \in Procs |-> 0]
  /\ ch = NoByte

-----------------------------------------------------------------------------
Empty == nread = nwrite

(* Mutant of Full: the counters are compared without the wrap of a uint. *)
FullNoWrap == nwrite = nread + PIPESIZE

Full  == nwrite = (nread + PIPESIZE) % Word

Goto(p, l) == pc' = [pc EXCEPT ![p] = l]

(* p goes to l and wakeup() lets the processes in sleep() at s go on: they *)
(* have to take the lock again.                                            *)
GotoAndWakeup(p, l, s) ==
  pc' = [q \in Procs |-> IF q = p THEN l
                         ELSE IF pc[q] = s THEN (IF s = "r_sleep" THEN "r_acq" ELSE "w_acq")
                         ELSE pc[q]]

WakeReaders(p, l) == GotoAndWakeup(p, l, "r_sleep")   \* wakeup(&pi->nread)
WakeWriters(p, l) == GotoAndWakeup(p, l, "w_sleep")   \* wakeup(&pi->nwrite)

(* The call returns: lock released, locals gone. *)
Leave(p) ==
  /\ lock' = NoProc
  /\ left' = [left EXCEPT ![p] = 0]

-----------------------------------------------------------------------------
(* pipewrite() *)

CallWrite(p, n) ==
  /\ pc[p] = "idle" /\ p \in wfds /\ ~killed[p]
  /\ left' = [left EXCEPT ![p] = n]
  /\ Goto(p, "w_acq")
  /\ UNCHANGED <<pipeVars, openVars, lock, killed, ch>>

WriteAcquire(p) ==
  /\ pc[p] = "w_acq" /\ lock = NoProc
  /\ lock' = p
  /\ Goto(p, "w_loop")
  /\ UNCHANGED <<pipeVars, openVars, killed, left, ch>>

(* Nobody reads any more, or the caller is killed: return -1. *)
WriteAbort(p) ==
  /\ pc[p] = "w_loop" /\ left[p] > 0
  /\ ~readopen \/ killed[p]
  /\ Leave(p)
  /\ Goto(p, "idle")
  /\ UNCHANGED <<pipeVars, openVars, killed, ch>>

(* Otherwise the turn goes on, even if kill() comes from here on. *)
WriteCheck(p) ==
  /\ pc[p] = "w_loop" /\ left[p] > 0
  /\ readopen /\ ~killed[p]
  /\ Goto(p, "w_body")
  /\ UNCHANGED <<pipeVars, openVars, lock, killed, left, ch>>

(* Full: wake the readers and sleep. *)
WriteSleep(p) ==
  /\ pc[p] = "w_body" /\ Full
  /\ WakeReaders(p, "w_sleep")
  /\ lock' = NoProc
  /\ UNCHANGED <<pipeVars, openVars, killed, left, ch>>

WriteByte(p, b) ==
  /\ pc[p] = "w_body" /\ ~Full
  /\ data' = [data EXCEPT ![nwrite % PIPESIZE] = b]
  /\ nwrite' = (nwrite + 1) % Word
  /\ left' = [left EXCEPT ![p] = @ - 1]
  /\ Goto(p, "w_loop")
  /\ UNCHANGED <<nread, openVars, lock, killed, ch>>

(* All bytes are written, or copyin() failed. *)
WriteDone(p) ==
  /\ \/ pc[p] = "w_loop" /\ left[p] = 0
     \/ pc[p] = "w_body" /\ ~Full
  /\ WakeReaders(p, "idle")
  /\ Leave(p)
  /\ UNCHANGED <<pipeVars, openVars, killed, ch>>

-----------------------------------------------------------------------------
(* piperead() *)

CallRead(p, n) ==
  /\ pc[p] = "idle" /\ p \in rfds /\ ~killed[p]
  /\ left' = [left EXCEPT ![p] = n]
  /\ Goto(p, "r_acq")
  /\ UNCHANGED <<pipeVars, openVars, lock, killed, ch>>

ReadAcquire(p) ==
  /\ pc[p] = "r_acq" /\ lock = NoProc
  /\ lock' = p
  /\ Goto(p, IF Empty /\ writeopen THEN "r_wait" ELSE "r_copy")
  /\ UNCHANGED <<pipeVars, openVars, killed, left, ch>>

ReadAbort(p) ==
  /\ pc[p] = "r_wait" /\ killed[p]
  /\ Leave(p)
  /\ Goto(p, "idle")
  /\ UNCHANGED <<pipeVars, openVars, killed, ch>>

(* Otherwise it will sleep, even if kill() comes from here on. *)
ReadCheck(p) ==
  /\ pc[p] = "r_wait" /\ ~killed[p]
  /\ Goto(p, "r_block")
  /\ UNCHANGED <<pipeVars, openVars, lock, killed, left, ch>>

ReadSleep(p) ==
  /\ pc[p] = "r_block"
  /\ lock' = NoProc
  /\ Goto(p, "r_sleep")
  /\ UNCHANGED <<pipeVars, openVars, killed, left, ch>>

ReadByte(p) ==
  /\ pc[p] = "r_copy" /\ left[p] > 0 /\ ~Empty
  /\ ch' = data[nread % PIPESIZE]
  /\ nread' = (nread + 1) % Word
  /\ left' = [left EXCEPT ![p] = @ - 1]
  /\ UNCHANGED <<data, nwrite, openVars, lock, killed, pc>>

(* copyout() fails: the byte is taken, and the loop ends. *)
ReadFault(p) ==
  /\ pc[p] = "r_copy" /\ left[p] > 0 /\ ~Empty
  /\ ch' = data[nread % PIPESIZE]
  /\ nread' = (nread + 1) % Word
  /\ WakeWriters(p, "idle")
  /\ Leave(p)
  /\ UNCHANGED <<data, nwrite, openVars, killed>>

(* Mutant of ReadDone: no wakeup(&pi->nwrite). *)
ReadDoneSilent(p) ==
  /\ pc[p] = "r_copy"
  /\ left[p] = 0 \/ Empty
  /\ Goto(p, "idle")
  /\ Leave(p)
  /\ UNCHANGED <<pipeVars, openVars, killed, ch>>

ReadDone(p) ==
  /\ pc[p] = "r_copy"
  /\ left[p] = 0 \/ Empty
  /\ WakeWriters(p, "idle")
  /\ Leave(p)
  /\ UNCHANGED <<pipeVars, openVars, killed, ch>>

-----------------------------------------------------------------------------
(* fileclose(): the last descriptor of an end calls pipeclose(). *)

(* Mutant of CloseWrite: no wakeup(&pi->nread). *)
CloseWriteSilent(p) ==
  /\ pc[p] = "idle" /\ p \in wfds
  /\ wfds' = wfds \ {p}
  /\ IF wfds' = {} THEN lock = NoProc /\ writeopen' = FALSE ELSE UNCHANGED writeopen
  /\ UNCHANGED <<pipeVars, readopen, rfds, lock, killed, pc, left, ch>>

(* Mutant of CloseWrite: the first descriptor that is closed closes the    *)
(* end.                                                                    *)
CloseWriteFirst(p) ==
  /\ pc[p] = "idle" /\ p \in wfds
  /\ wfds' = wfds \ {p}
  /\ lock = NoProc /\ writeopen' = FALSE /\ WakeReaders(p, "idle")
  /\ UNCHANGED <<pipeVars, readopen, rfds, lock, killed, left, ch>>

CloseWrite(p) ==
  /\ pc[p] = "idle" /\ p \in wfds
  /\ wfds' = wfds \ {p}
  /\ IF wfds' = {}
       THEN lock = NoProc /\ writeopen' = FALSE /\ WakeReaders(p, "idle")
       ELSE UNCHANGED <<writeopen, pc>>
  /\ UNCHANGED <<pipeVars, readopen, rfds, lock, killed, left, ch>>

CloseRead(p) ==
  /\ pc[p] = "idle" /\ p \in rfds
  /\ rfds' = rfds \ {p}
  /\ IF rfds' = {}
       THEN lock = NoProc /\ readopen' = FALSE /\ WakeWriters(p, "idle")
       ELSE UNCHANGED <<readopen, pc>>
  /\ UNCHANGED <<pipeVars, writeopen, wfds, lock, killed, left, ch>>

(* kill(): sets the flag and ends a sleep(). *)
Kill(p) ==
  /\ ~killed[p]
  /\ killed' = [killed EXCEPT ![p] = TRUE]
  /\ Goto(p, CASE pc[p] = "r_sleep" -> "r_acq"
               [] pc[p] = "w_sleep" -> "w_acq"
               [] OTHER -> pc[p])
  /\ UNCHANGED <<pipeVars, openVars, lock, left, ch>>

-----------------------------------------------------------------------------
(* The steps of a call that has been made. *)
Writing(p) ==
  \/ WriteAcquire(p) \/ WriteAbort(p) \/ WriteCheck(p) \/ WriteSleep(p) \/ WriteDone(p)
  \/ \E b \in Bytes : WriteByte(p, b)

Reading(p) ==
  \/ ReadAcquire(p) \/ ReadAbort(p) \/ ReadCheck(p) \/ ReadSleep(p)
  \/ ReadByte(p) \/ ReadFault(p) \/ ReadDone(p)

Next ==
  \/ \E p \in Writers : Writing(p) \/ CloseWrite(p) \/ \E n \in 0 .. MaxN : CallWrite(p, n)
  \/ \E p \in Readers : Reading(p) \/ CloseRead(p) \/ \E n \in 0 .. MaxN : CallRead(p, n)
  \/ \E p \in Procs : Kill(p)

Spec == Init /\ [][Next]_vars

-----------------------------------------------------------------------------
(* Properties *)

(* The bytes inside, in their order. *)
Count == (nwrite + Word - nread) % Word
Queue == [k \in 1 .. Count |-> data[(nread + k - 1) % PIPESIZE]]

(* The pipe implements a bounded first-in first-out queue, across the wrap *)
(* of nread, nwrite and of the ring buffer, whichever processes read and   *)
(* write in turn, and however their calls end (pipewrite, piperead).       *)
Fifo == INSTANCE BoundedFifo WITH
          Size  <- PIPESIZE,
          queue <- Queue,
          got   <- ch

IsFifo == Fifo!Spec

(* A reader sleeps only while the pipe is empty and somebody may write; or *)
(* while a writer is still in its loop and will wake it; or, beside bytes, *)
(* when a writer was killed between two of them, for pipewrite() then      *)
(* returns -1 without the wakeup().  When the last writer has closed, no   *)
(* reader is asleep, whatever was killed before (pipeclose: wakeup).       *)
ReaderWoken ==
  \A p \in Readers :
    pc[p] = "r_sleep" =>
      \/ Empty /\ writeopen
      \/ lock \in Writers /\ pc[lock] \in {"w_loop", "w_body"}
      \/ writeopen /\ \E w \in Writers : killed[w]

(* A writer sleeps only while the pipe is full and somebody may read, or   *)
(* while a reader is in its loop and will wake it.                         *)
WriterWoken ==
  \A p \in Writers :
    pc[p] = "w_sleep" =>
      \/ Full /\ readopen
      \/ lock \in Readers /\ pc[lock] = "r_copy"

(* The structure is freed once, when both ends are closed, and no process  *)
(* is inside a call then (pipeclose: kfree).                               *)
NoUseAfterFree ==
  ~readopen /\ ~writeopen => lock = NoProc /\ \A p \in Procs : pc[p] = "idle"

-----------------------------------------------------------------------------
(* Why they hold: the inductive invariant of the proofs *)

InRead  == {"r_acq", "r_wait", "r_block", "r_sleep", "r_copy"}
InWrite == {"w_acq", "w_loop", "w_body", "w_sleep"}
Locked  == {"r_wait", "r_block", "r_copy", "w_loop", "w_body"}

TypeInv ==
  /\ pc \in [Procs -> InRead \union InWrite \union {"idle"}]
  /\ killed \in [Procs -> BOOLEAN]
  /\ lock \in Procs \union {NoProc}
  /\ readopen \in BOOLEAN /\ writeopen \in BOOLEAN
  /\ rfds \subseteq Readers /\ wfds \subseteq Writers

(* pi->lock is held by the one process inside its critical section. *)
LockInv == \A p \in Procs : pc[p] \in Locked <=> lock = p

(* An end that somebody has is open, and a caller has its end.  *)
OpenInv ==
  /\ rfds # {} => readopen
  /\ wfds # {} => writeopen
  /\ \A p \in Procs : pc[p] \in InRead => p \in rfds
  /\ \A p \in Procs : pc[p] \in InWrite => p \in wfds

(* What a call saw under the lock is still so when it goes to sleep. *)
SeenInv ==
  /\ \A p \in Procs : pc[p] \in {"r_wait", "r_block"} => Empty /\ writeopen
  /\ \A p \in Procs : pc[p] = "w_body" => readopen

(* The counters count the bytes inside, modulo Word. *)
RingInv ==
  /\ nread \in 0 .. Word - 1 /\ nwrite \in 0 .. Word - 1
  /\ data \in [0 .. PIPESIZE - 1 -> Bytes \union {NoByte}]
  /\ Count <= PIPESIZE

IInv == TypeInv /\ LockInv /\ OpenInv /\ SeenInv /\ ReaderWoken /\ WriterWoken

=============================================================================
