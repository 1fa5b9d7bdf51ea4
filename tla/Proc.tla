-------------------------------- MODULE Proc --------------------------------
(***************************************************************************)
(* Processes and the per-CPU scheduler: kernel/proc.c with the return path *)
(* of usertrap() and the preemption of kerneltrap() (kernel/trap.c).       *)
(*                                                                         *)
(* Every process has a kernel thread whose control point is pc[p]; it runs *)
(* on the CPU whose scheduler switched to it.  The locks held across steps *)
(* are modelled as the code has them: plock[p] is p->lock, which is handed *)
(* between thread and scheduler through swtch(), and waitlock is           *)
(* wait_lock.  A spinlock is owned by a CPU (spinlock.c: lk->cpu).  A      *)
(* critical section that takes and drops its lock without taking another   *)
(* one in between is a single step, enabled when the lock is free.         *)
(*                                                                         *)
(* Left out: memory, open files, cwd, names and exit statuses, which no    *)
(* decision of this code depends on; a failing allocation is a             *)
(* nondeterministic outcome of the step that allocates.                    *)
(***************************************************************************)
EXTENDS Naturals, FiniteSets

CONSTANTS
  NPROC,    \* slots of the process table
  CPUs,     \* the harts that run scheduler()
  NoCpu,    \* owner of a free lock
  MaxPid,   \* bound: fork() is not called once nextpid is beyond it
  KillPids  \* the pids that processes pass to kill()

ASSUME ProcAssumption ==
  /\ NPROC \in Nat \ {0}
  /\ MaxPid \in Nat
  /\ KillPids \subseteq Nat
  /\ NoCpu \notin CPUs

VARIABLES
  state,    \* p->state
  chan,     \* p->chan: 0, or the process whose wait() it is
  killed,   \* p->killed
  pid,      \* p->pid
  parent,   \* p->parent, 0 for none
  nextpid,  \* nextpid
  plock,    \* owner of p->lock
  waitlock, \* owner of wait_lock
  pc,       \* control point of p's kernel thread
  i,        \* its loop variable over the process table; in fork(), np
  wi,       \* the loop variable of a wakeup() it is in
  havekids, \* havekids of wait()
  target,   \* the argument of kill()
  sw,       \* the call of sched() that p's thread is in, "no" outside
  cproc,    \* c->proc, 0 for none
  cpc,      \* scheduler(): "scan", "run" inside swtch(), "back" after it
  ci        \* the scheduler's loop variable

procVars   == <<state, chan, killed, pid, parent, nextpid>>
lockVars   == <<plock, waitlock>>
threadVars == <<pc, i, wi, havekids, target, sw>>
cpuVars    == <<cproc, cpc, ci>>
vars       == <<procVars, lockVars, threadVars, cpuVars>>

Procs     == 1 .. NPROC
initproc  == 1
ProcStates == {"UNUSED", "USED", "SLEEPING", "RUNNABLE", "RUNNING", "ZOMBIE"}

(* Control points at which a thread holds wait_lock. *)
InWaitLock == {"x_repar", "x_wakeinit", "x_wakeparent", "x_zombie",
               "w_scan", "w_sleep"}
Labels == InWaitLock \union
          {"user", "ret", "fork", "f_parent", "f_run", "exit", "wait",
           "kill", "panic"}

TypeOK ==
  /\ state    \in [Procs -> ProcStates]
  /\ chan     \in [Procs -> Procs \union {0}]
  /\ killed   \in [Procs -> BOOLEAN]
  /\ pid      \in [Procs -> Nat]
  /\ parent   \in [Procs -> Procs \union {0}]
  /\ nextpid  \in Nat
  /\ plock    \in [Procs -> CPUs \union {NoCpu}]
  /\ waitlock \in CPUs \union {NoCpu}
  /\ pc       \in [Procs -> Labels]
  /\ i        \in [Procs -> 1 .. NPROC + 1]
  /\ wi       \in [Procs -> 1 .. NPROC + 1]
  /\ havekids \in [Procs -> BOOLEAN]
  /\ target   \in [Procs -> Nat]
  /\ sw       \in [Procs -> {"no", "yield", "sleep", "zombie", "first"}]
  /\ cproc    \in [CPUs -> Procs \union {0}]
  /\ cpc      \in [CPUs -> {"scan", "run", "back"}]
  /\ ci       \in [CPUs -> Procs]

(* procinit() and userinit(): init is RUNNABLE with pid 1, every other     *)
(* slot is UNUSED, and each CPU enters scheduler().                        *)
Init ==
  /\ state    = [p \in Procs |-> IF p = initproc THEN "RUNNABLE" ELSE "UNUSED"]
  /\ chan     = [p \in Procs |-> 0]
  /\ killed   = [p \in Procs |-> FALSE]
  /\ pid      = [p \in Procs |-> IF p = initproc THEN 1 ELSE 0]
  /\ parent   = [p \in Procs |-> 0]
  /\ nextpid  = 2
  /\ plock    = [p \in Procs |-> NoCpu]
  /\ waitlock = NoCpu
  /\ pc       = [p \in Procs |-> "user"]
  /\ i        = [p \in Procs |-> 1]
  /\ wi       = [p \in Procs |-> 1]
  /\ havekids = [p \in Procs |-> FALSE]
  /\ target   = [p \in Procs |-> 0]
  /\ sw       = [p \in Procs |-> "first"]
  /\ cproc    = [c \in CPUs |-> 0]
  /\ cpc      = [c \in CPUs |-> "scan"]
  /\ ci       = [c \in CPUs |-> 1]

-----------------------------------------------------------------------------
(* c executes on p's kernel stack. *)
OnStack(c, p) == cpc[c] = "run" /\ cproc[c] = p

(* p's thread runs on c at control point l, outside sched(). *)
At(c, p, l) == OnStack(c, p) /\ sw[p] = "no" /\ pc[p] = l

Goto(p, l) == pc' = [pc EXCEPT ![p] = l]

(* A system call returns: its local variables are gone. *)
Return(p) ==
  /\ Goto(p, "ret")
  /\ i'        = [i EXCEPT ![p] = 1]
  /\ havekids' = [havekids EXCEPT ![p] = FALSE]
  /\ target'   = [target EXCEPT ![p] = 0]

Free(p) == plock[p] = NoCpu

(* The locks that CPU c holds; noff is their number. *)
Held(c) == {p \in Procs : plock[p] = c} \union
           (IF waitlock = c THEN {0} ELSE {})

-----------------------------------------------------------------------------
(* scheduler() *)

NextSlot(n) == IF n = NPROC THEN 1 ELSE n + 1

(* The slot is not RUNNABLE: take and drop its lock and go on. *)
SchedSkip(c) ==
  /\ cpc[c] = "scan"
  /\ Free(ci[c])
  /\ state[ci[c]] # "RUNNABLE"
  /\ ci' = [ci EXCEPT ![c] = NextSlot(ci[c])]
  /\ UNCHANGED <<procVars, lockVars, threadVars, cproc, cpc>>

(* The slot is RUNNABLE: switch to it, its lock held. *)
SchedRun(c) ==
  LET p == ci[c] IN
  /\ cpc[c] = "scan"
  /\ Free(p)
  /\ state[p] = "RUNNABLE"
  /\ plock' = [plock EXCEPT ![p] = c]
  /\ state' = [state EXCEPT ![p] = "RUNNING"]
  /\ cproc' = [cproc EXCEPT ![c] = p]
  /\ cpc'   = [cpc EXCEPT ![c] = "run"]
  /\ UNCHANGED <<chan, killed, pid, parent, nextpid, waitlock, threadVars, ci>>

(* Back from the process: c->proc = 0 and release its lock. *)
SchedBack(c) ==
  /\ cpc[c] = "back"
  /\ cproc' = [cproc EXCEPT ![c] = 0]
  /\ plock' = [plock EXCEPT ![ci[c]] = NoCpu]
  /\ cpc'   = [cpc EXCEPT ![c] = "scan"]
  /\ ci'    = [ci EXCEPT ![c] = NextSlot(ci[c])]
  /\ UNCHANGED <<procVars, waitlock, threadVars>>

(* sched(): the thread, its state changed and its lock held, saves its     *)
(* context and switches to the scheduler of the CPU it is on.              *)
Sched(c, p) ==
  /\ OnStack(c, p) /\ sw[p] # "no" /\ state[p] # "RUNNING"
  /\ cpc' = [cpc EXCEPT ![c] = "back"]
  /\ UNCHANGED <<procVars, lockVars, threadVars, cproc, ci>>

(* The first steps of a thread that the scheduler switched to: what        *)
(* follows sched() in yield() and sleep(), and forkret().                  *)
Resume(c, p) ==
  /\ OnStack(c, p) /\ sw[p] # "no" /\ state[p] = "RUNNING"
  /\ plock' = [plock EXCEPT ![p] = NoCpu]
  /\ chan'  = [chan EXCEPT ![p] = IF sw[p] = "sleep" THEN 0 ELSE @]
  /\ sw'    = [sw EXCEPT ![p] = "no"]
  /\ UNCHANGED <<state, killed, pid, parent, nextpid, waitlock,
                 pc, i, wi, havekids, target, cpuVars>>

-----------------------------------------------------------------------------
(* Traps *)

(* Mutant of Yield: RUNNABLE without p->lock. *)
YieldNoLock(c, p) ==
  /\ state' = [state EXCEPT ![p] = "RUNNABLE"]
  /\ sw'    = [sw EXCEPT ![p] = "yield"]
  /\ UNCHANGED <<chan, killed, pid, parent, nextpid, lockVars,
                 pc, i, wi, havekids, target, cpuVars>>

(* yield(): RUNNABLE under p->lock, then sched(). *)
Yield(c, p) ==
  /\ Free(p)
  /\ plock' = [plock EXCEPT ![p] = c]
  /\ state' = [state EXCEPT ![p] = "RUNNABLE"]
  /\ sw'    = [sw EXCEPT ![p] = "yield"]
  /\ UNCHANGED <<chan, killed, pid, parent, nextpid, waitlock,
                 pc, i, wi, havekids, target, cpuVars>>

(* usertrap() of a killed process: it exits, whatever the trap was. *)
TrapKilled(c, p) ==
  /\ At(c, p, "user")
  /\ killed[p]
  /\ Goto(p, "exit")
  /\ UNCHANGED <<procVars, lockVars, i, wi, havekids, target, sw, cpuVars>>

(* usertrap() on an exception: the process is killed, and exits. *)
UserFault(c, p) ==
  /\ At(c, p, "user")
  /\ ~killed[p]
  /\ killed' = [killed EXCEPT ![p] = TRUE]
  /\ Goto(p, "exit")
  /\ UNCHANGED <<state, chan, pid, parent, nextpid, lockVars,
                 i, wi, havekids, target, sw, cpuVars>>

(* usertrap() on a timer interrupt. *)
UserTimer(c, p) ==
  /\ At(c, p, "user")
  /\ ~killed[p]
  /\ Yield(c, p)

(* kerneltrap() on a timer interrupt: interrupts are on in the kernel      *)
(* exactly when the CPU holds no lock (push_off(), pop_off()).             *)
KernelTimer(c, p) ==
  /\ OnStack(c, p) /\ sw[p] = "no" /\ state[p] = "RUNNING"
  /\ pc[p] \notin {"user", "panic"}
  /\ Held(c) = {}
  /\ Yield(c, p)

(* usertrap() on a system call. *)
Syscall(c, p, l) ==
  /\ At(c, p, "user")
  /\ ~killed[p]
  /\ l = "fork" => nextpid <= MaxPid
  /\ Goto(p, l)
  /\ UNCHANGED <<procVars, lockVars, i, wi, havekids, target, sw, cpuVars>>

SyscallKill(c, p, n) ==
  /\ At(c, p, "user")
  /\ ~killed[p]
  /\ Goto(p, "kill")
  /\ target' = [target EXCEPT ![p] = n]
  /\ UNCHANGED <<procVars, lockVars, i, wi, havekids, sw, cpuVars>>

(* usertrap() after the system call. *)
SyscallReturn(c, p) ==
  /\ At(c, p, "ret")
  /\ Goto(p, IF killed[p] THEN "exit" ELSE "user")
  /\ UNCHANGED <<procVars, lockVars, i, wi, havekids, target, sw, cpuVars>>

-----------------------------------------------------------------------------
(* fork() *)

(* Mutant of Freeproc: killed is not reset. *)
FreeprocKeepsKilled(q) ==
  /\ state'  = [state EXCEPT ![q] = "UNUSED"]
  /\ pid'    = [pid EXCEPT ![q] = 0]
  /\ parent' = [parent EXCEPT ![q] = 0]
  /\ chan'   = [chan EXCEPT ![q] = 0]
  /\ UNCHANGED killed

(* freeproc(q), its lock held. *)
Freeproc(q) ==
  /\ state'  = [state EXCEPT ![q] = "UNUSED"]
  /\ pid'    = [pid EXCEPT ![q] = 0]
  /\ parent' = [parent EXCEPT ![q] = 0]
  /\ chan'   = [chan EXCEPT ![q] = 0]
  /\ killed' = [killed EXCEPT ![q] = FALSE]

(* allocproc() looks at slot i[p]. *)
ForkScan(c, p) ==
  /\ At(c, p, "fork")
  /\ i[p] \in Procs /\ Free(i[p]) /\ state[i[p]] # "UNUSED"
  /\ i' = [i EXCEPT ![p] = @ + 1]
  /\ UNCHANGED <<procVars, lockVars, pc, wi, havekids, target, sw, cpuVars>>

(* No slot is UNUSED: fork() returns -1. *)
ForkFull(c, p) ==
  /\ At(c, p, "fork")
  /\ i[p] = NPROC + 1
  /\ Return(p)
  /\ UNCHANGED <<procVars, lockVars, wi, sw, cpuVars>>

(* Mutant of ForkAlloc: allocpid() does not count on. *)
ForkAllocSamePid(c, p) ==
  LET np == i[p] IN
  /\ At(c, p, "fork")
  /\ np \in Procs /\ Free(np) /\ state[np] = "UNUSED"
  /\ pid'     = [pid EXCEPT ![np] = nextpid]
  /\ state'   = [state EXCEPT ![np] = "USED"]
  /\ pc'      = [pc EXCEPT ![p] = "f_parent", ![np] = "user"]
  /\ sw'      = [sw EXCEPT ![np] = "first"]
  /\ UNCHANGED <<chan, killed, parent, nextpid, lockVars, i, wi, havekids, target, cpuVars>>

(* An UNUSED slot: USED with a fresh pid, its context set to forkret(),    *)
(* memory and files copied, then its lock is released.                     *)
ForkAlloc(c, p) ==
  LET np == i[p] IN
  /\ At(c, p, "fork")
  /\ np \in Procs /\ Free(np) /\ state[np] = "UNUSED"
  /\ pid'     = [pid EXCEPT ![np] = nextpid]
  /\ nextpid' = nextpid + 1
  /\ state'   = [state EXCEPT ![np] = "USED"]
  /\ pc'      = [pc EXCEPT ![p] = "f_parent", ![np] = "user"]
  /\ sw'      = [sw EXCEPT ![np] = "first"]
  /\ UNCHANGED <<chan, killed, parent, lockVars, i, wi, havekids, target, cpuVars>>

(* The trapframe, the page table or the copy of memory cannot be had: the  *)
(* slot is freed again, the pid is used up.                                *)
ForkFail(c, p) ==
  LET np == i[p] IN
  /\ At(c, p, "fork")
  /\ np \in Procs /\ Free(np) /\ state[np] = "UNUSED"
  /\ nextpid' = nextpid + 1
  /\ Freeproc(np)
  /\ Return(p)
  /\ UNCHANGED <<lockVars, wi, sw, cpuVars>>

(* np->parent = p under wait_lock. *)
ForkParent(c, p) ==
  /\ At(c, p, "f_parent")
  /\ waitlock = NoCpu
  /\ parent' = [parent EXCEPT ![i[p]] = p]
  /\ Goto(p, "f_run")
  /\ UNCHANGED <<state, chan, killed, pid, nextpid, lockVars,
                 i, wi, havekids, target, sw, cpuVars>>

(* np->state = RUNNABLE under np->lock. *)
ForkRun(c, p) ==
  /\ At(c, p, "f_run")
  /\ Free(i[p])
  /\ state' = [state EXCEPT ![i[p]] = "RUNNABLE"]
  /\ Return(p)
  /\ UNCHANGED <<chan, killed, pid, parent, nextpid, lockVars, wi, sw, cpuVars>>

-----------------------------------------------------------------------------
(* exit() *)

(* init must not exit. *)
ExitPanic(c, p) ==
  /\ At(c, p, "exit")
  /\ p = initproc
  /\ Goto(p, "panic")
  /\ UNCHANGED <<procVars, lockVars, i, wi, havekids, target, sw, cpuVars>>

(* panic() loops forever. *)
PanicLoop(c, p) == At(c, p, "panic") /\ UNCHANGED vars

ExitLock(c, p) ==
  /\ At(c, p, "exit")
  /\ p # initproc
  /\ waitlock = NoCpu
  /\ waitlock' = c
  /\ Goto(p, "x_repar")
  /\ UNCHANGED <<procVars, plock, i, wi, havekids, target, sw, cpuVars>>

(* reparent(): a slot that is no child of p. *)
ReparentSkip(c, p) ==
  /\ At(c, p, "x_repar")
  /\ i[p] \in Procs /\ parent[i[p]] # p
  /\ i' = [i EXCEPT ![p] = @ + 1]
  /\ UNCHANGED <<procVars, lockVars, pc, wi, havekids, target, sw, cpuVars>>

(* Mutant of ReparentChild: the wakeup() is due, the new parent is not set. *)
ReparentChildForgotten(c, p) ==
  /\ At(c, p, "x_repar")
  /\ i[p] \in Procs /\ parent[i[p]] = p
  /\ i' = [i EXCEPT ![p] = @ + 1]
  /\ Goto(p, "x_wakeinit")
  /\ UNCHANGED <<procVars, lockVars, wi, havekids, target, sw, cpuVars>>

ReparentChild(c, p) ==
  /\ At(c, p, "x_repar")
  /\ i[p] \in Procs /\ parent[i[p]] = p
  /\ parent' = [parent EXCEPT ![i[p]] = initproc]
  /\ i' = [i EXCEPT ![p] = @ + 1]
  /\ Goto(p, "x_wakeinit")
  /\ UNCHANGED <<state, chan, killed, pid, nextpid, lockVars,
                 wi, havekids, target, sw, cpuVars>>

(* Mutant of ReparentDone: the last slot is left out. *)
ReparentDoneEarly(c, p) ==
  /\ At(c, p, "x_repar")
  /\ i[p] >= NPROC
  /\ i' = [i EXCEPT ![p] = 1]
  /\ Goto(p, "x_wakeparent")
  /\ UNCHANGED <<procVars, lockVars, wi, havekids, target, sw, cpuVars>>

(* End of the loop: exit() calls wakeup(p->parent). *)
ReparentDone(c, p) ==
  /\ At(c, p, "x_repar")
  /\ i[p] = NPROC + 1
  /\ i' = [i EXCEPT ![p] = 1]
  /\ Goto(p, "x_wakeparent")
  /\ UNCHANGED <<procVars, lockVars, wi, havekids, target, sw, cpuVars>>

(* wakeup(): its two calls in exit(). *)
WakeupChan(p) == IF pc[p] = "x_wakeinit" THEN initproc ELSE parent[p]

InWakeup(c, p) == \E l \in {"x_wakeinit", "x_wakeparent"} : At(c, p, l)

(* The caller's own slot, or one that does not sleep on the channel. *)
WakeupSkip(c, p) ==
  /\ InWakeup(c, p)
  /\ wi[p] \in Procs
  /\ \/ wi[p] = p
     \/ /\ Free(wi[p])
        /\ ~(state[wi[p]] = "SLEEPING" /\ chan[wi[p]] = WakeupChan(p))
  /\ wi' = [wi EXCEPT ![p] = @ + 1]
  /\ UNCHANGED <<procVars, lockVars, pc, i, havekids, target, sw, cpuVars>>

(* Mutant of WakeupHit: wakeup() does not change the state. *)
WakeupHitIgnored(c, p) ==
  /\ InWakeup(c, p)
  /\ wi[p] \in Procs /\ wi[p] # p /\ Free(wi[p])
  /\ state[wi[p]] = "SLEEPING" /\ chan[wi[p]] = WakeupChan(p)
  /\ wi' = [wi EXCEPT ![p] = @ + 1]
  /\ UNCHANGED <<procVars, lockVars, pc, i, havekids, target, sw, cpuVars>>

WakeupHit(c, p) ==
  /\ InWakeup(c, p)
  /\ wi[p] \in Procs /\ wi[p] # p /\ Free(wi[p])
  /\ state[wi[p]] = "SLEEPING" /\ chan[wi[p]] = WakeupChan(p)
  /\ state' = [state EXCEPT ![wi[p]] = "RUNNABLE"]
  /\ wi' = [wi EXCEPT ![p] = @ + 1]
  /\ UNCHANGED <<chan, killed, pid, parent, nextpid, lockVars,
                 pc, i, havekids, target, sw, cpuVars>>

WakeupDone(c, p) ==
  /\ InWakeup(c, p)
  /\ wi[p] = NPROC + 1
  /\ wi' = [wi EXCEPT ![p] = 1]
  /\ Goto(p, IF pc[p] = "x_wakeinit" THEN "x_repar" ELSE "x_zombie")
  /\ UNCHANGED <<procVars, lockVars, i, havekids, target, sw, cpuVars>>

(* ZOMBIE under p->lock, wait_lock released, then sched(). *)
ExitZombie(c, p) ==
  /\ At(c, p, "x_zombie")
  /\ Free(p)
  /\ plock' = [plock EXCEPT ![p] = c]
  /\ state' = [state EXCEPT ![p] = "ZOMBIE"]
  /\ waitlock' = NoCpu
  /\ sw' = [sw EXCEPT ![p] = "zombie"]
  /\ UNCHANGED <<chan, killed, pid, parent, nextpid,
                 pc, i, wi, havekids, target, cpuVars>>

-----------------------------------------------------------------------------
(* wait() *)

(* acquire(&wait_lock), at the start and at the end of sleep(). *)
WaitLock(c, p) ==
  /\ At(c, p, "wait")
  /\ waitlock = NoCpu
  /\ waitlock' = c
  /\ Goto(p, "w_scan")
  /\ UNCHANGED <<procVars, plock, i, wi, havekids, target, sw, cpuVars>>

(* A slot that is no child, or a child that has not exited. *)
WaitScan(c, p) ==
  LET np == i[p] IN
  /\ At(c, p, "w_scan")
  /\ np \in Procs
  /\ parent[np] = p => Free(np) /\ state[np] # "ZOMBIE"
  /\ i' = [i EXCEPT ![p] = @ + 1]
  /\ havekids' = [havekids EXCEPT ![p] = @ \/ parent[np] = p]
  /\ UNCHANGED <<procVars, lockVars, pc, wi, target, sw, cpuVars>>

(* Mutant of WaitReap: np->lock is not taken. *)
WaitReapNoLock(c, p) ==
  LET np == i[p] IN
  /\ At(c, p, "w_scan")
  /\ np \in Procs /\ parent[np] = p /\ state[np] = "ZOMBIE"
  /\ Freeproc(np)
  /\ waitlock' = NoCpu
  /\ Return(p)
  /\ UNCHANGED <<nextpid, plock, wi, sw, cpuVars>>

(* A zombie child: wait() copies its status out and frees it.              *)
WaitReap(c, p) ==
  LET np == i[p] IN
  /\ At(c, p, "w_scan")
  /\ np \in Procs /\ parent[np] = p /\ Free(np) /\ state[np] = "ZOMBIE"
  /\ Freeproc(np)
  /\ waitlock' = NoCpu
  /\ Return(p)
  /\ UNCHANGED <<nextpid, plock, wi, sw, cpuVars>>

(* copyout() of the status fails: the child stays a zombie.  init passes a *)
(* null address (user/init/init.c), which is not copied to.                *)
WaitCopyoutFail(c, p) ==
  LET np == i[p] IN
  /\ At(c, p, "w_scan")
  /\ p # initproc
  /\ np \in Procs /\ parent[np] = p /\ Free(np) /\ state[np] = "ZOMBIE"
  /\ waitlock' = NoCpu
  /\ Return(p)
  /\ UNCHANGED <<procVars, plock, wi, sw, cpuVars>>

(* The table is scanned: without children, or killed, return -1. *)
WaitNone(c, p) ==
  /\ At(c, p, "w_scan")
  /\ i[p] = NPROC + 1
  /\ ~havekids[p] \/ killed[p]
  /\ waitlock' = NoCpu
  /\ Return(p)
  /\ UNCHANGED <<procVars, plock, wi, sw, cpuVars>>

(* Mutant of WaitBlock: wait_lock is released before sleep(). *)
WaitBlockUnlocked(c, p) ==
  /\ At(c, p, "w_scan")
  /\ i[p] = NPROC + 1
  /\ havekids[p] /\ ~killed[p]
  /\ Goto(p, "w_sleep")
  /\ waitlock' = NoCpu
  /\ UNCHANGED <<procVars, plock, i, wi, havekids, target, sw, cpuVars>>

(* Otherwise sleep() is called. *)
WaitBlock(c, p) ==
  /\ At(c, p, "w_scan")
  /\ i[p] = NPROC + 1
  /\ havekids[p] /\ ~killed[p]
  /\ Goto(p, "w_sleep")
  /\ UNCHANGED <<procVars, lockVars, i, wi, havekids, target, sw, cpuVars>>

(* Mutant of WaitSleep: sleep() keeps wait_lock. *)
WaitSleepKeepsLock(c, p) ==
  /\ At(c, p, "w_sleep")
  /\ Free(p)
  /\ plock' = [plock EXCEPT ![p] = c]
  /\ chan' = [chan EXCEPT ![p] = p]
  /\ state' = [state EXCEPT ![p] = "SLEEPING"]
  /\ sw' = [sw EXCEPT ![p] = "sleep"]
  /\ i' = [i EXCEPT ![p] = 1]
  /\ havekids' = [havekids EXCEPT ![p] = FALSE]
  /\ Goto(p, "wait")
  /\ UNCHANGED <<killed, pid, parent, nextpid, waitlock, wi, target, cpuVars>>

(* sleep(p, &wait_lock): take p->lock, then release wait_lock; SLEEPING,   *)
(* then sched().  Once resumed it takes wait_lock again and restarts the   *)
(* scan, havekids reset: back to "wait".                                   *)
WaitSleep(c, p) ==
  /\ At(c, p, "w_sleep")
  /\ Free(p)
  /\ plock' = [plock EXCEPT ![p] = c]
  /\ waitlock' = NoCpu
  /\ chan' = [chan EXCEPT ![p] = p]
  /\ state' = [state EXCEPT ![p] = "SLEEPING"]
  /\ sw' = [sw EXCEPT ![p] = "sleep"]
  /\ i' = [i EXCEPT ![p] = 1]
  /\ havekids' = [havekids EXCEPT ![p] = FALSE]
  /\ Goto(p, "wait")
  /\ UNCHANGED <<killed, pid, parent, nextpid, wi, target, cpuVars>>

-----------------------------------------------------------------------------
(* kill(target[p]) *)

KillScan(c, p) ==
  /\ At(c, p, "kill")
  /\ i[p] \in Procs /\ Free(i[p]) /\ pid[i[p]] # target[p]
  /\ i' = [i EXCEPT ![p] = @ + 1]
  /\ UNCHANGED <<procVars, lockVars, pc, wi, havekids, target, sw, cpuVars>>

(* Nobody has that pid: kill() returns -1. *)
KillNone(c, p) ==
  /\ At(c, p, "kill")
  /\ i[p] = NPROC + 1
  /\ Return(p)
  /\ UNCHANGED <<procVars, lockVars, wi, sw, cpuVars>>

(* The process with that pid: killed, and woken from any sleep(). *)
KillFound(c, p) ==
  LET q == i[p] IN
  /\ At(c, p, "kill")
  /\ q \in Procs /\ Free(q) /\ pid[q] = target[p]
  /\ killed' = [killed EXCEPT ![q] = TRUE]
  /\ state' = [state EXCEPT ![q] = IF @ = "SLEEPING" THEN "RUNNABLE" ELSE @]
  /\ Return(p)
  /\ UNCHANGED <<chan, pid, parent, nextpid, lockVars, wi, sw, cpuVars>>

-----------------------------------------------------------------------------
Timer(c) ==
  \E p \in Procs : TrapKilled(c, p) \/ UserTimer(c, p) \/ KernelTimer(c, p)

Scheduler(c) == SchedSkip(c) \/ SchedRun(c) \/ SchedBack(c)

Switch(c, p) == Sched(c, p) \/ Resume(c, p)

(* The steps of p's kernel thread between two traps. *)
Thread(c, p) ==
  \/ SyscallReturn(c, p)
  \/ ForkScan(c, p) \/ ForkFull(c, p) \/ ForkAlloc(c, p) \/ ForkFail(c, p)
  \/ ForkParent(c, p) \/ ForkRun(c, p)
  \/ ExitPanic(c, p) \/ PanicLoop(c, p) \/ ExitLock(c, p)
  \/ ReparentSkip(c, p) \/ ReparentChild(c, p) \/ ReparentDone(c, p)
  \/ WakeupSkip(c, p) \/ WakeupHit(c, p) \/ WakeupDone(c, p) \/ ExitZombie(c, p)
  \/ WaitLock(c, p) \/ WaitScan(c, p) \/ WaitReap(c, p)
  \/ WaitCopyoutFail(c, p) \/ WaitNone(c, p) \/ WaitBlock(c, p) \/ WaitSleep(c, p)
  \/ KillScan(c, p) \/ KillNone(c, p) \/ KillFound(c, p)

(* The traps a process takes from user mode. *)
Trap(c, p) ==
  \/ TrapKilled(c, p) \/ UserFault(c, p) \/ UserTimer(c, p)
  \/ \E l \in {"fork", "wait", "exit"} : Syscall(c, p, l)
  \/ \E n \in KillPids : SyscallKill(c, p, n)

Next == \E c \in CPUs :
          \/ Scheduler(c)
          \/ \E p \in Procs :
               Switch(c, p) \/ Thread(c, p) \/ Trap(c, p) \/ KernelTimer(c, p)

Spec == Init /\ [][Next]_vars

(* init's program calls wait() in a loop (user/init/init.c). *)
InitWaits == \E c \in CPUs : Syscall(c, initproc, "wait")

(* A CPU goes on executing.  A timer interrupt stays pending until the CPU *)
(* can take it.  The next one is a whole interval later (RESET_TIMER), so  *)
(* a thread that is scheduled again and again advances.  init waits for    *)
(* its children.                                                           *)
FairSpec ==
  /\ Spec
  /\ \A c \in CPUs :
       /\ WF_vars(Scheduler(c) \/ \E p \in Procs : Switch(c, p))
       /\ SF_vars(Timer(c))
       /\ \A p \in Procs : SF_vars(Thread(c, p))
  /\ SF_vars(InitWaits)

-----------------------------------------------------------------------------
(* Properties *)

(* A kernel stack is in use by at most one CPU, from the scheduler's       *)
(* swtch() to a process until that CPU is through with it, and a RUNNING   *)
(* process is on some CPU (proc.c: scheduler, sched; p->lock is held       *)
(* across swtch() for this).                                               *)
OneStack ==
  /\ \A c1, c2 \in CPUs :
       cproc[c1] # 0 /\ cproc[c1] = cproc[c2] => c1 = c2
  /\ \A p \in Procs : state[p] = "RUNNING" => \E c \in CPUs : OnStack(c, p)

(* The panics of sched() ("sched p->lock", "sched locks"): a thread inside *)
(* sched() holds its own p->lock and its CPU holds nothing else.           *)
SchedLocks ==
  \A c \in CPUs, p \in Procs :
    OnStack(c, p) /\ sw[p] # "no" => Held(c) = {p}

(* A slot is freed and handed out only when no CPU is still on its kernel  *)
(* stack (wait(): "make sure the child isn't still in exit() or swtch()"). *)
FreedOffStack ==
  \A p \in Procs : state[p] \in {"UNUSED", "USED"} => \A c \in CPUs : cproc[c] # p

(* No lost wakeup: a process sleeps in wait() beside a zombie child only   *)
(* while the wakeup() that reparent() owes to init is still on its way to  *)
(* init's slot (proc.c: exit, reparent, wait, sleep, wakeup).              *)
NoLostWakeup ==
  \A p, j \in Procs :
    state[p] = "SLEEPING" /\ parent[j] = p /\ state[j] = "ZOMBIE" =>
      /\ p = initproc
      /\ \E c \in CPUs, q \in Procs : At(c, q, "x_wakeinit") /\ wi[q] <= p

(* A child's parent is a process that has not exited: exit() passes every  *)
(* child on to init before it becomes a zombie, so that somebody can wait  *)
(* for it; and only a process has a parent.                                *)
ParentAlive ==
  \A p, j \in Procs : parent[j] = p =>
    state[j] # "UNUSED" /\ state[p] \in {"SLEEPING", "RUNNABLE", "RUNNING"}

(* Two processes never have the same pid, and a slot has pid 0 exactly     *)
(* when it is UNUSED (allocpid, allocproc, freeproc).                      *)
PidUnique ==
  \A p, q \in Procs :
    /\ pid[p] = 0 <=> state[p] = "UNUSED"
    /\ pid[p] # 0 /\ pid[p] = pid[q] => p = q

(* A process is killed only if its pid was passed to kill(), or by a fault *)
(* of its own, after which it is in exit(); in particular a reused slot    *)
(* does not inherit the flag of its last process (kill: "Kill the process  *)
(* with the given pid"; usertrap, freeproc).                               *)
OnlyNamedKilled ==
  \A p \in Procs :
    state[p] # "UNUSED" /\ killed[p] =>
      \/ pid[p] \in KillPids
      \/ pc[p] \in {"exit", "panic", "x_repar", "x_wakeinit", "x_wakeparent", "x_zombie"}

(* A parent asleep in wait() beside a zombie child returns from wait().    *)
(* When init has exited the kernel has stopped.                            *)
WaitReturns ==
  \A p \in Procs :
    (/\ state[p] = "SLEEPING"
     /\ \E j \in Procs : parent[j] = p /\ state[j] = "ZOMBIE")
      ~> (pc[p] = "ret" \/ pc[initproc] = "panic")

(* A process that has exited and whose parent is init, or is in exit()    *)
(* itself, is freed: reparent() hands it over before init scans for        *)
(* children, or wakes init to scan again.                                  *)
OrphanReaped ==
  \A j \in Procs :
    (/\ state[j] = "ZOMBIE"
     /\ parent[j] = initproc \/ pc[parent[j]] \in {"exit", "x_repar"})
      ~> (state[j] # "ZOMBIE" \/ pc[initproc] = "panic")

-----------------------------------------------------------------------------
(* The inductive invariant behind the safety properties. *)

Live == {"SLEEPING", "RUNNABLE", "RUNNING"}

(* Which process a CPU is on; no two CPUs are on the same one. *)
CpuInv ==
  /\ \A c \in CPUs : cproc[c] = (IF cpc[c] = "scan" THEN 0 ELSE ci[c])
  /\ \A c1, c2 \in CPUs :
       cpc[c1] # "scan" /\ cpc[c2] # "scan" /\ ci[c1] = ci[c2] => c1 = c2

(* p->lock is held by the CPU on which p is inside sched(), or that has    *)
(* just come back from it, and by no other.                                *)
LockInv ==
  /\ \A c \in CPUs :
       cpc[c] = "back" \/ (cpc[c] = "run" /\ sw[ci[c]] # "no") => plock[ci[c]] = c
  /\ \A p \in Procs :
       plock[p] # NoCpu =>
         /\ ci[plock[p]] = p
         /\ cpc[plock[p]] = "back" \/ (cpc[plock[p]] = "run" /\ sw[p] # "no")
  /\ \A c \in CPUs :
       cpc[c] = "back" => state[ci[c]] # "RUNNING" /\ sw[ci[c]] # "no"
  /\ \A p \in Procs : sw[p] = "no" => state[p] = "RUNNING"
  /\ \A p \in Procs :
       state[p] = "RUNNING" => \E c \in CPUs : cpc[c] = "run" /\ ci[c] = p

(* wait_lock is held exactly by the CPU of a thread between its acquire    *)
(* and its release, and such a thread is not preempted.                    *)
WaitLockInv ==
  /\ \A c \in CPUs :
       /\ cpc[c] = "run" /\ sw[ci[c]] = "no" /\ pc[ci[c]] \in InWaitLock
            => waitlock = c
       /\ waitlock = c
            => cpc[c] = "run" /\ sw[ci[c]] = "no" /\ pc[ci[c]] \in InWaitLock
  /\ \A p \in Procs :
       pc[p] \in InWaitLock => sw[p] = "no" \/ (sw[p] = "zombie" /\ pc[p] = "x_zombie")

(* The states a thread at a given point can be in. *)
StateInv ==
  \A p \in Procs :
    /\ state[p] = "SLEEPING" => sw[p] = "sleep"
    /\ sw[p] = "sleep" => chan[p] = p
    /\ state[p] = "ZOMBIE" => sw[p] = "zombie"
    /\ sw[p] = "zombie" => state[p] \in {"ZOMBIE", "UNUSED"}
    /\ pc[p] \notin {"user", "x_zombie"} => state[p] \in Live
    /\ state[p] \in {"UNUSED", "USED"} =>
         /\ sw[p] \in {"first", "zombie"}
         /\ \A c \in CPUs : cpc[c] # "scan" => ci[c] # p

(* init never exits. *)
InitInv ==
  /\ parent[initproc] = 0
  /\ state[initproc] \in Live
  /\ pc[initproc] \notin {"x_repar", "x_wakeinit", "x_wakeparent", "x_zombie"}

(* The slot that fork() works on is its own. *)
Forking(p) == pc[p] \in {"f_parent", "f_run"}

ForkInv ==
  /\ \A p \in Procs : Forking(p) => i[p] \in Procs /\ state[i[p]] = "USED"
  /\ \A p, q \in Procs : Forking(p) /\ Forking(q) /\ i[p] = i[q] => p = q

(* How far exit() is with giving its children away, and the loops that     *)
(* have not been started.                                                  *)
ExitInv ==
  /\ \A p, j \in Procs :
       /\ pc[p] \in {"x_repar", "x_wakeinit"} /\ j < i[p] => parent[j] # p
       /\ pc[p] \in {"x_wakeparent", "x_zombie"} => parent[j] # p
  /\ \A p \in Procs :
       /\ pc[p] \in {"user", "ret", "exit", "wait", "x_wakeparent", "x_zombie"} => i[p] = 1
       /\ pc[p] \notin {"x_wakeinit", "x_wakeparent"} => wi[p] = 1

(* What exit() has woken, and what wait() has looked at. *)
WakeInv ==
  \A p, q \in Procs :
    /\ pc[p] = "x_zombie" /\ sw[p] = "no" /\ parent[p] = q => state[q] # "SLEEPING"
    /\ pc[p] = "x_wakeparent" /\ parent[p] = q /\ q < wi[p] => state[q] # "SLEEPING"
    /\ pc[p] = "w_scan" /\ parent[q] = p /\ q < i[p] => state[q] # "ZOMBIE"
    /\ pc[p] = "w_sleep" /\ parent[q] = p => state[q] # "ZOMBIE"

PidInv == \A p \in Procs : pid[p] < nextpid

IInv ==
  /\ TypeOK /\ CpuInv /\ LockInv /\ WaitLockInv /\ StateInv /\ InitInv
  /\ ForkInv /\ ExitInv /\ WakeInv /\ PidInv
  /\ ParentAlive /\ NoLostWakeup /\ PidUnique
=============================================================================
