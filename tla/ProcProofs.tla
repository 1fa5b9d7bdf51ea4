---------------------------- MODULE ProcProofs ------------------------------
(***************************************************************************)
(* The safety properties of Proc hold for every NPROC, every set of CPUs   *)
(* and every choice of pids passed to kill(): each step preserves the      *)
(* inductive invariant IInv, and the theorems follow from it.              *)
(***************************************************************************)
EXTENDS ProcSwitchProofs

(* A leaf is pure logic unless it cites SMT. *)
USE Zenon

-----------------------------------------------------------------------------
(* The invariant and what follows from it *)

(* The state after userinit() satisfies the invariant. *)
LEMMA InitIInv == Init => IInv
<1> SUFFICES ASSUME Init PROVE IInv
  OBVIOUS
<1> USE ProcsFacts DEF Init
<1>1. TypeOK
  BY DEF TypeOK, Labels, ProcStates, initproc
<1>2. CpuInv /\ LockInv /\ WaitLockInv
  BY ProcAssumption DEF CpuInv, LockInv, WaitLockInv, InWaitLock
<1>3. StateInv /\ InitInv /\ ForkInv /\ ExitInv /\ WakeInv
  BY DEF StateInv, InitInv, ForkInv, Forking, ExitInv, WakeInv, Live
<1>4. PidInv /\ ParentAlive /\ NoLostWakeup /\ PidUnique
  BY SMT DEF PidInv, ParentAlive, NoLostWakeup, PidUnique
<1> QED
  BY <1>1, <1>2, <1>3, <1>4 DEF IInv

(* The invariant depends on the variables of the specification only. *)
LEMMA StutterStep ==
  ASSUME IInv, UNCHANGED vars
  PROVE  IInv'
<1> USE DEF vars, procVars, lockVars, threadVars, cpuVars
<1>1. TypeOK' /\ CpuInv' /\ LockInv'
  BY SMTT(30) DEF IInv, TypeOK, CpuInv, LockInv
<1>2. WaitLockInv' /\ StateInv' /\ InitInv'
  BY SMTT(30) DEF IInv, WaitLockInv, StateInv, InitInv
<1>3. ForkInv' /\ ExitInv' /\ WakeInv' /\ PidInv' /\ ParentAlive' /\ PidUnique'
  BY SMT DEF IInv, ForkInv, Forking, ExitInv, WakeInv, PidInv, ParentAlive, PidUnique
<1>4. NoLostWakeup'
  BY SMT DEF IInv, NoLostWakeup, At, OnStack
<1> QED
  BY <1>1, <1>2, <1>3, <1>4 DEF IInv

(* Every step preserves the invariant. *)
LEMMA NextStep == IInv /\ [Next]_vars => IInv'
<1> SUFFICES ASSUME IInv, [Next]_vars PROVE IInv'
  OBVIOUS
<1>1. CASE UNCHANGED vars
  BY <1>1, StutterStep
<1>2. ASSUME NEW c \in CPUs, Scheduler(c) PROVE IInv'
  BY <1>2, SchedSkipStep, SchedRunStep, SchedBackStep DEF Scheduler
<1>3. ASSUME NEW c \in CPUs, NEW p \in Procs,
             Switch(c, p) \/ Trap(c, p) \/ KernelTimer(c, p)
      PROVE IInv'
  BY <1>3, SchedStep, ResumeStep, TimerStep, TrapStep DEF Switch, Trap
<1>4. ASSUME NEW c \in CPUs, NEW p \in Procs, Thread(c, p) PROVE IInv'
  <2>1. CASE PanicLoop(c, p)
    BY <2>1, StutterStep DEF PanicLoop
  <2>2. CASE \/ ForkScan(c, p) \/ ForkFull(c, p) \/ ForkAlloc(c, p) \/ ForkFail(c, p)
             \/ ForkParent(c, p) \/ ForkRun(c, p)
    BY <2>2, ScanStep, ReturnStep, ForkAllocStep, ForkFailStep, ForkParentStep, ForkRunStep
  <2>3. CASE \/ ExitPanic(c, p) \/ ExitLock(c, p)
             \/ ReparentSkip(c, p) \/ ReparentChild(c, p) \/ ReparentDone(c, p)
             \/ WakeupSkip(c, p) \/ WakeupHit(c, p) \/ WakeupDone(c, p) \/ ExitZombie(c, p)
    BY <2>3, ScanStep, ExitStep, ReparentChildStep, WakeupStep, WakeupHitStep, ExitZombieStep
  <2>4. CASE \/ WaitLock(c, p) \/ WaitScan(c, p) \/ WaitReap(c, p)
             \/ WaitCopyoutFail(c, p) \/ WaitNone(c, p) \/ WaitBlock(c, p) \/ WaitSleep(c, p)
    BY <2>4, WaitStep, WaitReapStep, ReturnStep, WaitSleepStep
  <2>5. CASE \/ SyscallReturn(c, p) \/ KillScan(c, p) \/ KillNone(c, p) \/ KillFound(c, p)
    BY <2>5, TrapStep, ScanStep, ReturnStep, KillFoundStep
  <2> QED
    BY <1>4, <2>1, <2>2, <2>3, <2>4, <2>5 DEF Thread
<1> QED
  BY <1>1, <1>2, <1>3, <1>4 DEF Next

(* IInv is an invariant of the specification. *)
THEOREM Inductive == Spec => []IInv
BY InitIInv, NextStep, PTL DEF Spec

(* The type invariant, for every number of slots and CPUs. *)
THEOREM TypeCorrect == Spec => []TypeOK
<1>1. IInv => TypeOK
  BY DEF IInv
<1> QED
  BY <1>1, Inductive, PTL

(* No two CPUs are ever on the same kernel stack, and a RUNNING process is *)
(* on a CPU (scheduler, sched: p->lock held across swtch).                 *)
THEOREM StackExclusion == Spec => []OneStack
<1>1. IInv => OneStack
  BY ProcsFacts, SMT DEF IInv, TypeOK, CpuInv, LockInv, OneStack, OnStack
<1> QED
  BY <1>1, Inductive, PTL

(* sched() is entered with p->lock held and no other lock, so that its     *)
(* panics are out of reach.                                                *)
THEOREM SchedPreconditions == Spec => []SchedLocks
<1>1. IInv => SchedLocks
  <2> SUFFICES ASSUME IInv, NEW c \in CPUs, NEW p \in Procs, OnStack(c, p), sw[p] # "no"
               PROVE  Held(c) = {p}
    BY DEF SchedLocks
  <2>1. ci[c] = p /\ plock[p] = c /\ waitlock # c
    BY SMT DEF IInv, TypeOK, CpuInv, LockInv, WaitLockInv, OnStack
  <2>2. \A q \in Procs : plock[q] = c => q = p
    BY <2>1, ProcAssumption, SMTT(30) DEF IInv, TypeOK, LockInv
  <2> QED
    BY <2>1, <2>2 DEF Held
<1> QED
  BY <1>1, Inductive, PTL

(* A slot that is free or being set up by fork() is on no CPU (wait takes  *)
(* np->lock before it frees the slot).                                     *)
THEOREM FreedStacks == Spec => []FreedOffStack
<1>1. IInv => FreedOffStack
  BY ProcsFacts, SMT DEF IInv, TypeOK, CpuInv, StateInv, FreedOffStack
<1> QED
  BY <1>1, Inductive, PTL

(* wait() never sleeps through the exit of a child (exit, reparent, wait,  *)
(* sleep, wakeup).                                                         *)
THEOREM WakeupsArrive == Spec => []NoLostWakeup
<1>1. IInv => NoLostWakeup
  BY DEF IInv
<1> QED
  BY <1>1, Inductive, PTL

(* The parent of a process has not exited (exit: reparent before ZOMBIE). *)
THEOREM ParentsLive == Spec => []ParentAlive
<1>1. IInv => ParentAlive
  BY DEF IInv
<1> QED
  BY <1>1, Inductive, PTL

(* No two processes have the same pid, and exactly the UNUSED slots have   *)
(* none (allocpid, freeproc).                                              *)
THEOREM PidsDiffer == Spec => []PidUnique
<1>1. IInv => PidUnique
  BY DEF IInv
<1> QED
  BY <1>1, Inductive, PTL

-----------------------------------------------------------------------------
(* kill() reaches only the processes that it names, provided that nobody   *)
(* passes 0 to it, the pid of the UNUSED slots (run proc_kill0 shows what  *)
(* happens otherwise).                                                     *)
(* An UNUSED slot carries no flag that fork() would hand on, and kill()     *)
(* looks for a pid that it was given.                                       *)
KillInv ==
  /\ \A p \in Procs : state[p] = "UNUSED" => ~killed[p]
  /\ \A p \in Procs : pc[p] = "kill" => target[p] \in KillPids
  /\ OnlyNamedKilled

LEMMA KillInit == Init => KillInv
  BY ProcAssumption DEF Init, KillInv, OnlyNamedKilled, Procs, initproc

(* Every step keeps it: kill() finds only slots in use, since their pids    *)
(* alone differ from 0, and freeproc() clears the flag.                     *)
LEMMA KillStep ==
  ASSUME IInv, KillInv, 0 \notin KillPids, [Next]_vars
  PROVE  KillInv'
<1> USE DEF KillInv, OnlyNamedKilled, Goto, procVars, lockVars, threadVars, cpuVars
<1>0. TypeOK /\ PidUnique
  BY DEF IInv
<1>1. CASE UNCHANGED vars
  BY <1>1 DEF vars
<1>2. ASSUME NEW c \in CPUs, Scheduler(c) PROVE KillInv'
  BY <1>0, <1>2, SMT DEF Scheduler, SchedSkip, SchedRun, SchedBack, TypeOK
<1>3. ASSUME NEW c \in CPUs, NEW p \in Procs, Switch(c, p) \/ KernelTimer(c, p) PROVE KillInv'
  BY <1>0, <1>3, SMT DEF Switch, Sched, Resume, KernelTimer, Yield, TypeOK
<1>4. ASSUME NEW c \in CPUs, NEW p \in Procs, Trap(c, p) PROVE KillInv'
  <2>1. CASE TrapKilled(c, p) \/ UserFault(c, p) \/ UserTimer(c, p)
    <3>1. CASE TrapKilled(c, p)   BY <1>0, <3>1, SMTT(30) DEF TrapKilled, At, TypeOK
    <3>2. CASE UserFault(c, p)    BY <1>0, <3>2, SMTT(30) DEF UserFault, At, TypeOK, IInv, LockInv
    <3>3. CASE UserTimer(c, p)    BY <1>0, <3>3, SMTT(30) DEF UserTimer, Yield, At, TypeOK
    <3> HIDE DEF KillInv
    <3> QED  BY <2>1, <3>1, <3>2, <3>3
  <2>2. ASSUME NEW l \in {"fork", "wait", "exit"}, Syscall(c, p, l) PROVE KillInv'
    BY <1>0, <2>2 DEF Syscall, At, TypeOK
  <2>3. ASSUME NEW n \in KillPids, SyscallKill(c, p, n) PROVE KillInv'
    BY <1>0, <2>3 DEF SyscallKill, At, TypeOK
  <2> HIDE DEF KillInv
  <2> QED  BY <1>4, <2>1, <2>2, <2>3 DEF Trap
<1>5. ASSUME NEW c \in CPUs, NEW p \in Procs, Thread(c, p) PROVE KillInv'
  <2>1. CASE SyscallReturn(c, p) \/ PanicLoop(c, p)
    BY <1>0, <2>1, SMTT(30) DEF SyscallReturn, PanicLoop, At, vars, TypeOK
  <2>2. CASE ForkScan(c, p) \/ ForkFull(c, p) \/ ForkParent(c, p)
    BY <1>0, <2>2, SMT DEF ForkScan, ForkFull, ForkParent, Return, At, TypeOK
  <2>3. CASE ForkAlloc(c, p)
    BY <1>0, <2>3 DEF ForkAlloc, At, TypeOK
  <2>4. CASE ForkFail(c, p)
    BY <1>0, <2>4 DEF ForkFail, Freeproc, Return, At, TypeOK
  <2>5. CASE ForkRun(c, p)
    BY <1>0, <2>5, ZenonT(60) DEF ForkRun, Return, At, TypeOK, IInv, ForkInv, Forking
  <2>6. CASE \/ ExitPanic(c, p) \/ ExitLock(c, p)
             \/ ReparentSkip(c, p) \/ ReparentChild(c, p) \/ ReparentDone(c, p)
    BY <1>0, <2>6, SMTT(30) DEF ExitPanic, ExitLock, ReparentSkip, ReparentChild, ReparentDone, At, TypeOK
  <2>7. CASE WakeupSkip(c, p) \/ WakeupHit(c, p) \/ WakeupDone(c, p) \/ ExitZombie(c, p)
    <3>1. CASE WakeupSkip(c, p) \/ WakeupDone(c, p)
      BY <1>0, <3>1, SMTT(30) DEF WakeupSkip, WakeupDone, InWakeup, At, TypeOK
    <3>2. CASE WakeupHit(c, p)    BY <1>0, <3>2, SMTT(30) DEF WakeupHit, InWakeup, At, TypeOK
    <3>3. CASE ExitZombie(c, p)   BY <1>0, <3>3 DEF ExitZombie, At, TypeOK
    <3> HIDE DEF KillInv
    <3> QED  BY <2>7, <3>1, <3>2, <3>3
  <2>8. CASE \/ WaitLock(c, p) \/ WaitScan(c, p) \/ WaitCopyoutFail(c, p)
             \/ WaitNone(c, p) \/ WaitBlock(c, p) \/ WaitSleep(c, p)
    <3>1. CASE WaitLock(c, p) \/ WaitScan(c, p)
      BY <1>0, <3>1, SMTT(30) DEF WaitLock, WaitScan, At, TypeOK
    <3>2. CASE WaitCopyoutFail(c, p) \/ WaitNone(c, p)
      BY <1>0, <3>2, SMT DEF WaitCopyoutFail, WaitNone, Return, At, TypeOK
    <3>3. CASE WaitBlock(c, p)   BY <1>0, <3>3, SMTT(30) DEF WaitBlock, At, TypeOK
    <3>4. CASE WaitSleep(c, p)   BY <1>0, <3>4, SMTT(30) DEF WaitSleep, At, TypeOK
    <3> HIDE DEF KillInv
    <3> QED  BY <2>8, <3>1, <3>2, <3>3, <3>4
  <2>9. CASE WaitReap(c, p)
    BY <1>0, <2>9, ZenonT(60) DEF WaitReap, Freeproc, Return, At, TypeOK
  <2>10. CASE KillScan(c, p) \/ KillNone(c, p)
    BY <1>0, <2>10, SMT DEF KillScan, KillNone, Return, At, TypeOK
  <2>11. CASE KillFound(c, p)
    BY <1>0, <2>11, SMT DEF KillFound, Return, At, TypeOK, PidUnique
  <2> HIDE DEF KillInv
  <2> QED  BY <1>5, <2>1, <2>2, <2>3, <2>4, <2>5, <2>6, <2>7, <2>8, <2>9, <2>10, <2>11 DEF Thread
<1> HIDE DEF KillInv
<1> QED  BY <1>1, <1>2, <1>3, <1>4, <1>5 DEF Next

(* No process is killed unless kill() names its pid or it faults itself,   *)
(* across the reuse of slots, for any number of slots and CPUs and if 0 is *)
(* never passed to kill() (kill, freeproc, usertrap).                      *)
THEOREM NamedKilled ==
  ASSUME 0 \notin KillPids
  PROVE  Spec => []OnlyNamedKilled
<1>1. IInv /\ KillInv /\ [Next]_vars => KillInv'
  BY KillStep
<1>2. KillInv => OnlyNamedKilled
  BY DEF KillInv
<1> QED  BY <1>1, <1>2, KillInit, Inductive, PTL DEF Spec
=============================================================================
