------------------------- MODULE ProcSwitchProofs ---------------------------
(***************************************************************************)
(* The steps of the scheduler of Proc, the context switches, yield() and   *)
(* fork() preserve the inductive invariant IInv.                           *)
(***************************************************************************)
EXTENDS ProcCallProofs

(* A leaf is pure logic unless it cites SMT. *)
USE Zenon

-----------------------------------------------------------------------------
(* The scheduler, the context switches, yield() and fork() *)

(* scheduler() passing by a slot preserves the invariant. *)
LEMMA SchedSkipStep ==
  ASSUME NEW c \in CPUs, IInv, SchedSkip(c)
  PROVE  IInv'
<1>0. /\ cpc[c] = "scan" /\ plock[ci[c]] = NoCpu
      /\ ci' = [ci EXCEPT ![c] = NextSlot(ci[c])]
      /\ UNCHANGED <<procVars, lockVars, threadVars, cproc, cpc>>
  BY DEF SchedSkip, Free
<1> USE DEF procVars, lockVars, threadVars
<1>1. TypeOK'
  BY <1>0, ProcsFacts DEF IInv, TypeOK
<1>2. \A d \in CPUs : d # c => ci'[d] = ci[d]
  BY <1>0 DEF IInv, TypeOK
<1>3. CpuInv' /\ LockInv' /\ WaitLockInv'
  <2>1. CpuInv'
    BY <1>0, ProcAssumption, SMTT(30) DEF IInv, TypeOK, CpuInv
  <2>2. LockInv'
    BY <1>0, ProcAssumption, SMTT(30) DEF IInv, TypeOK, LockInv
  <2>3. WaitLockInv'
    BY <1>0, ProcAssumption, SMTT(30) DEF IInv, TypeOK, WaitLockInv
  <2> QED
    BY <2>1, <2>2, <2>3
<1>4. StateInv'
  BY <1>0, <1>2, ZenonT(60) DEF IInv, StateInv
<1>5. InitInv' /\ ForkInv' /\ ExitInv'
  BY <1>0 DEF IInv, InitInv, ForkInv, Forking, ExitInv
<1>6. WakeInv' /\ PidInv' /\ ParentAlive' /\ PidUnique'
  BY <1>0 DEF IInv, WakeInv, PidInv, ParentAlive, PidUnique
<1>7. NoLostWakeup'
  <2>1. \A d \in CPUs, q \in Procs : At(d, q, "x_wakeinit") => At(d, q, "x_wakeinit")'
    BY <1>0, <1>2 DEF At, OnStack
  <2> QED  BY <1>0, <2>1 DEF IInv, NoLostWakeup
<1> QED
  BY <1>1, <1>3, <1>4, <1>5, <1>6, <1>7 DEF IInv

(* scheduler() switching to a process preserves the invariant: the process *)
(* was on no CPU, because its lock was free.                               *)
LEMMA SchedRunStep ==
  ASSUME NEW c \in CPUs, IInv, SchedRun(c)
  PROVE  IInv'
<1>1. PICK p \in Procs : p = ci[c]
  BY DEF IInv, TypeOK
<1>2. /\ cpc[c] = "scan" /\ plock[p] = NoCpu /\ state[p] = "RUNNABLE"
      /\ plock' = [plock EXCEPT ![p] = c]
      /\ state' = [state EXCEPT ![p] = "RUNNING"]
      /\ cproc' = [cproc EXCEPT ![c] = p]
      /\ cpc' = [cpc EXCEPT ![c] = "run"]
      /\ UNCHANGED <<chan, killed, pid, parent, nextpid, waitlock, threadVars, ci>>
  BY <1>1 DEF SchedRun, Free
<1> USE DEF threadVars
<1>3. TypeOK'
  BY <1>2 DEF IInv, TypeOK, ProcStates
<1>4. /\ sw[p] # "no"
      /\ \A d \in CPUs : ci[d] = p => cpc[d] = "scan"
  BY <1>1, <1>2, ProcAssumption, SMT DEF IInv, TypeOK, LockInv
<1>5. CpuInv'
  BY <1>1, <1>2, <1>4, SMTT(30) DEF IInv, TypeOK, CpuInv
<1>6. LockInv'
  BY <1>1, <1>2, <1>4, ProcAssumption, SMT DEF IInv, TypeOK, LockInv
<1>7. WaitLockInv'
  BY <1>1, <1>2, <1>4, ProcAssumption, ZenonT(60) DEF IInv, TypeOK, WaitLockInv
<1>8. StateInv' /\ InitInv' /\ ForkInv'
  <2>1. StateInv'
    BY <1>1, <1>2, <1>4, SMTT(30) DEF IInv, TypeOK, StateInv, Forking, Live
  <2>2. InitInv'
    BY <1>1, <1>2, <1>4, SMTT(30) DEF IInv, TypeOK, InitInv, Forking, Live
  <2>3. ForkInv'
    BY <1>1, <1>2, <1>4, SMTT(30) DEF IInv, TypeOK, ForkInv, Forking, Live
  <2> QED
    BY <2>1, <2>2, <2>3
<1>9. ExitInv' /\ WakeInv' /\ PidInv' /\ ParentAlive' /\ PidUnique'
  <2>1. ExitInv'
    BY <1>2, SMTT(30) DEF IInv, TypeOK, ExitInv
  <2>2. WakeInv'
    BY <1>2, SMTT(30) DEF IInv, TypeOK, WakeInv
  <2>3. PidInv'
    BY <1>2, SMTT(30) DEF IInv, TypeOK, PidInv
  <2>4. ParentAlive'
    BY <1>2, SMTT(30) DEF IInv, TypeOK, ParentAlive
  <2>5. PidUnique'
    BY <1>2, SMTT(30) DEF IInv, TypeOK, PidUnique
  <2> QED
    BY <2>1, <2>2, <2>3, <2>4, <2>5
<1>10. NoLostWakeup'
  BY <1>1, <1>2, <1>4, SMT DEF IInv, TypeOK, NoLostWakeup, At, OnStack
<1> QED
  BY <1>3, <1>5, <1>6, <1>7, <1>8, <1>9, <1>10 DEF IInv

(* scheduler() releasing the lock of the process it comes back from        *)
(* preserves the invariant.                                                *)
LEMMA SchedBackStep ==
  ASSUME NEW c \in CPUs, IInv, SchedBack(c)
  PROVE  IInv'
<1>1. PICK p \in Procs, n \in Procs : p = ci[c] /\ n = NextSlot(p)
  BY ProcsFacts DEF IInv, TypeOK
<1>2. /\ cpc[c] = "back"
      /\ cproc' = [cproc EXCEPT ![c] = 0]
      /\ plock' = [plock EXCEPT ![p] = NoCpu]
      /\ cpc'   = [cpc EXCEPT ![c] = "scan"]
      /\ ci'    = [ci EXCEPT ![c] = n]
      /\ UNCHANGED <<procVars, waitlock, threadVars>>
  BY <1>1 DEF SchedBack
<1> USE DEF procVars, threadVars
<1>3. TypeOK'
  BY <1>2 DEF IInv, TypeOK
<1>4. /\ state[p] # "RUNNING" /\ sw[p] # "no" /\ plock[p] = c
      /\ \A d \in CPUs : cpc[d] # "scan" /\ ci[d] = p => d = c
  BY <1>1, <1>2, SMT DEF IInv, TypeOK, LockInv, CpuInv
<1>5. CpuInv'
  BY <1>1, <1>2, <1>4 DEF IInv, TypeOK, CpuInv
<1>6. LockInv'
  BY <1>1, <1>2, <1>4, ProcAssumption, SMTT(30) DEF IInv, TypeOK, LockInv
<1>7. WaitLockInv' /\ StateInv'
  <2>1. WaitLockInv'
    BY <1>1, <1>2, ProcAssumption, SMTT(30) DEF IInv, TypeOK, WaitLockInv
  <2>2. StateInv'
    BY <1>1, <1>2, ProcAssumption, SMTT(30) DEF IInv, TypeOK, StateInv
  <2> QED
    BY <2>1, <2>2
<1>8. InitInv' /\ ForkInv' /\ ExitInv' /\ WakeInv' /\ PidInv' /\ ParentAlive' /\ PidUnique'
  <2>1. InitInv'
    BY <1>2, SMTT(30) DEF IInv, InitInv, Forking
  <2>2. ForkInv'
    BY <1>2, SMTT(30) DEF IInv, ForkInv, Forking
  <2>3. ExitInv'
    BY <1>2, SMTT(30) DEF IInv, ExitInv, Forking
  <2>4. WakeInv'
    BY <1>2, SMTT(30) DEF IInv, WakeInv, Forking
  <2>5. PidInv'
    BY <1>2, SMTT(30) DEF IInv, PidInv, Forking
  <2>6. ParentAlive'
    BY <1>2, SMTT(30) DEF IInv, ParentAlive, Forking
  <2>7. PidUnique'
    BY <1>2, SMTT(30) DEF IInv, PidUnique, Forking
  <2> QED
    BY <2>1, <2>2, <2>3, <2>4, <2>5, <2>6, <2>7
<1>9. NoLostWakeup'
  BY <1>1, <1>2, SMTT(30) DEF IInv, TypeOK, NoLostWakeup, At, OnStack
<1> QED
  BY <1>3, <1>5, <1>6, <1>7, <1>8, <1>9 DEF IInv

(* The switch in sched() preserves the invariant. *)
LEMMA SchedStep ==
  ASSUME NEW c \in CPUs, NEW p \in Procs, IInv, Sched(c, p)
  PROVE  IInv'
<1> USE DEF Sched, OnStack, procVars, lockVars, threadVars
<1>1. TypeOK'
  BY DEF IInv, TypeOK
<1>2. ci[c] = p
  BY DEF IInv, TypeOK, CpuInv
<1>3. CpuInv' /\ LockInv' /\ WaitLockInv'
  <2>1. CpuInv'
    BY <1>2, ProcAssumption, SMTT(30) DEF IInv, TypeOK, CpuInv
  <2>2. LockInv'
    BY <1>2, ProcAssumption, SMTT(30) DEF IInv, TypeOK, LockInv
  <2>3. WaitLockInv'
    BY <1>2, ProcAssumption, SMTT(30) DEF IInv, TypeOK, WaitLockInv
  <2> QED
    BY <2>1, <2>2, <2>3
<1>4. StateInv' /\ InitInv' /\ ForkInv' /\ ExitInv' /\ WakeInv' /\ PidInv'
      /\ ParentAlive' /\ PidUnique'
  BY SMT DEF IInv, TypeOK, StateInv, InitInv, ForkInv, Forking, ExitInv, WakeInv, PidInv,
         ParentAlive, PidUnique
<1>5. NoLostWakeup'
  BY <1>2, SMT DEF IInv, TypeOK, NoLostWakeup, At
<1> QED
  BY <1>1, <1>3, <1>4, <1>5 DEF IInv

(* The first steps of a thread that is switched to, which release p->lock, *)
(* preserve the invariant (yield, sleep, forkret).                         *)
LEMMA ResumeStep ==
  ASSUME NEW c \in CPUs, NEW p \in Procs, IInv, Resume(c, p)
  PROVE  IInv'
<1> USE DEF Resume, OnStack, cpuVars
<1>1. TypeOK'
  BY DEF IInv, TypeOK
<1>2. /\ ci[c] = p /\ plock[p] = c /\ pc[p] \notin InWaitLock /\ waitlock # c
      /\ \A d \in CPUs : cpc[d] # "scan" /\ ci[d] = p => d = c
      /\ sw[p] # "zombie"
  BY ProcsFacts, SMTT(30) DEF IInv, TypeOK, CpuInv, LockInv, WaitLockInv, StateInv
<1>3. CpuInv' /\ LockInv'
  BY <1>2, ProcAssumption, SMT DEF IInv, TypeOK, CpuInv, LockInv
<1>4. WaitLockInv'
  BY <1>2, ProcAssumption, ZenonT(60) DEF IInv, TypeOK, WaitLockInv
<1>5. StateInv'
  BY <1>2, SMT DEF IInv, TypeOK, StateInv
<1>6. InitInv' /\ ForkInv' /\ ExitInv' /\ PidInv' /\ ParentAlive' /\ PidUnique'
  <2>1. UNCHANGED <<state, pid, parent, nextpid, killed, pc, i, wi, havekids, target>>   OBVIOUS
  <2> QED  BY ONLY <2>1, IInv DEF IInv, InitInv, ForkInv, Forking, ExitInv, PidInv, ParentAlive, PidUnique
<1>7. WakeInv'
  BY <1>2, SMT DEF IInv, TypeOK, WakeInv, InWaitLock
<1>8. NoLostWakeup'
  BY <1>2, SMT DEF IInv, TypeOK, NoLostWakeup, At, InWaitLock
<1> QED
  BY <1>1, <1>3, <1>4, <1>5, <1>6, <1>7, <1>8 DEF IInv

(* yield() of a thread that does not hold wait_lock preserves the          *)
(* invariant.                                                              *)
LEMMA YieldStep ==
  ASSUME NEW c \in CPUs, NEW p \in Procs, IInv,
         OnStack(c, p), sw[p] = "no", pc[p] \notin InWaitLock, Yield(c, p)
  PROVE  IInv'
<1> USE DEF Yield, OnStack, Free, cpuVars
<1>1. TypeOK'
  BY DEF IInv, TypeOK, ProcStates
<1>2. /\ ci[c] = p /\ waitlock # c /\ state[p] = "RUNNING"
      /\ \A d \in CPUs : cpc[d] # "scan" /\ ci[d] = p => d = c
  BY ProcsFacts, SMTT(30) DEF IInv, TypeOK, CpuInv, LockInv, WaitLockInv
<1>3. CpuInv' /\ LockInv'
  BY <1>2, ProcAssumption, SMT DEF IInv, TypeOK, CpuInv, LockInv
<1>4. WaitLockInv'
  BY <1>2, ProcAssumption DEF IInv, TypeOK, WaitLockInv
<1>5. StateInv' /\ InitInv' /\ ForkInv'
  <2>1. StateInv'
    BY <1>2, SMTT(30) DEF IInv, TypeOK, StateInv, Forking, Live
  <2>2. InitInv'
    BY <1>2, SMTT(30) DEF IInv, TypeOK, InitInv, Forking, Live
  <2>3. ForkInv'
    BY <1>2, SMTT(30) DEF IInv, TypeOK, ForkInv, Forking, Live
  <2> QED
    BY <2>1, <2>2, <2>3
<1>6. ExitInv' /\ PidInv' /\ ParentAlive' /\ PidUnique'
  <2>1. ExitInv'
    BY <1>2, SMTT(30) DEF IInv, TypeOK, ExitInv
  <2>2. PidInv'
    BY <1>2, SMTT(30) DEF IInv, TypeOK, PidInv
  <2>3. ParentAlive'
    BY <1>2, SMTT(30) DEF IInv, TypeOK, ParentAlive
  <2>4. PidUnique'
    BY <1>2, SMTT(30) DEF IInv, TypeOK, PidUnique
  <2> QED
    BY <2>1, <2>2, <2>3, <2>4
<1>7. WakeInv'
  BY <1>2, SMT DEF IInv, TypeOK, WakeInv
<1>8. NoLostWakeup'
  BY <1>2, SMT DEF IInv, TypeOK, NoLostWakeup, At, InWaitLock
<1> QED
  BY <1>1, <1>3, <1>4, <1>5, <1>6, <1>7, <1>8 DEF IInv

(* The preemption by a timer interrupt preserves the invariant: in the     *)
(* kernel it happens only while the CPU holds no lock.                     *)
LEMMA TimerStep ==
  ASSUME NEW c \in CPUs, NEW p \in Procs, IInv, UserTimer(c, p) \/ KernelTimer(c, p)
  PROVE  IInv'
<1>1. OnStack(c, p) /\ sw[p] = "no" /\ Yield(c, p)
  BY DEF UserTimer, KernelTimer, At
<1>2. pc[p] \notin InWaitLock
  <2>1. CASE UserTimer(c, p)
    BY <2>1 DEF UserTimer, At, InWaitLock
  <2>2. CASE KernelTimer(c, p)
    <3>1. waitlock # c
      BY <2>2 DEF KernelTimer, Held
    <3>2. ci[c] = p
      BY <1>1 DEF IInv, TypeOK, CpuInv, OnStack
    <3> QED
      BY <1>1, <3>1, <3>2 DEF IInv, WaitLockInv, OnStack
  <2> QED
    BY <2>1, <2>2
<1> QED
  BY <1>1, <1>2, YieldStep

(* allocproc() finding a slot preserves the invariant: no thread and no    *)
(* CPU uses an UNUSED slot.                                                *)
LEMMA ForkAllocStep ==
  ASSUME NEW c \in CPUs, NEW p \in Procs, IInv, ForkAlloc(c, p)
  PROVE  IInv'
<1>1. PICK np \in Procs : np = i[p]
  BY DEF ForkAlloc
<1>2. /\ cpc[c] = "run" /\ cproc[c] = p /\ sw[p] = "no" /\ pc[p] = "fork"
      /\ plock[np] = NoCpu /\ state[np] = "UNUSED"
      /\ pid'     = [pid EXCEPT ![np] = nextpid]
      /\ nextpid' = nextpid + 1
      /\ state'   = [state EXCEPT ![np] = "USED"]
      /\ pc'      = [pc EXCEPT ![p] = "f_parent", ![np] = "user"]
      /\ sw'      = [sw EXCEPT ![np] = "first"]
      /\ UNCHANGED <<chan, killed, parent, plock, waitlock, i, wi, havekids, target,
                     cproc, cpc, ci>>
  BY <1>1 DEF ForkAlloc, At, OnStack, Free, lockVars, cpuVars
<1>3. TypeOK'
  BY <1>2, SMTT(30) DEF IInv, TypeOK, Labels, ProcStates
<1>4. /\ ci[c] = p /\ state[p] = "RUNNING" /\ np # p /\ waitlock # c
      /\ pc[np] \in {"user", "x_zombie"} /\ sw[np] # "no" /\ np # initproc
      /\ \A d \in CPUs : cpc[d] # "scan" => ci[d] # np
      /\ \A d \in CPUs : cpc[d] # "scan" /\ ci[d] = p => d = c
  BY <1>2, ProcsFacts, SMT
     DEF IInv, TypeOK, CpuInv, LockInv, WaitLockInv, StateInv, InitInv, Live, InWaitLock
<1>5. CpuInv'
  BY <1>2 DEF IInv, CpuInv
<1>6. LockInv'
  BY <1>2, <1>4, SMTT(30) DEF IInv, TypeOK, LockInv
<1>7. WaitLockInv'
  BY <1>2, <1>4, ProcAssumption, SMTT(30) DEF IInv, TypeOK, WaitLockInv, InWaitLock
<1>8. StateInv'
  BY <1>2, <1>4, SMT DEF IInv, TypeOK, StateInv, Live
<1>9. InitInv'
  BY <1>2, <1>4, ProcsFacts DEF IInv, TypeOK, InitInv, Live
<1>10. ForkInv'
  <2>1. \A q \in Procs : Forking(q)' => q = p \/ (q # np /\ Forking(q))
    BY <1>2, <1>4 DEF IInv, TypeOK, Forking
  <2>2. \A q \in Procs : Forking(q) => i[q] \in Procs /\ i[q] # np /\ state[i[q]] = "USED"
    BY <1>2 DEF IInv, ForkInv
  <2> QED
    BY <1>1, <1>2, <2>1, <2>2, SMT DEF IInv, TypeOK, ForkInv
<1>11. ExitInv'
  BY <1>2, <1>4, ZenonT(60) DEF IInv, TypeOK, ExitInv
<1>12. WakeInv'
  BY <1>2, <1>4, SMTT(30) DEF IInv, TypeOK, WakeInv
<1>13. PidInv' /\ ParentAlive'
  BY <1>2, ProcsFacts, SMT DEF IInv, TypeOK, PidInv, ParentAlive
<1>14. PidUnique'
  BY <1>2, SMTT(30) DEF IInv, TypeOK, PidInv, PidUnique
<1>15. NoLostWakeup'
  BY <1>2, <1>4, SMTT(30) DEF IInv, TypeOK, NoLostWakeup, At, OnStack
<1> QED
  BY <1>3, <1>5, <1>6, <1>7, <1>8, <1>9, <1>10, <1>11, <1>12, <1>13, <1>14, <1>15 DEF IInv

(* A fork() that runs out of memory preserves the invariant. *)
LEMMA ForkFailStep ==
  ASSUME NEW c \in CPUs, NEW p \in Procs, IInv, ForkFail(c, p)
  PROVE  IInv'
<1>1. PICK np \in Procs : np = i[p]
  BY DEF ForkFail
<1>2. /\ cpc[c] = "run" /\ cproc[c] = p /\ sw[p] = "no" /\ pc[p] = "fork"
      /\ state[np] = "UNUSED"
      /\ nextpid' = nextpid + 1
      /\ state'  = [state EXCEPT ![np] = "UNUSED"]
      /\ pid'    = [pid EXCEPT ![np] = 0]
      /\ parent' = [parent EXCEPT ![np] = 0]
      /\ chan'   = [chan EXCEPT ![np] = 0]
      /\ killed' = [killed EXCEPT ![np] = FALSE]
      /\ pc' = [pc EXCEPT ![p] = "ret"]
      /\ i' = [i EXCEPT ![p] = 1]
      /\ havekids' = [havekids EXCEPT ![p] = FALSE]
      /\ target' = [target EXCEPT ![p] = 0]
      /\ UNCHANGED <<plock, waitlock, wi, sw, cproc, cpc, ci>>
  BY <1>1 DEF ForkFail, Freeproc, Return, Goto, At, OnStack, lockVars, cpuVars
<1>3. TypeOK'
  BY <1>2, ProcsFacts, SMT DEF IInv, TypeOK, Labels, ProcStates
<1>4. /\ parent[np] = 0 /\ sw[np] # "sleep" /\ pid[np] = 0 /\ ci[c] = p /\ state[p] = "RUNNING"
  <2>1. parent[np] \in Procs \union {0} /\ parent[np] \notin Procs
    BY <1>2 DEF IInv, TypeOK, ParentAlive
  <2>2. sw[np] # "sleep" /\ pid[np] = 0
    BY <1>2 DEF IInv, PidUnique, StateInv
  <2>3. ci[c] = p /\ state[p] = "RUNNING"
    BY <1>2, ZenonT(60) DEF IInv, TypeOK, CpuInv, LockInv
  <2> QED
    BY <2>1, <2>2, <2>3
<1>5. /\ parent' = parent /\ state' = state /\ pid' = pid
  BY <1>2, <1>4, ZenonT(60) DEF IInv, TypeOK
<1>6. CpuInv' /\ LockInv' /\ ParentAlive' /\ PidUnique'
  <2>1. LockInv'
    BY <1>2, <1>5, SMTT(30) DEF IInv, LockInv
  <2>2. CpuInv'
    BY <1>2, SMTT(30) DEF IInv, CpuInv
  <2>3. ParentAlive'
    BY <1>5, SMTT(30) DEF IInv, ParentAlive
  <2>4. PidUnique'
    BY <1>5, SMTT(30) DEF IInv, PidUnique
  <2> QED
    BY <2>1, <2>2, <2>3, <2>4
<1>7. WaitLockInv'
  BY <1>2, <1>4, ProcAssumption, SMTT(30) DEF IInv, TypeOK, WaitLockInv, InWaitLock
<1>8. StateInv' /\ InitInv'
  <2>1. StateInv'
    BY <1>2, <1>4, <1>5, SMTT(30) DEF IInv, TypeOK, StateInv, Live
  <2>2. InitInv'
    BY <1>2, <1>4, <1>5, SMTT(30) DEF IInv, TypeOK, InitInv, Live
  <2> QED
    BY <2>1, <2>2
<1>9. ForkInv' /\ ExitInv' /\ WakeInv'
  <2>1. ForkInv'
    BY <1>2, <1>5, SMTT(30) DEF IInv, TypeOK, ForkInv, Forking
  <2>2. ExitInv'
    BY <1>2, <1>5, SMTT(30) DEF IInv, TypeOK, ExitInv, Forking
  <2>3. WakeInv'
    BY <1>2, <1>5, SMTT(30) DEF IInv, TypeOK, WakeInv, Forking
  <2> QED
    BY <2>1, <2>2, <2>3
<1>10. PidInv'
  BY <1>2, <1>5, SMTT(30) DEF IInv, TypeOK, PidInv
<1>11. NoLostWakeup'
  BY <1>2, <1>5, SMT DEF IInv, TypeOK, NoLostWakeup, At, OnStack
<1> QED
  BY <1>3, <1>6, <1>7, <1>8, <1>9, <1>10, <1>11 DEF IInv

(* fork() setting np->parent preserves the invariant. *)
LEMMA ForkParentStep ==
  ASSUME NEW c \in CPUs, NEW p \in Procs, IInv, ForkParent(c, p)
  PROVE  IInv'
<1>1. PICK np \in Procs : np = i[p] /\ state[np] = "USED"
  BY DEF ForkParent, At, IInv, ForkInv, Forking
<1>2. /\ cpc[c] = "run" /\ cproc[c] = p /\ sw[p] = "no" /\ pc[p] = "f_parent"
      /\ waitlock = NoCpu
      /\ parent' = [parent EXCEPT ![np] = p]
      /\ pc' = [pc EXCEPT ![p] = "f_run"]
      /\ UNCHANGED <<state, chan, killed, pid, nextpid, plock, waitlock,
                     i, wi, havekids, target, sw, cproc, cpc, ci>>
  BY <1>1 DEF ForkParent, Goto, At, OnStack, lockVars, cpuVars
<1>3. TypeOK'
  BY <1>2 DEF IInv, TypeOK, Labels
<1>4. /\ ci[c] = p /\ state[p] = "RUNNING"
      /\ np # initproc /\ np # p /\ pc[np] \in {"user", "x_zombie"} /\ sw[np] # "no"
      /\ \A d \in CPUs : cpc[d] # "scan" /\ ci[d] = p => d = c
  BY <1>1, <1>2, ProcsFacts, SMTT(30) DEF IInv, TypeOK, CpuInv, LockInv, StateInv, InitInv, Live
<1>5. CpuInv' /\ LockInv' /\ PidInv' /\ PidUnique'
  <2>1. LockInv'
    BY <1>2, ZenonT(60) DEF IInv, LockInv
  <2> QED
    BY <1>2, <2>1, ZenonT(60) DEF IInv, CpuInv, PidInv, PidUnique
<1>6. WaitLockInv'
  BY <1>2, <1>4, ProcAssumption DEF IInv, TypeOK, WaitLockInv, InWaitLock
<1>7. StateInv' /\ InitInv'
  <2>1. StateInv'
    BY <1>2, <1>4, ProcsFacts, SMTT(30) DEF IInv, TypeOK, StateInv, Live
  <2>2. InitInv'
    BY <1>2, <1>4, ProcsFacts, SMTT(30) DEF IInv, TypeOK, InitInv, Live
  <2> QED
    BY <2>1, <2>2
<1>8. ForkInv'
  BY <1>1, <1>2, SMTT(30) DEF IInv, TypeOK, ForkInv, Forking
<1>9. ExitInv' /\ ParentAlive'
  <2>1. ExitInv'
    BY <1>1, <1>2, <1>4, SMTT(30) DEF IInv, TypeOK, ExitInv
  <2>2. ParentAlive'
    BY <1>1, <1>2, <1>4, SMTT(30) DEF IInv, TypeOK, ParentAlive
  <2> QED
    BY <2>1, <2>2
<1>10. WakeInv'
  BY <1>1, <1>2, <1>4, SMTT(30) DEF IInv, TypeOK, WakeInv
<1>11. NoLostWakeup'
  BY <1>1, <1>2, <1>4, SMT DEF IInv, TypeOK, NoLostWakeup, At, OnStack
<1> QED
  BY <1>3, <1>5, <1>6, <1>7, <1>8, <1>9, <1>10, <1>11 DEF IInv

(* fork() making the child RUNNABLE preserves the invariant. *)
LEMMA ForkRunStep ==
  ASSUME NEW c \in CPUs, NEW p \in Procs, IInv, ForkRun(c, p)
  PROVE  IInv'
<1>1. PICK np \in Procs : np = i[p] /\ state[np] = "USED"
  BY DEF ForkRun, At, IInv, ForkInv, Forking
<1>2. /\ cpc[c] = "run" /\ cproc[c] = p /\ sw[p] = "no" /\ pc[p] = "f_run"
      /\ state' = [state EXCEPT ![np] = "RUNNABLE"]
      /\ pc' = [pc EXCEPT ![p] = "ret"]
      /\ i' = [i EXCEPT ![p] = 1]
      /\ havekids' = [havekids EXCEPT ![p] = FALSE]
      /\ target' = [target EXCEPT ![p] = 0]
      /\ UNCHANGED <<chan, killed, pid, parent, nextpid, plock, waitlock,
                     wi, sw, cproc, cpc, ci>>
  BY <1>1 DEF ForkRun, Return, Goto, At, OnStack, lockVars, cpuVars
<1>3. TypeOK'
  BY <1>2, ProcsFacts DEF IInv, TypeOK, Labels, ProcStates
<1>4. /\ ci[c] = p /\ state[p] = "RUNNING" /\ sw[np] \notin {"no", "zombie"}
      /\ np # initproc /\ np # p
      /\ \A d \in CPUs : cpc[d] # "scan" /\ ci[d] = p => d = c
  BY <1>1, <1>2, ProcsFacts, SMTT(30) DEF IInv, TypeOK, CpuInv, LockInv, StateInv, InitInv, Live
<1>5. CpuInv' /\ PidInv'
  BY <1>2 DEF IInv, CpuInv, PidInv
<1>6. LockInv' /\ PidUnique' /\ ParentAlive'
  <2>1. LockInv'
    BY <1>1, <1>2, <1>4, SMTT(30) DEF IInv, TypeOK, LockInv
  <2>2. PidUnique'
    BY <1>1, <1>2, <1>4, SMTT(30) DEF IInv, TypeOK, PidUnique
  <2>3. ParentAlive'
    BY <1>1, <1>2, <1>4, SMTT(30) DEF IInv, TypeOK, ParentAlive
  <2> QED
    BY <2>1, <2>2, <2>3
<1>7. WaitLockInv'
  BY <1>2, <1>4, ProcAssumption, ZenonT(60) DEF IInv, TypeOK, WaitLockInv, InWaitLock
<1>8. StateInv' /\ InitInv'
  <2>1. StateInv'
    BY <1>1, <1>2, <1>4, SMTT(30) DEF IInv, TypeOK, StateInv, Live
  <2>2. InitInv'
    BY <1>1, <1>2, <1>4, SMTT(30) DEF IInv, TypeOK, InitInv, Live
  <2> QED
    BY <2>1, <2>2
<1>9. ForkInv'
  BY <1>1, <1>2, SMTT(30) DEF IInv, TypeOK, ForkInv, Forking
<1>10. ExitInv' /\ WakeInv'
  <2>1. ExitInv'
    BY <1>1, <1>2, <1>4, SMTT(30) DEF IInv, TypeOK, ExitInv
  <2>2. WakeInv'
    BY <1>1, <1>2, <1>4, SMTT(30) DEF IInv, TypeOK, WakeInv
  <2> QED
    BY <2>1, <2>2
<1>11. NoLostWakeup'
  BY <1>1, <1>2, <1>4, SMT DEF IInv, TypeOK, NoLostWakeup, At, OnStack
<1> QED
  BY <1>3, <1>5, <1>6, <1>7, <1>8, <1>9, <1>10, <1>11 DEF IInv
=============================================================================
