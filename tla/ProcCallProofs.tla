-------------------------- MODULE ProcCallProofs ----------------------------
(***************************************************************************)
(* The steps of Proc that change only local variables and wait_lock, and   *)
(* those of exit(), wait() and kill(), preserve the inductive invariant    *)
(* IInv.                                                                   *)
(***************************************************************************)
EXTENDS Proc, TLAPS

(* A leaf is pure logic unless it cites SMT. *)
USE Zenon

-----------------------------------------------------------------------------
(* Steps that touch only local variables and wait_lock *)

(* What the proofs need to know of slot numbers, so that they can leave    *)
(* the definition of Procs unexpanded.                                     *)
LEMMA ProcsFacts ==
  /\ initproc \in Procs /\ 0 \notin Procs /\ Procs \subseteq Nat
  /\ \A n \in Procs : n + 1 \in 1 .. NPROC + 1
  /\ \A n \in Procs : NextSlot(n) \in Procs
  /\ 1 \in 1 .. NPROC + 1
  /\ \A n \in Procs : n >= initproc
BY ProcAssumption, SMT DEF initproc, Procs, NextSlot

(* While CPU c, on p's stack, holds wait_lock no other live thread is      *)
(* between its acquire and its release (exit, wait: wait_lock).            *)
LEMMA OneInWaitLock ==
  ASSUME IInv, NEW c \in CPUs, waitlock = c, NEW p \in Procs, ci[c] = p
  PROVE  \A q \in Procs :
           q # p /\ pc[q] \in InWaitLock => sw[q] = "zombie" /\ pc[q] = "x_zombie"
<1> SUFFICES ASSUME NEW q \in Procs, q # p, pc[q] \in InWaitLock, sw[q] = "no"
             PROVE  FALSE
  BY DEF IInv, WaitLockInv
<1>1. PICK d \in CPUs : cpc[d] = "run" /\ ci[d] = q
  BY DEF IInv, LockInv
<1> QED
  BY <1>1 DEF IInv, WaitLockInv

(* The step is one of p's thread on c, outside sched(); it changes no      *)
(* shared variable but killed, of which IInv says nothing, and wait_lock,  *)
(* and nothing of another thread.                                          *)
StaysLocal(c, p) ==
  /\ OnStack(c, p) /\ sw[p] = "no"
  /\ UNCHANGED <<state, chan, pid, parent, nextpid, plock, sw, cpuVars>>
  /\ \A q \in Procs : q # p => pc'[q] = pc[q] /\ i'[q] = i[q] /\ wi'[q] = wi[q]
  /\ pc'[p] \notin {"f_parent", "f_run"}
  /\ p = initproc => pc'[p] \notin {"x_repar", "x_wakeinit", "x_wakeparent", "x_zombie"}

(* The step takes wait_lock, releases it or leaves it, as its control      *)
(* point says.                                                             *)
KeepsWaitLock(c, p) ==
  /\ \/ waitlock' = waitlock
     \/ waitlock = NoCpu /\ waitlock' = c
     \/ waitlock = c /\ waitlock' = NoCpu
  /\ pc'[p] \in InWaitLock <=> waitlock' = c

(* The facts of ExitInv about p after the step. *)
KeepsExit(p) ==
  /\ \A j \in Procs :
       /\ pc'[p] \in {"x_repar", "x_wakeinit"} /\ j < i'[p] => parent[j] # p
       /\ pc'[p] \in {"x_wakeparent", "x_zombie"} => parent[j] # p
  /\ pc'[p] \in {"user", "ret", "exit", "wait", "x_wakeparent", "x_zombie"} => i'[p] = 1
  /\ pc'[p] \notin {"x_wakeinit", "x_wakeparent"} => wi'[p] = 1

(* The facts of WakeInv about p after the step, and the wakeup of init     *)
(* that a step of wakeup() may be the last to owe.                         *)
KeepsWake(p) ==
  /\ \A q \in Procs :
       /\ pc'[p] = "x_zombie" /\ parent[p] = q => state[q] # "SLEEPING"
       /\ pc'[p] = "x_wakeparent" /\ parent[p] = q /\ q < wi'[p] => state[q] # "SLEEPING"
       /\ pc'[p] = "w_scan" /\ parent[q] = p /\ q < i'[p] => state[q] # "ZOMBIE"
       /\ pc'[p] = "w_sleep" /\ parent[q] = p => state[q] # "ZOMBIE"
  /\ pc[p] = "x_wakeinit" /\ wi[p] <= initproc =>
       \/ pc'[p] = "x_wakeinit" /\ wi'[p] <= initproc
       \/ state[initproc] # "SLEEPING"

(* A local step of a thread preserves the invariant: everything about the  *)
(* other threads and the CPUs is untouched.                                *)
LEMMA LocalStep ==
  ASSUME NEW c \in CPUs, NEW p \in Procs, IInv, TypeOK',
         StaysLocal(c, p), KeepsWaitLock(c, p), KeepsExit(p), KeepsWake(p)
  PROVE  IInv'
<1> USE DEF StaysLocal, cpuVars, OnStack
<1>1. CpuInv' /\ LockInv' /\ PidInv' /\ ParentAlive' /\ PidUnique'
  BY SMT DEF IInv, CpuInv, LockInv, PidInv, ParentAlive, PidUnique
<1>2. /\ ci[c] = p /\ cpc[c] = "run" /\ state[p] = "RUNNING"
      /\ \A d \in CPUs : cpc[d] # "scan" /\ ci[d] = p => d = c
  BY ProcsFacts, SMTT(30) DEF IInv, CpuInv, LockInv
<1>3. WaitLockInv'
  <2>1. \A d \in CPUs : d # c /\ cpc[d] = "run" => ci[d] # p /\ ci[d] \in Procs
    BY <1>2 DEF IInv, TypeOK
  <2>2. \A q \in Procs :
          pc'[q] \in InWaitLock => sw[q] = "no" \/ (sw[q] = "zombie" /\ pc'[q] = "x_zombie")
    BY SMT DEF IInv, WaitLockInv
  <2> QED
    BY <1>2, <2>1, <2>2, ProcAssumption, SMT DEF IInv, TypeOK, WaitLockInv, KeepsWaitLock
<1>4. StateInv'
  BY <1>2 DEF IInv, StateInv, Live
<1>5. InitInv'
  BY ProcsFacts DEF IInv, InitInv
<1>6. ForkInv'
  BY SMT DEF IInv, ForkInv, Forking
<1>7. ExitInv'
  BY SMT DEF IInv, ExitInv, KeepsExit
<1>8. WakeInv'
  BY SMT DEF IInv, WakeInv, KeepsWake
<1>9. NoLostWakeup'
  <2>1. SUFFICES ASSUME NEW r \in Procs, NEW j \in Procs,
                        state[r] = "SLEEPING", parent[j] = r, state[j] = "ZOMBIE"
                 PROVE  /\ r = initproc
                        /\ \E d \in CPUs, q \in Procs : At(d, q, "x_wakeinit")' /\ wi'[q] <= r
    BY DEF NoLostWakeup
  <2>2. PICK d \in CPUs, q \in Procs : At(d, q, "x_wakeinit") /\ wi[q] <= r
    BY <2>1 DEF IInv, NoLostWakeup
  <2>3. r = initproc
    BY <2>1 DEF IInv, NoLostWakeup
  <2> QED
    BY <2>1, <2>2, <2>3, SMT DEF KeepsWake, At
<1> QED
  BY <1>1, <1>3, <1>4, <1>5, <1>6, <1>7, <1>8, <1>9 DEF IInv

(* A trap from user mode and the return from a system call preserve the    *)
(* invariant (usertrap).                                                   *)
LEMMA TrapStep ==
  ASSUME NEW c \in CPUs, NEW p \in Procs, IInv,
         \/ TrapKilled(c, p) \/ UserFault(c, p) \/ SyscallReturn(c, p)
         \/ \E l \in {"fork", "wait", "exit"} : Syscall(c, p, l)
         \/ \E n \in KillPids : SyscallKill(c, p, n)
  PROVE  IInv'
<1> USE DEF TrapKilled, UserFault, SyscallReturn, Syscall, SyscallKill, At, Goto, OnStack,
            procVars, lockVars, cpuVars
<1>1. TypeOK'
  <2>1. killed' \in [Procs -> BOOLEAN]
    BY DEF IInv, TypeOK
  <2> QED
    BY <2>1, ProcAssumption, SMT DEF IInv, TypeOK, Labels
<1>2. StaysLocal(c, p) /\ KeepsWaitLock(c, p) /\ KeepsExit(p) /\ KeepsWake(p)
  BY SMT DEF IInv, TypeOK, CpuInv, WaitLockInv, ExitInv, StaysLocal, KeepsWaitLock, KeepsExit, KeepsWake, InWaitLock
<1> QED
  BY <1>1, <1>2, LocalStep

(* One turn of the loops of allocproc(), reparent() and kill() over a slot *)
(* they pass by preserves the invariant.                                   *)
LEMMA ScanStep ==
  ASSUME NEW c \in CPUs, NEW p \in Procs, IInv,
         ForkScan(c, p) \/ ReparentSkip(c, p) \/ KillScan(c, p)
  PROVE  IInv'
<1> USE DEF ForkScan, ReparentSkip, KillScan, At, OnStack, procVars, lockVars, cpuVars
<1>1. TypeOK'
  BY ProcsFacts, SMT DEF IInv, TypeOK
<1>2. StaysLocal(c, p) /\ KeepsWaitLock(c, p) /\ KeepsWake(p)
  BY SMTT(30) DEF IInv, TypeOK, CpuInv, WaitLockInv, InitInv, WakeInv,
         StaysLocal, KeepsWaitLock, KeepsWake, InWaitLock
<1>3. KeepsExit(p)
  BY ProcsFacts, SMT DEF IInv, TypeOK, ExitInv, KeepsExit
<1> QED
  BY <1>1, <1>2, <1>3, LocalStep

(* The returns of fork(), wait() and kill() that change nothing shared but *)
(* wait_lock preserve the invariant.                                       *)
LEMMA ReturnStep ==
  ASSUME NEW c \in CPUs, NEW p \in Procs, IInv,
         ForkFull(c, p) \/ KillNone(c, p) \/ WaitCopyoutFail(c, p) \/ WaitNone(c, p)
  PROVE  IInv'
<1> USE DEF ForkFull, KillNone, WaitCopyoutFail, WaitNone, At, OnStack,
            procVars, lockVars, cpuVars
<1>1. /\ \/ At(c, p, "fork") /\ waitlock' = waitlock
         \/ At(c, p, "kill") /\ waitlock' = waitlock
         \/ At(c, p, "w_scan") /\ waitlock' = NoCpu
      /\ Return(p)
      /\ UNCHANGED <<procVars, plock, wi, sw, cpuVars>>
  OBVIOUS
<1> HIDE DEF ForkFull, KillNone, WaitCopyoutFail, WaitNone
<1>2. TypeOK'
  BY <1>1, ProcsFacts DEF IInv, TypeOK, Labels, Return, Goto
<1>3. StaysLocal(c, p) /\ KeepsWaitLock(c, p) /\ KeepsExit(p) /\ KeepsWake(p)
  BY <1>1, ProcsFacts, ProcAssumption, SMT DEF IInv, TypeOK, CpuInv, WaitLockInv, ExitInv,
     Return, Goto, StaysLocal, KeepsWaitLock, KeepsExit, KeepsWake, InWaitLock
<1> QED
  BY <1>2, <1>3, LocalStep

(* exit() up to reparent(), and its way on to wakeup(p->parent), preserve  *)
(* the invariant.                                                          *)
LEMMA ExitStep ==
  ASSUME NEW c \in CPUs, NEW p \in Procs, IInv,
         ExitPanic(c, p) \/ ExitLock(c, p) \/ ReparentDone(c, p)
  PROVE  IInv'
<1> USE DEF ExitPanic, ExitLock, ReparentDone, Goto, At, OnStack, procVars, lockVars, cpuVars
<1>1. TypeOK'
  BY ProcsFacts, SMTT(30) DEF IInv, TypeOK, Labels, InWaitLock
<1>2. StaysLocal(c, p) /\ KeepsWaitLock(c, p) /\ KeepsWake(p)
  BY ProcsFacts, ProcAssumption, SMT DEF IInv, TypeOK, CpuInv, WaitLockInv, InitInv, ExitInv,
         StaysLocal, KeepsWaitLock, KeepsWake, InWaitLock
<1>3. KeepsExit(p)
  BY ProcsFacts, ProcAssumption, SMT DEF IInv, TypeOK, ExitInv, KeepsExit
<1> QED
  BY <1>1, <1>2, <1>3, LocalStep

(* wakeup() passing by a slot, and its end, preserve the invariant: when   *)
(* it passes init's slot, init is not asleep.                              *)
LEMMA WakeupStep ==
  ASSUME NEW c \in CPUs, NEW p \in Procs, IInv, WakeupSkip(c, p) \/ WakeupDone(c, p)
  PROVE  IInv'
<1> USE DEF WakeupSkip, WakeupDone, InWakeup, WakeupChan, Goto, At, OnStack, Free,
            procVars, lockVars, cpuVars
<1>1. TypeOK'
  BY ProcsFacts, SMT DEF IInv, TypeOK, Labels, InWaitLock
<1>2. StaysLocal(c, p) /\ KeepsWaitLock(c, p)
  BY ProcsFacts, ProcAssumption, SMT DEF IInv, TypeOK, CpuInv, WaitLockInv, InitInv,
     StaysLocal, KeepsWaitLock, InWaitLock
<1>3. KeepsExit(p)
  BY ProcsFacts, ProcAssumption, SMT DEF IInv, TypeOK, ExitInv, KeepsExit
<1>4. KeepsWake(p)
  BY ProcsFacts, ProcAssumption, SMT DEF IInv, TypeOK, StateInv, ExitInv, InitInv, WakeInv, KeepsWake
<1> QED
  BY <1>1, <1>2, <1>3, <1>4, LocalStep

(* wait() taking wait_lock, passing by a slot and deciding to sleep        *)
(* preserves the invariant: it has seen no zombie among its children.      *)
LEMMA WaitStep ==
  ASSUME NEW c \in CPUs, NEW p \in Procs, IInv,
         WaitLock(c, p) \/ WaitScan(c, p) \/ WaitBlock(c, p)
  PROVE  IInv'
<1> USE DEF WaitLock, WaitScan, WaitBlock, Goto, At, OnStack, Free,
            procVars, lockVars, cpuVars
<1>1. TypeOK'
  <2>1. havekids' \in [Procs -> BOOLEAN]
    BY DEF IInv, TypeOK
  <2> QED
    BY <2>1, ProcsFacts, SMT DEF IInv, TypeOK, Labels, InWaitLock
<1>2. StaysLocal(c, p) /\ KeepsWaitLock(c, p) /\ KeepsExit(p)
  BY ProcsFacts, ProcAssumption, SMT DEF IInv, TypeOK, CpuInv, WaitLockInv, ExitInv,
     StaysLocal, KeepsWaitLock, KeepsExit, InWaitLock
<1>3. KeepsWake(p)
  BY ProcsFacts, ProcAssumption, SMT DEF IInv, TypeOK, ExitInv, WakeInv, KeepsWake
<1> QED
  BY <1>1, <1>2, <1>3, LocalStep

-----------------------------------------------------------------------------
(* exit() and wait() *)

(* reparent() giving a child to init preserves the invariant: the wakeup   *)
(* of init is then on its way.                                             *)
LEMMA ReparentChildStep ==
  ASSUME NEW c \in CPUs, NEW p \in Procs, IInv, ReparentChild(c, p)
  PROVE  IInv'
<1>1. PICK j \in Procs : j = i[p]
  BY DEF ReparentChild
<1>2. /\ cpc[c] = "run" /\ cproc[c] = p /\ sw[p] = "no" /\ pc[p] = "x_repar"
      /\ parent[j] = p
      /\ parent' = [parent EXCEPT ![j] = initproc]
      /\ i' = [i EXCEPT ![p] = @ + 1]
      /\ pc' = [pc EXCEPT ![p] = "x_wakeinit"]
      /\ UNCHANGED <<state, chan, killed, pid, nextpid, plock, waitlock,
                     wi, havekids, target, sw, cproc, cpc, ci>>
  BY <1>1 DEF ReparentChild, Goto, At, OnStack, lockVars, cpuVars
<1>3. TypeOK'
  BY <1>1, <1>2, ProcsFacts DEF IInv, TypeOK, Labels, InWaitLock
<1>4. /\ ci[c] = p /\ state[p] = "RUNNING" /\ waitlock = c /\ wi[p] = 1
      /\ p # initproc /\ j # initproc
      /\ \A d \in CPUs : cpc[d] # "scan" /\ ci[d] = p => d = c
  BY <1>2, ProcsFacts, SMT
     DEF IInv, TypeOK, CpuInv, LockInv, WaitLockInv, InWaitLock, InitInv, ExitInv
<1>5. \A q \in Procs : q # p /\ pc[q] \in InWaitLock => sw[q] = "zombie" /\ pc[q] = "x_zombie"
  BY <1>4, OneInWaitLock
<1>6. CpuInv' /\ LockInv' /\ PidInv' /\ PidUnique'
  <2>1. LockInv'
    BY <1>2, SMT DEF IInv, LockInv
  <2> QED
    BY <1>2, <2>1 DEF IInv, CpuInv, PidInv, PidUnique
<1>7. WaitLockInv'
  BY <1>2, <1>4, SMT DEF IInv, TypeOK, WaitLockInv, InWaitLock
<1>8. StateInv' /\ InitInv' /\ ForkInv'
  BY <1>2, <1>4, SMT DEF IInv, TypeOK, StateInv, InitInv, ForkInv, Forking, Live
<1>9. ExitInv'
  BY <1>1, <1>2, <1>4, <1>5, ProcsFacts, SMT DEF IInv, TypeOK, ExitInv, InitInv, InWaitLock
<1>10. WakeInv'
  BY <1>2, <1>4, <1>5, ZenonT(60) DEF IInv, TypeOK, WakeInv, InWaitLock
<1>11. ParentAlive'
  BY <1>2, ProcsFacts, SMT DEF IInv, TypeOK, ParentAlive, InitInv, Live
<1>12. NoLostWakeup'
  BY <1>2, <1>4, ProcsFacts, SMT DEF IInv, TypeOK, NoLostWakeup, At, OnStack
<1> QED
  BY <1>3, <1>6, <1>7, <1>8, <1>9, <1>10, <1>11, <1>12 DEF IInv

(* wakeup() waking a process preserves the invariant. *)
LEMMA WakeupHitStep ==
  ASSUME NEW c \in CPUs, NEW p \in Procs, IInv, WakeupHit(c, p)
  PROVE  IInv'
<1>1. PICK q \in Procs : q = wi[p]
  BY DEF WakeupHit
<1>2. /\ sw[p] = "no" /\ pc[p] \in {"x_wakeinit", "x_wakeparent"}
      /\ state[q] = "SLEEPING" /\ q # p
      /\ state' = [state EXCEPT ![q] = "RUNNABLE"]
      /\ wi' = [wi EXCEPT ![p] = @ + 1]
      /\ UNCHANGED <<chan, killed, pid, parent, nextpid, plock, waitlock,
                     pc, i, havekids, target, sw, cproc, cpc, ci>>
  BY <1>1 DEF WakeupHit, InWakeup, At, lockVars, cpuVars
<1>3. TypeOK'
  BY <1>1, <1>2, ProcsFacts DEF IInv, TypeOK, ProcStates
<1>4. CpuInv' /\ WaitLockInv' /\ PidInv'
  BY <1>2 DEF IInv, CpuInv, WaitLockInv, PidInv
<1>5. LockInv' /\ StateInv' /\ InitInv' /\ ForkInv'
  <2>1. LockInv'
    BY <1>2, SMT DEF IInv, TypeOK, LockInv, StateInv
  <2> QED
    BY <1>2, <2>1, SMT DEF IInv, TypeOK, StateInv, InitInv, ForkInv, Forking, Live
<1>6. ExitInv' /\ PidUnique' /\ ParentAlive'
  BY <1>2, SMT DEF IInv, TypeOK, ExitInv, PidUnique, ParentAlive
<1>7. WakeInv'
  BY <1>1, <1>2, ProcsFacts, SMT DEF IInv, TypeOK, WakeInv
<1>8. NoLostWakeup'
  <2>1. SUFFICES ASSUME NEW r \in Procs, NEW j \in Procs,
                        state'[r] = "SLEEPING", parent[j] = r, state'[j] = "ZOMBIE"
                 PROVE  /\ r = initproc
                        /\ \E d \in CPUs, s \in Procs : At(d, s, "x_wakeinit") /\ wi'[s] <= r
    BY <1>2, SMT DEF NoLostWakeup, At, OnStack
  <2>2. r # q /\ state[r] = "SLEEPING" /\ state[j] = "ZOMBIE"
    BY <1>2, <2>1 DEF IInv, TypeOK
  <2>3. PICK d \in CPUs, s \in Procs : At(d, s, "x_wakeinit") /\ wi[s] <= r
    BY <2>1, <2>2 DEF IInv, NoLostWakeup
  <2>4. r = initproc
    BY <2>1, <2>2 DEF IInv, NoLostWakeup
  <2>5. s = p => wi[p] + 1 <= r
    BY <1>1, <2>2, <2>3, ProcsFacts, SMT DEF IInv, TypeOK
  <2> QED
    BY <1>1, <1>2, <2>3, <2>4, <2>5 DEF IInv, TypeOK
<1> QED
  BY <1>3, <1>4, <1>5, <1>6, <1>7, <1>8 DEF IInv

(* exit() becoming a zombie preserves the invariant: its parent is awake,  *)
(* and its children have been given away.                                  *)
LEMMA ExitZombieStep ==
  ASSUME NEW c \in CPUs, NEW p \in Procs, IInv, ExitZombie(c, p)
  PROVE  IInv'
<1> USE DEF ExitZombie, At, OnStack, Free, cpuVars
<1>1. TypeOK'
  BY DEF IInv, TypeOK, ProcStates
<1>2. /\ ci[c] = p /\ state[p] = "RUNNING" /\ waitlock = c /\ p # initproc
      /\ \A d \in CPUs : cpc[d] # "scan" /\ ci[d] = p => d = c
  BY ProcsFacts, SMT DEF IInv, TypeOK, CpuInv, LockInv, WaitLockInv, InWaitLock, InitInv
<1>3. \A q \in Procs : q # p /\ pc[q] \in InWaitLock => sw[q] = "zombie" /\ pc[q] = "x_zombie"
  BY <1>2, OneInWaitLock
<1>4. CpuInv' /\ LockInv'
  BY <1>2, ProcAssumption, SMT DEF IInv, TypeOK, CpuInv, LockInv
<1>5. WaitLockInv'
  BY <1>2, <1>3, ProcAssumption DEF IInv, TypeOK, WaitLockInv
<1>6. StateInv' /\ InitInv' /\ ForkInv'
  BY <1>2, SMT DEF IInv, TypeOK, StateInv, InitInv, ForkInv, Forking, Live
<1>7. ExitInv' /\ PidInv' /\ PidUnique'
  BY <1>2 DEF IInv, TypeOK, ExitInv, PidInv, PidUnique
<1>8. ParentAlive'
  BY <1>2, SMT DEF IInv, TypeOK, ParentAlive, ExitInv
<1>9. WakeInv'
  BY <1>2, <1>3 DEF IInv, TypeOK, WakeInv, InWaitLock
<1>10. NoLostWakeup'
  BY <1>2, SMT DEF IInv, TypeOK, NoLostWakeup, WakeInv
<1> QED
  BY <1>1, <1>4, <1>5, <1>6, <1>7, <1>8, <1>9, <1>10 DEF IInv

(* wait() freeing a zombie child preserves the invariant: the child's lock *)
(* was free, so no CPU is on its stack.                                    *)
LEMMA WaitReapStep ==
  ASSUME NEW c \in CPUs, NEW p \in Procs, IInv, WaitReap(c, p)
  PROVE  IInv'
<1>1. PICK np \in Procs : np = i[p]
  BY DEF WaitReap
<1>2. /\ cpc[c] = "run" /\ cproc[c] = p /\ sw[p] = "no" /\ pc[p] = "w_scan"
      /\ plock[np] = NoCpu /\ state[np] = "ZOMBIE" /\ parent[np] = p
      /\ state'  = [state EXCEPT ![np] = "UNUSED"]
      /\ pid'    = [pid EXCEPT ![np] = 0]
      /\ parent' = [parent EXCEPT ![np] = 0]
      /\ chan'   = [chan EXCEPT ![np] = 0]
      /\ killed' = [killed EXCEPT ![np] = FALSE]
      /\ waitlock' = NoCpu
      /\ pc' = [pc EXCEPT ![p] = "ret"]
      /\ i' = [i EXCEPT ![p] = 1]
      /\ havekids' = [havekids EXCEPT ![p] = FALSE]
      /\ target' = [target EXCEPT ![p] = 0]
      /\ UNCHANGED <<nextpid, plock, wi, sw, cproc, cpc, ci>>
  BY <1>1 DEF WaitReap, Freeproc, Return, Goto, At, OnStack, Free, cpuVars
<1>3. TypeOK'
  BY <1>2, ProcsFacts, ZenonT(60) DEF IInv, TypeOK, Labels, ProcStates
<1>4. /\ ci[c] = p /\ state[p] = "RUNNING" /\ waitlock = c /\ np # p /\ np # initproc
      /\ sw[np] = "zombie"
      /\ \A d \in CPUs : cpc[d] # "scan" /\ ci[d] = p => d = c
  BY <1>2, ProcsFacts, SMTT(30)
     DEF IInv, TypeOK, CpuInv, LockInv, WaitLockInv, StateInv, InWaitLock, InitInv, Live
<1>5. /\ \A d \in CPUs : cpc[d] # "scan" => ci[d] # np
      /\ \A q \in Procs : parent[q] # np
  BY <1>2, <1>4, ProcAssumption, SMTT(30) DEF IInv, TypeOK, LockInv, ParentAlive
<1>6. CpuInv'
  BY <1>2 DEF IInv, CpuInv
<1>7. LockInv'
  BY <1>2, <1>4, SMTT(30) DEF IInv, TypeOK, LockInv
<1>8. WaitLockInv'
  BY <1>2, <1>4, ProcAssumption, SMTT(30) DEF IInv, TypeOK, WaitLockInv, InWaitLock
<1>9. StateInv' /\ InitInv'
  <2>1. StateInv'
    BY <1>2, <1>4, <1>5, ProcsFacts, SMTT(30) DEF IInv, TypeOK, StateInv, Live
  <2>2. InitInv'
    BY <1>2, <1>4, <1>5, ProcsFacts, SMTT(30) DEF IInv, TypeOK, InitInv, Live
  <2> QED
    BY <2>1, <2>2
<1>10. ForkInv'
  BY <1>2, SMT DEF IInv, TypeOK, ForkInv, Forking
<1>11. ExitInv'
  BY <1>2, ProcsFacts, SMTT(30) DEF IInv, TypeOK, ExitInv
<1>12. WakeInv'
  BY <1>2, ProcsFacts, SMTT(30) DEF IInv, TypeOK, WakeInv
<1>13. PidInv'
  BY <1>2, SMT DEF IInv, TypeOK, PidInv
<1>14. ParentAlive'
  BY <1>2, <1>5, ProcsFacts, ZenonT(60) DEF IInv, TypeOK, ParentAlive
<1>15. PidUnique'
  BY <1>2 DEF IInv, TypeOK, PidUnique
<1>16. NoLostWakeup'
  BY <1>2, <1>4, ProcsFacts, SMT DEF IInv, TypeOK, NoLostWakeup, At, OnStack
<1> QED
  BY <1>3, <1>6, <1>7, <1>8, <1>9, <1>10, <1>11, <1>12, <1>13, <1>14, <1>15, <1>16 DEF IInv

(* wait() going to sleep preserves the invariant: it has seen no zombie    *)
(* child, and no child could exit since, for it holds wait_lock until it   *)
(* is SLEEPING.                                                            *)
LEMMA WaitSleepStep ==
  ASSUME NEW c \in CPUs, NEW p \in Procs, IInv, WaitSleep(c, p)
  PROVE  IInv'
<1> USE DEF WaitSleep, Goto, At, OnStack, Free, cpuVars
<1>1. TypeOK'
  BY ProcsFacts DEF IInv, TypeOK, ProcStates, Labels
<1>2. /\ ci[c] = p /\ state[p] = "RUNNING" /\ waitlock = c
      /\ \A d \in CPUs : cpc[d] # "scan" /\ ci[d] = p => d = c
  BY ProcsFacts, SMT DEF IInv, TypeOK, CpuInv, LockInv, WaitLockInv, InWaitLock
<1>3. \A q \in Procs : q # p /\ pc[q] \in InWaitLock => sw[q] = "zombie" /\ pc[q] = "x_zombie"
  BY <1>2, OneInWaitLock
<1>4. CpuInv' /\ LockInv'
  <2>1. CpuInv'
    BY <1>2, ProcAssumption, SMTT(30) DEF IInv, TypeOK, CpuInv
  <2>2. LockInv'
    BY <1>2, ProcAssumption, SMTT(30) DEF IInv, TypeOK, LockInv
  <2> QED
    BY <2>1, <2>2
<1>5. WaitLockInv'
  BY <1>2, <1>3, ProcAssumption, SMTT(30) DEF IInv, TypeOK, WaitLockInv, InWaitLock
<1>6. StateInv' /\ InitInv' /\ ForkInv'
  <2>1. StateInv'
    BY <1>2, SMTT(30) DEF IInv, TypeOK, StateInv, Forking, Live
  <2>2. InitInv'
    BY <1>2, SMTT(30) DEF IInv, TypeOK, InitInv, Forking, Live
  <2>3. ForkInv'
    BY <1>2, SMTT(30) DEF IInv, TypeOK, ForkInv, Forking, Live
  <2> QED
    BY <2>1, <2>2, <2>3
<1>7. ExitInv' /\ PidInv' /\ PidUnique' /\ ParentAlive'
  BY <1>2, ProcsFacts, SMT DEF IInv, TypeOK, ExitInv, PidInv, PidUnique, ParentAlive
<1>8. WakeInv'
  BY <1>2, <1>3 DEF IInv, TypeOK, WakeInv, InWaitLock
<1>9. NoLostWakeup'
  <2> HIDE DEF WaitSleep, Goto, At, OnStack, Free, cpuVars
  <2>1. SUFFICES ASSUME NEW r \in Procs, NEW j \in Procs,
                        state'[r] = "SLEEPING", parent'[j] = r, state'[j] = "ZOMBIE"
                 PROVE  /\ r = initproc
                        /\ \E d \in CPUs, s \in Procs : At(d, s, "x_wakeinit")' /\ wi'[s] <= r
    BY DEF NoLostWakeup
  <2> USE DEF WaitSleep, Goto, At, OnStack, Free, cpuVars
  <2>2. r # p /\ state[r] = "SLEEPING" /\ state[j] = "ZOMBIE"
    BY <2>1 DEF IInv, TypeOK, WakeInv
  <2>3. PICK d \in CPUs, s \in Procs : At(d, s, "x_wakeinit") /\ wi[s] <= r
    BY <2>1, <2>2 DEF IInv, NoLostWakeup
  <2>4. r = initproc
    BY <2>1, <2>2 DEF IInv, NoLostWakeup
  <2>5. s # p
    BY <2>3
  <2> QED
    BY <2>3, <2>4, <2>5 DEF IInv, TypeOK
<1> QED
  BY <1>1, <1>4, <1>5, <1>6, <1>7, <1>8, <1>9 DEF IInv

(* kill() of a process preserves the invariant. *)
LEMMA KillFoundStep ==
  ASSUME NEW c \in CPUs, NEW p \in Procs, IInv, KillFound(c, p)
  PROVE  IInv'
<1>1. PICK q \in Procs : q = i[p]
  BY DEF KillFound
<1>2. /\ cpc[c] = "run" /\ cproc[c] = p /\ sw[p] = "no" /\ pc[p] = "kill"
      /\ killed' = [killed EXCEPT ![q] = TRUE]
      /\ state' = [state EXCEPT ![q] = IF @ = "SLEEPING" THEN "RUNNABLE" ELSE @]
      /\ pc' = [pc EXCEPT ![p] = "ret"]
      /\ i' = [i EXCEPT ![p] = 1]
      /\ havekids' = [havekids EXCEPT ![p] = FALSE]
      /\ target' = [target EXCEPT ![p] = 0]
      /\ UNCHANGED <<chan, pid, parent, nextpid, plock, waitlock, wi, sw, cproc, cpc, ci>>
  BY <1>1 DEF KillFound, Return, Goto, At, OnStack, lockVars, cpuVars
<1>3. TypeOK'
  BY <1>2, ProcsFacts DEF IInv, TypeOK, ProcStates, Labels
<1>4. /\ ci[c] = p /\ state[p] = "RUNNING"
      /\ \A d \in CPUs : cpc[d] # "scan" /\ ci[d] = p => d = c
      /\ \A r \in Procs : \/ state'[r] = state[r]
                          \/ state[r] = "SLEEPING" /\ state'[r] = "RUNNABLE"
  BY <1>2, ProcsFacts, SMT DEF IInv, TypeOK, CpuInv, LockInv
<1>5. CpuInv' /\ PidInv'
  BY <1>2 DEF IInv, CpuInv, PidInv
<1>6. LockInv' /\ PidUnique' /\ ParentAlive'
  <2>1. LockInv'
    BY <1>2, <1>4, SMTT(30) DEF IInv, TypeOK, LockInv
  <2>2. PidUnique'
    BY <1>2, <1>4, SMTT(30) DEF IInv, TypeOK, PidUnique
  <2>3. ParentAlive'
    BY <1>2, <1>4, SMTT(30) DEF IInv, TypeOK, ParentAlive
  <2> QED
    BY <2>1, <2>2, <2>3
<1>7. WaitLockInv'
  BY <1>2, <1>4, ProcAssumption, SMTT(30) DEF IInv, TypeOK, WaitLockInv, InWaitLock
<1>8. StateInv' /\ InitInv'
  <2>1. StateInv'
    BY <1>2, <1>4, ProcsFacts, SMTT(30) DEF IInv, TypeOK, StateInv, Live
  <2>2. InitInv'
    BY <1>2, <1>4, ProcsFacts, SMTT(30) DEF IInv, TypeOK, InitInv, Live
  <2> QED
    BY <2>1, <2>2
<1>9. ForkInv'
  BY <1>2, <1>4, SMTT(30) DEF IInv, TypeOK, ForkInv, Forking
<1>10. ExitInv' /\ WakeInv'
  <2>1. ExitInv'
    BY <1>2, <1>4, SMTT(30) DEF IInv, TypeOK, ExitInv
  <2>2. WakeInv'
    BY <1>2, <1>4, SMTT(30) DEF IInv, TypeOK, WakeInv
  <2> QED
    BY <2>1, <2>2
<1>11. NoLostWakeup'
  BY <1>2, <1>4, SMTT(30) DEF IInv, TypeOK, NoLostWakeup, At, OnStack
<1> QED
  BY <1>3, <1>5, <1>6, <1>7, <1>8, <1>9, <1>10, <1>11 DEF IInv
=============================================================================
