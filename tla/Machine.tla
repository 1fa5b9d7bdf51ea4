------------------------------- MODULE Machine -------------------------------
(***************************************************************************)
(* Harts, traps and interrupts (kernel/trap.c, asm/trampoline.S,           *)
(* asm/kernelvec.S), the interrupt state that spinlock.c keeps, the part   *)
(* of proc.c that switches threads, the clock with sys_sleep(), and the    *)
(* console, whose reader and writer share Console's records with the UART  *)
(* interrupt handler.                                                      *)
(*                                                                         *)
(* A thread is a process's kernel thread or a hart's scheduler; its stack  *)
(* is a sequence of frames, empty in user mode.  p->lock, which a thread   *)
(* holds only inside sleep(), wakeup(), yield() and the switch itself, is  *)
(* not a variable: what happens under it is one step (Proc has its steps). *)
(* An action is what a thread does up to where another hart, a device or   *)
(* an interrupt can make a difference.                                     *)
(***************************************************************************)
EXTENDS Console

CONSTANTS
  Harts,      \* hart numbers, 0 among them
  Procs,
  NoHart,
  Scenarios,  \* what happens: the calls of each process, which are
              \* <<name, argument>>, the characters typed, timer interrupts
  ReadSize, WriteSize, SleepTicks   \* the arguments of the calls

VARIABLES
  hart,   \* registers of each hart, its struct cpu, its timer, its thread
  stk,    \* the stack of each thread
  proc,   \* process states, and what the trapframe and sched() save
  lock,   \* spin-locks: the hart that holds it
  cons, uart, ticks,
  env     \* what is still to come of the scenario

vars == <<hart, stk, proc, lock, cons, uart, ticks, env>>

(* alive: the function has seen that the process is not killed, and is about *)
(* to call sleep().                                                          *)
Frame(pc, arg) == [pc |-> pc, arg |-> arg, in |-> FALSE, alive |-> FALSE]

(* The lock that a function acquires first, also the name of the channel   *)
(* it sleeps on.  in: the function holds it.                               *)
Wants ==
  [consoleread |-> "cons", uartputc |-> "uart", sys_sleep |-> "ticks",
   consoleintr |-> "cons", uartintr |-> "uart", clockintr |-> "ticks"]

Top(t)  == Last(stk[t])
User(t) == stk[t] = <<>>

(* Thread t runs on hart h and is at pc. *)
At(h, pc)     == ~User(hart[h].run) /\ Top(hart[h].run).pc = pc
Inside(h, pc) == At(h, pc) /\ Top(hart[h].run).in

(* Where a thread with stack s is: the value of its program counter. *)
Place(t, s) ==
  IF s = <<>> THEN <<t, 0, "user", proc[t].calls>> ELSE <<t, Len(s), Last(s).pc, 0>>

SetTop(t, f) == [stk EXCEPT ![t] = Append(Front(@), f)]
Pop(t)       == [stk EXCEPT ![t] = Front(@)]

(* main(), up to scheduler(): the harts are in their schedulers, the       *)
(* processes are new.                                                      *)
Init ==
  /\ hart = [h \in Harts |->
       [run |-> h, sie |-> TRUE, stvec |-> "kernelvec", sepc |-> <<>>,
        tp |-> h, noff |-> 0, intena |-> FALSE, timer |-> TRUE]]
  /\ stk = [t \in Procs \union Harts |->
              <<Frame(IF t \in Harts THEN "scheduler" ELSE "forkret", 0)>>]
  /\ proc = [p \in Procs |->
       [state |-> "RUNNABLE", killed |-> FALSE, epc |-> <<p, 0, "user", 0>>, hartid |-> 0,
        intena |-> FALSE, pc |-> <<>>, calls |-> 0]]
  /\ lock = [l \in {"cons", "uart", "ticks"} |-> NoHart]
  /\ cons = NoInput /\ uart = NoOutput /\ ticks = 0
  /\ env \in Scenarios

-----------------------------------------------------------------------------
(* spinlock.c, on the registers and struct cpu of a hart *)

PushOff(c) ==
  [c EXCEPT !.intena = IF c.noff = 0 THEN c.sie ELSE @, !.sie = FALSE, !.noff = @ + 1]

PopOff(c) ==
  [c EXCEPT !.noff = @ - 1, !.sie = IF c.noff = 1 /\ c.intena THEN TRUE ELSE @]

(* acquire(), when it gets the lock. *)
Acquire(h) ==
  LET t == hart[h].run f == Top(t) IN
  /\ ~User(t) /\ f.pc \in DOMAIN Wants /\ ~f.in
  /\ f.pc = "uartintr" => uart.rx = <<>>
  /\ lock[Wants[f.pc]] = NoHart
  /\ lock' = [lock EXCEPT ![Wants[f.pc]] = h]
  /\ hart' = [hart EXCEPT ![h] = PushOff(@)]
  /\ stk' = SetTop(t, [f EXCEPT !.in = TRUE])
  /\ UNCHANGED <<proc, cons, uart, ticks, env>>

(* release() of the lock of the function on top. *)
Release(h) ==
  /\ lock' = [lock EXCEPT ![Wants[Top(hart[h].run).pc]] = NoHart]
  /\ hart' = [hart EXCEPT ![h] = PopOff(@)]

-----------------------------------------------------------------------------
(* proc.c: switching *)

(* What switching to the scheduler, which then releases p->lock, leaves:   *)
(* c is the hart with that lock alone.                                     *)
SwitchOut(h, c) == hart' = [hart EXCEPT ![h] = [PopOff(c) EXCEPT !.run = h]]

(* yield() and then pc. *)
Yield(h, pc) ==
  LET p == hart[h].run c == PushOff(hart[h]) IN
  /\ proc' = [proc EXCEPT ![p].state = "RUNNABLE", ![p].intena = c.intena]
  /\ SwitchOut(h, c)
  /\ stk' = SetTop(p, [Top(p) EXCEPT !.pc = pc])

(* sleep() on the channel of the function on top, under its lock; f is its *)
(* frame, which acquires the lock again.                                   *)
Sleep(h, f) ==
  LET p == hart[h].run c == PopOff(PushOff(hart[h])) IN
  /\ lock' = [lock EXCEPT ![Wants[f.pc]] = NoHart]
  /\ proc' = [proc EXCEPT ![p].state = "SLEEPING", ![p].intena = c.intena]
  /\ SwitchOut(h, c)
  /\ stk' = SetTop(p, [f EXCEPT !.in = FALSE, !.alive = FALSE])

Sleeping(p, chan) == proc[p].state = "SLEEPING" /\ Wants[Top(p).pc] = chan

Wakeup(chan) ==
  proc' = [p \in Procs |-> IF Sleeping(p, chan) THEN [proc[p] EXCEPT !.state = "RUNNABLE"]
                           ELSE proc[p]]

(* exit(): the process leaves the hart for good. *)
Exit(h) ==
  LET p == hart[h].run IN
  /\ proc' = [proc EXCEPT ![p].state = "ZOMBIE"]
  /\ SwitchOut(h, PushOff(hart[h]))
  /\ UNCHANGED stk

(* Mutant of SchedReturn: intena stays that of the CPU. *)
SchedReturnForgets(c, p) == c

(* The end of sched(). *)
SchedReturn(c, p) == [c EXCEPT !.intena = proc[p].intena]

(* scheduler(): the head of the outer loop. *)
SchedLoop(h) ==
  /\ hart[h].run = h /\ At(h, "scheduler") /\ ~hart[h].sie
  /\ hart' = [hart EXCEPT ![h].sie = TRUE]
  /\ UNCHANGED <<stk, proc, lock, cons, uart, ticks, env>>

(* scheduler() finds p; the switch; and what p does to release p->lock, in *)
(* forkret(), or behind sched().                                           *)
Schedule(h, p) ==
  LET c == [PushOff(hart[h]) EXCEPT !.run = p]
      new == Top(p).pc = "forkret" IN
  /\ hart[h].run = h /\ At(h, "scheduler") /\ proc[p].state = "RUNNABLE"
  /\ proc' = [proc EXCEPT ![p].state = "RUNNING"]
  /\ hart' = [hart EXCEPT ![h] = PopOff(IF new THEN c ELSE SchedReturn(c, p))]
  /\ stk' = IF new THEN SetTop(p, Frame("usertrapret", 0)) ELSE stk
  /\ UNCHANGED <<lock, cons, uart, ticks, env>>

-----------------------------------------------------------------------------
(* trap.c *)

(* What devintr() runs: the handler of the UART (which = 1), or of the     *)
(* clock (which = 2), on hart 0 only.                                      *)
Devintr(h, which) ==
  IF which = 1 THEN <<Frame("uartintr", 0)>>
  ELSE IF hart[h].tp = 0 THEN <<Frame("clockintr", 0)>> ELSE <<>>

(* The hart takes an interrupt; the PLIC gives the UART's to one of them.  *)
Pending(h, which) ==
  /\ hart[h].sie
  /\ \/ /\ which = 1 /\ uart.irq /\ ~uart.claimed
        /\ uart' = [uart EXCEPT !.irq = FALSE, !.claimed = TRUE] /\ UNCHANGED env
     \/ /\ which = 2 /\ hart[h].timer /\ env.timers > 0
        /\ env' = [env EXCEPT !.timers = @ - 1] /\ UNCHANGED uart

(* Trap entry, the interrupts off. *)
Trapped(h, which, c) ==
  [c EXCEPT !.sie = FALSE, !.sepc = Place(c.run, stk[c.run]), !.stvec = "kernelvec",
            !.timer = IF which = 2 THEN FALSE ELSE @]

(* uservec and usertrap() up to the handler. *)
Uservec(h, which) ==
  LET c == hart[h] p == c.run IN
  /\ User(p) /\ c.stvec = "uservec" /\ Pending(h, which)
  /\ hart' = [hart EXCEPT ![h] = [Trapped(h, which, c) EXCEPT !.tp = proc[p].hartid]]
  /\ proc' = [proc EXCEPT ![p].epc = proc[p].pc]
  /\ stk' = [stk EXCEPT ![p] = <<Frame("usertrap", which)>> \o Devintr(h, which)]
  /\ UNCHANGED <<lock, cons, ticks>>

(* kernelvec and kerneltrap() up to the handler; sepc is kept. *)
Kernelvec(h, which) ==
  LET c == hart[h] t == c.run IN
  /\ ~User(t) /\ c.stvec = "kernelvec" /\ Pending(h, which)
  /\ hart' = [hart EXCEPT ![h] = Trapped(h, which, c)]
  /\ stk' = [stk EXCEPT ![t] = @ \o <<Frame("kerneltrap", <<which, Place(t, @)>>)>>
                                 \o Devintr(h, which)]
  /\ UNCHANGED <<proc, lock, cons, ticks>>

(* A system call: uservec, usertrap() up to intr_on(), and syscall().      *)
Syscall(h) ==
  LET p == hart[h].run
      c == [Trapped(h, 0, hart[h]) EXCEPT !.tp = proc[p].hartid] IN
  /\ User(p) /\ hart[h].stvec = "uservec" /\ env.todo[p] # <<>>
  /\ env' = [env EXCEPT !.todo[p] = Tail(@)]
  /\ IF proc[p].killed
       THEN /\ proc' = [proc EXCEPT ![p].state = "ZOMBIE"]
            /\ SwitchOut(h, PushOff(c))
            /\ stk' = [stk EXCEPT ![p] = <<Frame("usertrap", 0)>>]
       ELSE /\ proc' = [proc EXCEPT ![p].calls = @ + 1,
                                    ![p].epc = [proc[p].pc EXCEPT ![4] = @ + 1]]
            /\ hart' = [hart EXCEPT ![h] = [c EXCEPT !.sie = TRUE]]
            /\ stk' = [stk EXCEPT ![p] = <<Frame(Head(env.todo[p])[1], Head(env.todo[p])[2])>>]
  /\ UNCHANGED <<lock, cons, uart, ticks>>

(* A system call's function is left for the end of usertrap(). *)
Returned(p) == stk' = SetTop(p, Frame("usertrap", 0))

(* The end of usertrap(). *)
Usertrap(h) ==
  LET p == hart[h].run IN
  /\ At(h, "usertrap")
  /\ IF proc[p].killed THEN Exit(h)
     ELSE IF Top(p).arg = 2 THEN Yield(h, "usertrapret")
     ELSE stk' = SetTop(p, Frame("usertrapret", 0)) /\ UNCHANGED <<hart, proc>>
  /\ UNCHANGED <<lock, cons, uart, ticks, env>>

(* Mutant of IntrOff: usertrapret() leaves interrupts as they are. *)
IntrOffNot(c) == c

IntrOff(c) == [c EXCEPT !.sie = FALSE]

(* usertrapret(), up to the change of stvec, and what follows it, with     *)
(* userret and its sret.                                                   *)
Usertrapret(h) ==
  /\ At(h, "usertrapret")
  /\ hart' = [hart EXCEPT ![h] = [IntrOff(@) EXCEPT !.stvec = "uservec"]]
  /\ stk' = SetTop(hart[h].run, Frame("userret", 0))
  /\ UNCHANGED <<proc, lock, cons, uart, ticks, env>>

Userret(h) ==
  LET c == hart[h] p == c.run IN
  /\ At(h, "userret")
  /\ hart' = [hart EXCEPT ![h] = [c EXCEPT !.sepc = proc[p].epc, !.sie = TRUE]]
  /\ proc' = [proc EXCEPT ![p].hartid = c.tp, ![p].pc = proc[p].epc]
  /\ stk' = [stk EXCEPT ![p] = <<>>]
  /\ UNCHANGED <<lock, cons, uart, ticks, env>>

(* The end of kerneltrap(): yield() on a timer interrupt of a process;     *)
(* w_sepc(); then w_sstatus(), and kernelvec's sret.                       *)
Kerneltrap(h) ==
  LET t == hart[h].run IN
  /\ At(h, "kerneltrap")
  /\ IF Top(t).arg[1] = 2 /\ t \in Procs THEN Yield(h, "kernelret")
     ELSE stk' = SetTop(t, [Top(t) EXCEPT !.pc = "kernelret"]) /\ UNCHANGED <<hart, proc>>
  /\ UNCHANGED <<lock, cons, uart, ticks, env>>

Kernelret(h) ==
  LET t == hart[h].run IN
  /\ At(h, "kernelret")
  /\ hart' = [hart EXCEPT ![h].sepc = Top(t).arg[2]]
  /\ stk' = SetTop(t, [Top(t) EXCEPT !.pc = "sret"])
  /\ UNCHANGED <<proc, lock, cons, uart, ticks, env>>

Sret(h) ==
  /\ At(h, "sret")
  /\ hart' = [hart EXCEPT ![h].sie = TRUE]
  /\ stk' = Pop(hart[h].run)
  /\ UNCHANGED <<proc, lock, cons, uart, ticks, env>>

-----------------------------------------------------------------------------
(* The clock *)

(* clockintr(), and RESET_TIMER(). *)
Clockintr(h) ==
  /\ Inside(h, "clockintr")
  /\ ticks' = ticks + 1 /\ Wakeup("ticks")
  /\ lock' = [lock EXCEPT !["ticks"] = NoHart]
  /\ hart' = [hart EXCEPT ![h] = [PopOff(@) EXCEPT !.timer = TRUE]]
  /\ stk' = Pop(hart[h].run)
  /\ UNCHANGED <<cons, uart, env>>

(* sys_sleep(), arg: ticks0 + 1, or 0 at first.  kill() takes no tickslock: *)
(* it may come between the test of p->killed and sleep().                   *)
SysSleep(h) ==
  LET p == hart[h].run f == Top(p) t0 == IF f.arg = 0 THEN ticks ELSE f.arg - 1 IN
  /\ Inside(h, "sys_sleep") /\ ~f.alive
  /\ IF ticks - t0 < SleepTicks /\ ~proc[p].killed
       THEN stk' = SetTop(p, [f EXCEPT !.arg = t0 + 1, !.alive = TRUE]) /\ UNCHANGED <<hart, lock>>
       ELSE Release(h) /\ Returned(p)
  /\ UNCHANGED <<proc, cons, uart, ticks, env>>

TickSleep(h) ==
  /\ Inside(h, "sys_sleep") /\ Top(hart[h].run).alive
  /\ Sleep(h, Top(hart[h].run))
  /\ UNCHANGED <<cons, uart, ticks, env>>

SysKill(h) ==
  LET q == Top(hart[h].run).arg IN
  /\ At(h, "sys_kill")
  /\ proc' = [proc EXCEPT ![q].killed = TRUE,
                          ![q].state = IF @ = "SLEEPING" THEN "RUNNABLE" ELSE @]
  /\ Returned(hart[h].run)
  /\ UNCHANGED <<hart, lock, cons, uart, ticks, env>>

-----------------------------------------------------------------------------
(* console.c and uart.c *)

(* consoleread() with nothing to read; arg: characters read so far. *)
ReadWait(h) ==
  LET p == hart[h].run f == Top(p) IN
  /\ Inside(h, "consoleread") /\ ~f.alive /\ cons.r = cons.w
  /\ IF proc[p].killed THEN Release(h) /\ Returned(p)
     ELSE stk' = SetTop(p, [f EXCEPT !.alive = TRUE]) /\ UNCHANGED <<hart, lock>>
  /\ UNCHANGED <<proc, cons, uart, ticks, env>>

ReadSleep(h) ==
  /\ Inside(h, "consoleread") /\ Top(hart[h].run).alive
  /\ Sleep(h, Top(hart[h].run))
  /\ UNCHANGED <<cons, uart, ticks, env>>

(* One character; either_copyout() may fail, and ^D behind others stays.   *)
ReadChar(h, copied) ==
  LET p == hart[h].run f == Top(p) c == Next1(cons)
      done == c \in {"nl", "^D"} \/ ~copied \/ f.arg + 1 = ReadSize IN
  /\ Inside(h, "consoleread") /\ cons.r # cons.w
  /\ cons' = IF c = "^D" /\ f.arg > 0 THEN cons ELSE Take(cons)
  /\ IF done THEN Release(h) /\ Returned(p)
     ELSE stk' = SetTop(p, [f EXCEPT !.arg = @ + 1]) /\ UNCHANGED <<hart, lock>>
  /\ UNCHANGED <<proc, uart, ticks, env>>

(* consolewrite(), arg: i.  either_copyin() of the next character may fail. *)
Copyin(h, ok) ==
  LET p == hart[h].run IN
  /\ At(h, "consolewrite")
  /\ IF ok THEN stk' = SetTop(p, Frame("uartputc", Top(p).arg)) ELSE Returned(p)
  /\ UNCHANGED <<hart, proc, lock, cons, uart, ticks, env>>

Uartputc(h) ==
  LET p == hart[h].run f == Top(p) u == Put(uart, <<p, proc[p].calls, f.arg + 1>>) IN
  /\ Inside(h, "uartputc")
  /\ IF Full(uart) THEN Sleep(h, f) /\ UNCHANGED uart
     ELSE /\ \E n \in Sends(u) : uart' = Uartstart(u, n)
          /\ IF uart'.r # u.r THEN Wakeup("uart") ELSE UNCHANGED proc
          /\ Release(h)
          /\ IF f.arg + 1 = WriteSize THEN Returned(p)
             ELSE stk' = SetTop(p, Frame("consolewrite", f.arg + 1))
  /\ UNCHANGED <<cons, ticks, env>>

(* uartintr(): a character for consoleintr(). *)
Uartgetc(h) ==
  LET t == hart[h].run IN
  /\ At(h, "uartintr") /\ ~Top(t).in /\ uart.rx # <<>>
  /\ uart' = [uart EXCEPT !.rx = Tail(@)]
  /\ stk' = [stk EXCEPT ![t] = Append(@, Frame("consoleintr", Head(uart.rx)))]
  /\ UNCHANGED <<hart, proc, lock, cons, ticks, env>>

(* consoleintr(); what changes is echoed, when the UART is idle.           *)
ConsoleInput(h) ==
  LET t == hart[h].run c == Consoleintr(cons, Top(t).arg) IN
  /\ Inside(h, "consoleintr")
  /\ cons' = c
  /\ IF c = cons THEN UNCHANGED uart ELSE ~uart.busy /\ uart' = UartputcSync(uart)
  /\ IF c.w # cons.w THEN Wakeup("cons") ELSE UNCHANGED proc
  /\ Release(h) /\ stk' = Pop(t)
  /\ UNCHANGED <<ticks, env>>

(* Mutant of SendNext: the handler only looks at the input. *)
SendNextNot(u, n) == u

SendNext(u, n) == Uartstart(u, n)

(* The rest of uartintr(), and plic_complete(). *)
UartSend(h) ==
  /\ Inside(h, "uartintr")
  /\ \E n \in Sends(uart) : uart' = [SendNext(uart, n) EXCEPT !.claimed = FALSE]
  /\ IF uart'.r # uart.r THEN Wakeup("uart") ELSE UNCHANGED proc
  /\ Release(h) /\ stk' = Pop(hart[h].run)
  /\ UNCHANGED <<cons, ticks, env>>

(* The device: a character has been sent; a character arrives. *)
Transmitted ==
  /\ uart.busy
  /\ uart' = [uart EXCEPT !.busy = FALSE, !.irq = TRUE]
  /\ UNCHANGED <<hart, stk, proc, lock, cons, ticks, env>>

Received ==
  /\ env.input # <<>>
  /\ uart' = [uart EXCEPT !.rx = Append(@, Head(env.input)), !.irq = TRUE]
  /\ env' = [env EXCEPT !.input = Tail(@)]
  /\ UNCHANGED <<hart, stk, proc, lock, cons, ticks>>

-----------------------------------------------------------------------------
Next ==
  \/ \E h \in Harts :
       \/ Acquire(h) \/ SchedLoop(h)
       \/ \E p \in Procs : Schedule(h, p)
       \/ \E which \in 1 .. 2 : Uservec(h, which) \/ Kernelvec(h, which)
       \/ Syscall(h)
       \/ Usertrap(h) \/ Usertrapret(h) \/ Userret(h)
       \/ Kerneltrap(h) \/ Kernelret(h) \/ Sret(h)
       \/ Clockintr(h) \/ SysSleep(h) \/ TickSleep(h) \/ SysKill(h)
       \/ ReadWait(h) \/ ReadSleep(h) \/ \E copied \in BOOLEAN : ReadChar(h, copied)
       \/ Uartputc(h) \/ \E ok \in BOOLEAN : Copyin(h, ok)
       \/ Uartgetc(h) \/ ConsoleInput(h) \/ UartSend(h)
  \/ Transmitted \/ Received

Spec == Init /\ [][Next]_vars

-----------------------------------------------------------------------------
(* Properties *)

Held(h) == {l \in DOMAIN lock : lock[l] = h}

(* No panic() of usertrap(), kerneltrap(), acquire(), release(), pop_off() *)
(* or sched() is reached, and no handler spins on a lock of the thread it  *)
(* interrupted: interrupts are off while a lock is held and while stvec is *)
(* not for the mode the hart is in, a wanted lock is not the hart's own,   *)
(* noff counts the locks, and a switch is made with none.                  *)
NoTrapPanic ==
  \A h \in Harts : LET c == hart[h] t == c.run IN
    /\ c.noff = Cardinality(Held(h))
    /\ c.noff > 0 => ~c.sie
    /\ User(t) => c.sie /\ c.stvec = "uservec"
    /\ ~User(t) /\ c.sie => c.stvec = "kernelvec"
    /\ ~User(t) /\ Top(t).pc \in DOMAIN Wants =>
         (Top(t).in <=> lock[Wants[Top(t).pc]] = h)
    /\ (At(h, "usertrap") \/ At(h, "kerneltrap") \/ At(h, "scheduler")) => c.noff = 0
    /\ At(h, "kerneltrap") \/ At(h, "userret") => ~c.sie

(* An interrupted thread goes on where it was, whatever ran on either hart *)
(* meanwhile: sepc at kernelvec's sret is the place below the trap, a user *)
(* program continues behind its last ecall, and tp is the hart's number.   *)
ReturnsIntact ==
  \A h \in Harts : LET c == hart[h] t == c.run IN
    /\ At(h, "sret") => c.sepc = Place(t, Front(stk[t]))
    /\ User(t) => proc[t].pc = Place(t, <<>>)
    /\ ~User(t) => c.tp = h

(* Readers get every character of every line that was handed to them once, *)
(* in order, and no line is overwritten, also when the indices wrap.       *)
InputInOrder ==
  /\ cons.taken \o Chars(cons, cons.r, cons.w) = cons.lines
  /\ Span(cons.r, cons.w) <= Span(cons.r, cons.e)
  /\ Span(cons.r, cons.e) <= INPUT_BUF

(* uartputc()'s characters are sent once and in the order they were put:   *)
(* of each call, the ring and what has been sent hold a prefix.            *)
OutputInOrder ==
  LET out == uart.sent \o Buffered(uart) IN
  \A p \in Procs : \A n \in 1 .. proc[p].calls :
    LET mine == SelectSeq(out, LAMBDA x : x[1] = p /\ x[2] = n)
    IN mine = [i \in 1 .. Len(mine) |-> <<p, n, i>>]

(* Nobody sleeps without a reason: a reader only while there is no line,   *)
(* sys_sleep() only until its time, a writer only while the ring is full   *)
(* and the UART will interrupt or its handler is at work.                  *)
SleepersHaveReason ==
  \A p \in Procs :
    /\ Sleeping(p, "cons")  => cons.r = cons.w
    /\ Sleeping(p, "ticks") => ticks - (Top(p).arg - 1) < SleepTicks
    /\ Sleeping(p, "uart")  => Full(uart) /\ (uart.busy \/ uart.irq \/ uart.claimed)
=============================================================================
