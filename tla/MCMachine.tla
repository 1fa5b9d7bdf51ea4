------------------------------ MODULE MCMachine ------------------------------
(* Machine with two harts, for TLC. *)
EXTENDS Machine, TLC

CONSTANTS p1, p2

Scenario(c1, c2, in, n) == [todo |-> (p1 :> c1 @@ p2 :> c2), input |-> in, timers |-> n]

read  == <<"consoleread", 0>>
write == <<"consolewrite", 0>>
sleep == <<"sys_sleep", 0>>
kill1 == <<"sys_kill", p1>>

(* Two readers and editing; more input than fits; two writers; *)
(* output and echo with a timer; sleepers; kills of a sleeper and of a      *)
(* reader; a writer among timer interrupts.                                 *)
MCScenarios == {
  Scenario(<<read>>, <<read>>, <<"a", "^H", "cr">>, 0),
  Scenario(<<read>>, <<>>, <<"a", "^U", "a", "a", "^D">>, 0),
  Scenario(<<write>>, <<write>>, <<>>, 0),
  Scenario(<<write>>, <<read>>, <<"cr">>, 0),
  Scenario(<<sleep>>, <<sleep>>, <<>>, 2),
  Scenario(<<sleep>>, <<kill1>>, <<>>, 2),
  Scenario(<<read>>, <<kill1>>, <<"cr">>, 0),
  Scenario(<<write>>, <<>>, <<>>, 1)}

(* Registers that are written before they are read again are left out. *)
View ==
  <<[h \in Harts |->
       [hart[h] EXCEPT !.sepc = IF At(h, "kernelret") \/ At(h, "sret") THEN @ ELSE <<>>,
                       !.intena = IF hart[h].noff = 0 THEN FALSE ELSE @]],
    stk,
    [p \in Procs |->
       [proc[p] EXCEPT !.intena = IF proc[p].state \in {"RUNNABLE", "SLEEPING"} THEN @ ELSE FALSE,
                       !.epc = IF User(p) THEN <<>> ELSE @,
                       !.hartid = IF User(p) THEN @ ELSE 0]],
    lock, cons, uart, ticks, env>>
=============================================================================
