------------------------------- MODULE Memory -------------------------------
(***************************************************************************)
(* The memory of processes: fork(), sbrk(), exec(), exit() and stores, as  *)
(* kernel/proc.c, kernel/exec.c, kernel/sysproc.c and kernel/sysfile.c use *)
(* the page tables of module Vm.                                           *)
(*                                                                         *)
(* A call is one step: it works on the page table of its own process, and  *)
(* shares nothing with other calls but the free list.  What other calls do *)
(* to that meanwhile shows in when kalloc() fails: a call gets n pages,    *)
(* for any n, before kalloc() returns 0.                                   *)
(***************************************************************************)
EXTENDS Vm

CONSTANTS
  Procs, InitProc,
  Values,       \* what processes store
  Addresses,    \* bound: the pages that they store to
  Programs,     \* files for exec(): sequences of segments [va, file, mem]
  Deltas,       \* arguments of sbrk()
  ARGC,         \* bound: arguments of exec()
  MaxSz         \* bound: size of a process; memory runs out before addresses do

VARIABLES
  ram,          \* the pages, as in Vm
  proc          \* of each process: tf (trapframe), pt (pagetable) and sz

vars == <<ram, proc>>

Unused == [tf |-> 0, pt |-> 0, sz |-> 0]
Live   == {p \in Procs : proc[p].tf # 0}

Start(n) == [ram EXCEPT !.left = n]
Done(m)  == ram' = Then(m, LAMBDA x : [x EXCEPT !.left = NPages, !.pg = 0, !.ok = TRUE])

-----------------------------------------------------------------------------
(* freeproc() and allocproc() *)

Freeproc(m, q) ==
  Then(IF q.tf # 0 THEN Kfree(m, q.tf) ELSE m, LAMBDA x :
    IF q.pt # 0 THEN ProcFreepagetable(x, q.pt, q.sz) ELSE x)

Allocproc(m) ==
  Then(Kalloc(m), LAMBDA t :
    IF ~t.ok THEN [m |-> t, q |-> Unused]
    ELSE Then(ProcPagetable(t, t.pg), LAMBDA w :
      IF w.ok THEN [m |-> w, q |-> [tf |-> t.pg, pt |-> w.pg, sz |-> 0]]
      ELSE [m |-> Freeproc(w, [Unused EXCEPT !.tf = t.pg]), q |-> Unused]))

(* userinit() and uvminit() *)
Init ==
  \E a \in {Allocproc(Kinit)} :
    /\ \E u \in {Uvminit(a.m, a.q.pt)} :
         ram = [u EXCEPT !.left = NPages, !.pg = 0]
    /\ proc = [p \in Procs |-> IF p = InitProc THEN [a.q EXCEPT !.sz = PGSIZE] ELSE Unused]

Fork(p, c, n) ==
  /\ p \in Live /\ c \notin Live
  /\ \E a \in {Allocproc(Start(n))} :
       IF ~a.m.ok THEN Done(a.m) /\ UNCHANGED proc
       ELSE \E u \in {Uvmcopy(a.m, proc[p].pt, a.q.pt, proc[p].sz)} :
              IF u.ok THEN Done(u) /\ proc' = [proc EXCEPT ![c] = [a.q EXCEPT !.sz = proc[p].sz]]
              ELSE Done(Freeproc(u, a.q)) /\ UNCHANGED proc

(* exit(), and freeproc() when the parent waits. *)
Exit(p) ==
  /\ p \in Live /\ p # InitProc
  /\ Done(Freeproc(ram, proc[p]))
  /\ proc' = [proc EXCEPT ![p] = Unused]

(* growproc(): sizes are unsigned, so that one below 0 is above the old    *)
(* size, and uvmdealloc() leaves it at that.                               *)
Wrapped(sz) == sz < 0

Sbrk(p, d, n) ==
  LET sz == proc[p].sz IN
  /\ p \in Live /\ sz + d <= MaxSz
  /\ IF d > 0
       THEN \E u \in {Uvmalloc(Start(n), proc[p].pt, sz, sz + d)} :
              /\ Done(u)
              /\ proc' = IF u.ok THEN [proc EXCEPT ![p].sz = sz + d] ELSE proc
       ELSE IF Wrapped(sz + d) THEN UNCHANGED vars
       ELSE /\ Done(Uvmdealloc(ram, proc[p].pt, sz, sz + d))
            /\ proc' = [proc EXCEPT ![p].sz = sz + d]

-----------------------------------------------------------------------------
(* sys_exec() and exec() *)

(* The copies of the arguments, argv: kalloc() one by one. *)
Argv(m, argc) ==
  LET one(z, i) == Then(z, LAMBDA x :
        IF ~x.m.ok THEN x
        ELSE Then(Kalloc(x.m), LAMBDA k :
               [m |-> k, argv |-> IF k.ok THEN x.argv \union {k.pg} ELSE x.argv]))
  IN FoldLeft(one, [m |-> m, argv |-> {}], [i \in 1 .. argc |-> i])

FreeArgv(m, argv) ==
  LET one(x, g) == Then(x, LAMBDA y : Kfree(y, g)) IN FoldLeft(one, m, SetToSeq(argv))

(* loadseg() of a segment into pages that are mapped. *)
Loadseg(m, pt, seg) ==
  LET one(x, i) == Then(x, LAMBDA y :
        Then(Copyout(y, pt, seg.va + i - 1, "text"), LAMBDA c : [c EXCEPT !.bad = @ \/ ~c.ok]))
  IN FoldLeft(one, m, [i \in 1 .. Up(seg.file) |-> i])

(* The loop over the program headers; the file gives out at number stop. *)
LoadAll(m, pt, segs, stop) ==
  LET one(z, i) == Then(z, LAMBDA x :
        LET newsz == segs[i].va * PGSIZE + segs[i].mem IN
        IF ~x.m.ok THEN x
        ELSE Then(Uvmalloc(x.m, pt, x.sz, newsz), LAMBDA u :
          IF ~u.ok THEN [m |-> u, sz |-> x.sz]
          ELSE [m |-> IF i = stop THEN [u EXCEPT !.ok = FALSE] ELSE Loadseg(u, pt, segs[i]),
                sz |-> Max({x.sz, newsz})]))
  IN FoldLeft(one, [m |-> m, sz |-> 0], [i \in 1 .. Len(segs) |-> i])

(* The guard page, the stack, and the arguments on it unless they do not fit. *)
PushStack(x, pt, fits) ==
  LET sz == Up(x.sz) * PGSIZE IN
  IF ~x.m.ok THEN x
  ELSE Then(Uvmalloc(x.m, pt, sz, sz + 2 * PGSIZE), LAMBDA u :
    IF ~u.ok THEN [m |-> u, sz |-> sz]
    ELSE Then(Uvmclear(u, pt, Up(sz)), LAMBDA c :
      [m |-> IF fits THEN Copyout(c, pt, Up(sz) + 1, "args") ELSE [c EXCEPT !.ok = FALSE],
       sz |-> sz + 2 * PGSIZE]))

(* Mutant of ExecBad: the pages mapped so far are not unmapped. *)
ExecBadNoSize(m, pt, sz) == ProcFreepagetable(m, pt, 0)

ExecBad(m, pt, sz) == ProcFreepagetable(m, pt, sz)

(* Reading the header fails (stop = 0), or a segment, or the arguments. *)
Exec(p, segs, stop, n) ==
  /\ p \in Live
  /\ \E a \in {Argv(Start(n), ARGC)} :
       LET end(m) == Done(Then(m, LAMBDA x : FreeArgv(x, a.argv))) IN
       IF ~a.m.ok \/ stop = 0 THEN end(a.m) /\ UNCHANGED proc
       ELSE \E t \in {ProcPagetable(a.m, proc[p].tf)} :
         IF ~t.ok THEN end(t) /\ UNCHANGED proc
         ELSE \E l \in {LoadAll(t, t.pg, segs, stop)} :
              \E x \in {PushStack(l, t.pg, stop # Len(segs) + 1)} :
           IF ~x.m.ok THEN end(ExecBad(x.m, t.pg, x.sz)) /\ UNCHANGED proc
           ELSE /\ end(ProcFreepagetable(x.m, proc[p].pt, proc[p].sz))
                /\ proc' = [proc EXCEPT ![p].pt = t.pg, ![p].sz = x.sz]

(* A store of the process, or copyout() for it. *)
Store(p, va, v) ==
  /\ p \in Live /\ va < Up(proc[p].sz)
  /\ Walkaddr(ram, proc[p].pt, va) # 0
  /\ Done(Copyout(ram, proc[p].pt, va, v))
  /\ UNCHANGED proc

-----------------------------------------------------------------------------
Next ==
  \E p \in Procs :
    \/ \E c \in Procs, n \in 0 .. Cardinality(ram.free) : Fork(p, c, n)
    \/ Exit(p)
    \/ \E d \in Deltas, n \in 0 .. Cardinality(ram.free) : Sbrk(p, d, n)
    \/ \E segs \in Programs :
         \/ \E n \in 0 .. Cardinality(ram.free) : Exec(p, segs, Len(segs) + 2, n)
         \/ \E stop \in 0 .. Len(segs) + 1 : Exec(p, segs, stop, NPages)
    \/ \E va \in Addresses, v \in Values : Store(p, va, v)

Spec == Init /\ [][Next]_vars

-----------------------------------------------------------------------------
(* Properties *)

(* The pages of a process, each as often as it is there. *)
UserPages(p) == {<<va, Walk(ram, proc[p].pt, va)[1]>> : va \in 0 .. Up(proc[p].sz) - 1}
OwnPages(p)  == {proc[p].tf} \union Tables(ram, proc[p].pt) \union {u[2] : u \in UserPages(p)}

(* Every page has one owner: it is free, or belongs to one process, as its *)
(* trapframe, a page-table page or the page of one address.  So a call     *)
(* that fails half way has given back all it took, and nothing is lost.    *)
PagesOwned ==
  /\ ram.free \union UNION {OwnPages(p) : p \in Live} = Pages
  /\ \A p \in Live :
       /\ OwnPages(p) \intersect ram.free = {}
       /\ Cardinality(OwnPages(p)) =
            1 + Cardinality(Tables(ram, proc[p].pt)) + Up(proc[p].sz)
       /\ \A q \in Live \ {p} : OwnPages(p) \intersect OwnPages(q) = {}

(* No call meets a panic of vm.c (remap, not mapped, freewalk: leaf,       *)
(* uvmcopy, uvmclear, loadseg) or frees a page that is free: sizes that    *)
(* are no multiple of a page and failures included.                        *)
NoVmPanic == ~ram.bad

(* Processes have separate memories (module AddressSpaces). *)
ImageOf(segs) ==
  LET size(i) == Up(segs[i].va * PGSIZE + segs[i].mem)
      text == UNION {segs[i].va + 1 .. segs[i].va + Up(segs[i].file) : i \in DOMAIN segs}
  IN [j \in 1 .. Max({size(i) : i \in DOMAIN segs}) |->
        <<IF j \in text THEN "text" ELSE "zero", TRUE>>]

Spaces ==
  INSTANCE AddressSpaces WITH
    Images <- {ImageOf(segs) : segs \in Programs},
    live <- Live,
    space <- [p \in Procs |-> [i \in 1 .. Up(proc[p].sz) |->
               LET pte == Walk(ram, proc[p].pt, i - 1) IN <<ram.mem[pte[1]], pte[2] = "user">>]]

ImplementsSpaces == Spaces!Spec
=============================================================================
