--------------------------------- MODULE Vm ---------------------------------
(***************************************************************************)
(* Physical pages (kernel/mm/kalloc.c) and user page tables                *)
(* (kernel/mm/vm.c): operators that follow the functions of these files,   *)
(* their failures included.                                                *)
(*                                                                         *)
(* A machine state m is a record: the pages on the free list (free, a set: *)
(* kalloc() takes one of them), the contents of the pages (mem), how many  *)
(* pages kalloc() still gives before it returns 0 (left), the page that    *)
(* the last call returned (pg), whether it succeeded (ok), and whether a   *)
(* panic was hit or a free page freed (bad).  A page is a table of PTEs or *)
(* user data, of which one value stands for the contents.  Sizes are in    *)
(* units of which PGSIZE make a page; addresses are page numbers.          *)
(***************************************************************************)
EXTENDS Integers, FiniteSetsExt, SequencesExt, Steps

CONSTANTS
  NPages,   \* pages between end and PHYSTOP
  PGSIZE,
  FAN       \* PTEs of a page-table page

Pages      == 1 .. NPages
MAXVA      == FAN * FAN * FAN
TRAMPOLINE == MAXVA - 1
TRAPFRAME  == MAXVA - 2

Up(sz) == (sz + PGSIZE - 1) \div PGSIZE

Invalid    == <<0, "">>
EmptyTable == [i \in 0 .. FAN - 1 |-> Invalid]
Valid(pte) == pte[2] # ""

-----------------------------------------------------------------------------
(* One call after another, if the first succeeded. *)
IfOk(m, op(_)) == Then(m, LAMBDA x : IF x.ok THEN op(x) ELSE x)

(* What a caller does when a call failed. *)
Undo(m, op(_)) == Then(m, LAMBDA x : IF x.ok THEN x ELSE op(x))

(* A loop over i = 1 .. n that ends when a call fails. *)
ForEach(m, n, op(_, _)) ==
  LET one(x, i) == IfOk(x, LAMBDA y : op(y, i)) IN FoldLeft(one, m, [i \in 1 .. n |-> i])

-----------------------------------------------------------------------------
(* kalloc.c; kinit() has freed all pages. *)

Kinit == [free |-> Pages, mem |-> [g \in Pages |-> "freed"], left |-> NPages,
          pg |-> 0, ok |-> TRUE, bad |-> FALSE]

Kalloc(m) ==
  IF m.left = 0 \/ m.free = {} THEN [m EXCEPT !.ok = FALSE, !.pg = 0]
  ELSE Then(Min(m.free), LAMBDA g :
         [m EXCEPT !.free = @ \ {g}, !.left = @ - 1, !.mem[g] = "junk", !.pg = g])

Kfree(m, g) ==
  [m EXCEPT !.free = @ \union {g}, !.mem[g] = "freed", !.bad = @ \/ g \in m.free]

-----------------------------------------------------------------------------
(* walk() and mappages(), of one page *)

PX(level, va) == (va \div (CASE level = 2 -> FAN * FAN [] level = 1 -> FAN [] OTHER -> 1)) % FAN

(* walk() without alloc: the last table, or 0; the PTE in it. *)
LastTable(m, pt, va) ==
  Then(m.mem[pt][PX(2, va)], LAMBDA e : IF Valid(e) THEN m.mem[e[1]][PX(1, va)][1] ELSE 0)

Walk(m, pt, va) ==
  Then(LastTable(m, pt, va), LAMBDA t : IF t = 0 THEN Invalid ELSE m.mem[t][PX(0, va)])

(* One turn of the loop of walk() with alloc. *)
WalkAlloc(m, t, i) ==
  IF Valid(m.mem[t][i]) THEN m
  ELSE IfOk(Kalloc(m), LAMBDA k :
         [k EXCEPT !.mem[k.pg] = EmptyTable, !.mem[t][i] = <<k.pg, "table">>])

SetPte(m, pt, va, pte) == [m EXCEPT !.mem[LastTable(m, pt, va)][PX(0, va)] = pte]

Mappages(m, pt, va, pa, perm) ==
  IfOk(WalkAlloc(m, pt, PX(2, va)), LAMBDA x :
  IfOk(WalkAlloc(x, x.mem[pt][PX(2, va)][1], PX(1, va)), LAMBDA y :
    [SetPte(y, pt, va, <<pa, perm>>) EXCEPT !.bad = @ \/ Valid(Walk(y, pt, va))]))

(* uvmunmap() of n pages from va. *)
Unmap1(m, pt, va, do_free) ==
  Then(Walk(m, pt, va), LAMBDA pte :
    IF ~Valid(pte) THEN [m EXCEPT !.bad = TRUE]
    ELSE Then(IF do_free THEN Kfree(m, pte[1]) ELSE m, LAMBDA f : SetPte(f, pt, va, Invalid)))

Uvmunmap(m, pt, va, n, do_free) ==
  LET one(x, i) == Then(x, LAMBDA y : Unmap1(y, pt, va + i - 1, do_free))
  IN FoldLeft(one, m, [i \in 1 .. n |-> i])

-----------------------------------------------------------------------------
(* User memory *)

Uvmcreate(m) == IfOk(Kalloc(m), LAMBDA k : [k EXCEPT !.mem[k.pg] = EmptyTable])

Uvmdealloc(m, pt, oldsz, newsz) ==
  IF newsz < oldsz THEN Uvmunmap(m, pt, Up(newsz), Up(oldsz) - Up(newsz), TRUE) ELSE m

(* A page is allocated, filled and mapped at va; freed if it cannot be. *)
MapNew(m, pt, va, contents, perm) ==
  IfOk(Kalloc(m), LAMBDA k :
    Undo(Mappages([k EXCEPT !.mem[k.pg] = contents], pt, va, k.pg, perm),
         LAMBDA w : Kfree(w, k.pg)))

Uvminit(m, pt) == MapNew(m, pt, 0, "text", "user")

(* Mutant of NewContents: the page keeps what kalloc() left in it. *)
Uncleared == "junk"

NewContents == "zero"

Uvmalloc(m, pt, oldsz, newsz) ==
  ForEach(m, Up(newsz) - Up(oldsz), LAMBDA x, i :
    Undo(MapNew(x, pt, Up(oldsz) + i - 1, NewContents, "user"), LAMBDA y :
      Uvmdealloc(y, pt, (Up(oldsz) + i - 1) * PGSIZE, Up(oldsz) * PGSIZE)))

(* Tables of pt, and freewalk(): no leaf may be left. *)
Children(m, t) == {m.mem[t][i][1] : i \in {i \in 0 .. FAN - 1 : Valid(m.mem[t][i])}}
Leaves(m, pt)  == UNION {Children(m, t) : t \in Children(m, pt)}
Tables(m, pt)  == {pt} \union Children(m, pt) \union Leaves(m, pt)

Freewalk(m, pt) ==
  [m EXCEPT !.free = @ \union Tables(m, pt),
            !.mem = [g \in Pages |-> IF g \in Tables(m, pt) THEN "freed" ELSE @[g]],
            !.bad = @ \/ Tables(m, pt) \intersect m.free # {}
                      \/ \E t \in Leaves(m, pt) : Children(m, t) # {}]

Uvmfree(m, pt, sz) == Then(Uvmunmap(m, pt, 0, Up(sz), TRUE), LAMBDA x : Freewalk(x, pt))

(* Mutant of UvmcopyUndo: one page too few. *)
UvmcopyUndoShort(m, new, i) == Uvmunmap(m, new, 0, IF i = 0 THEN 0 ELSE i - 1, TRUE)

UvmcopyUndo(m, new, i) == Uvmunmap(m, new, 0, i, TRUE)

Uvmcopy(m, old, new, sz) ==
  ForEach(m, Up(sz), LAMBDA x, i :
    Then(Walk(x, old, i - 1), LAMBDA pte :
      IF ~Valid(pte) THEN [x EXCEPT !.bad = TRUE, !.ok = FALSE]
      ELSE Undo(MapNew(x, new, i - 1, x.mem[pte[1]], pte[2]),
                LAMBDA y : UvmcopyUndo(y, new, i - 1))))

(* uvmclear(): the guard page stays mapped, without PTE_U. *)
Uvmclear(m, pt, va) ==
  Then(Walk(m, pt, va), LAMBDA pte :
    IF Valid(pte) THEN SetPte(m, pt, va, <<pte[1], "guard">>) ELSE [m EXCEPT !.bad = TRUE])

(* walkaddr(): the page that a user address is in, or 0; copyout() to it. *)
Walkaddr(m, pt, va) ==
  Then(IF va < MAXVA THEN Walk(m, pt, va) ELSE Invalid, LAMBDA pte :
    IF pte[2] = "user" THEN pte[1] ELSE 0)

Copyout(m, pt, va, v) ==
  Then(Walkaddr(m, pt, va), LAMBDA g :
    IF g = 0 THEN [m EXCEPT !.ok = FALSE] ELSE [m EXCEPT !.mem[g] = v])

-----------------------------------------------------------------------------
(* proc.c: page table of a process with trapframe tf *)

ProcPagetable(m, tf) ==
  IfOk(Uvmcreate(m), LAMBDA c :
  Then(Mappages(c, c.pg, TRAMPOLINE, 0, "kern"), LAMBDA x :
    IF ~x.ok THEN Uvmfree(x, c.pg, 0)
    ELSE Then(Mappages(x, c.pg, TRAPFRAME, tf, "kern"), LAMBDA y :
      IF y.ok THEN [y EXCEPT !.pg = c.pg]
      ELSE Then(Uvmunmap(y, c.pg, TRAMPOLINE, 1, FALSE), LAMBDA z : Uvmfree(z, c.pg, 0)))))

ProcFreepagetable(m, pt, sz) ==
  Then(Uvmunmap(m, pt, TRAMPOLINE, 1, FALSE), LAMBDA x :
  Then(Uvmunmap(x, pt, TRAPFRAME, 1, FALSE), LAMBDA y : Uvmfree(y, pt, sz)))
=============================================================================
