--------------------------- MODULE AddressSpaces ----------------------------
(***************************************************************************)
(* What the memory system promises processes: each has a memory of its     *)
(* own, a sequence of pages <<contents, usable>>.  fork() copies it, new   *)
(* pages are zero, exec() replaces it or changes nothing, and a store      *)
(* changes one page of one process.                                        *)
(***************************************************************************)
EXTENDS Naturals, Sequences

CONSTANTS Procs, Values, Images

VARIABLES live, space

vars == <<live, space>>

Init == \E p \in Procs :
  /\ live = {p}
  /\ space = [q \in Procs |-> IF q = p THEN <<<<"text", TRUE>>>> ELSE <<>>]

Fork(p, c) ==
  /\ c \notin live
  /\ live' = live \union {c}
  /\ space' = [space EXCEPT ![c] = space[p]]

Exit(p) ==
  /\ live' = live \ {p}
  /\ space' = [space EXCEPT ![p] = <<>>]

(* The memory becomes n pages long. *)
Resize(p, n) ==
  /\ space' = [space EXCEPT ![p] =
       [i \in 1 .. n |-> IF i <= Len(@) THEN @[i] ELSE <<"zero", TRUE>>]]
  /\ UNCHANGED live

(* The program's pages, a guard page and the stack. *)
Exec(p, image) ==
  /\ space' = [space EXCEPT ![p] = image \o <<<<"zero", FALSE>>, <<"args", TRUE>>>>]
  /\ UNCHANGED live

Store(p, i, v) ==
  /\ space[p][i][2]
  /\ space' = [space EXCEPT ![p][i][1] = v]
  /\ UNCHANGED live

Next ==
  \E p \in live :
    \/ \E c \in Procs : Fork(p, c)
    \/ Exit(p)
    \/ \E n \in 0 .. Len(space[p]) + 3 : Resize(p, n)
    \/ \E image \in Images : Exec(p, image)
    \/ \E i \in 1 .. Len(space[p]), v \in Values : Store(p, i, v)

Spec == Init /\ [][Next]_vars
=============================================================================
