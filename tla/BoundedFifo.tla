---------------------------- MODULE BoundedFifo -----------------------------
(***************************************************************************)
(* What a pipe promises: bytes leave it in the order in which they came,   *)
(* each once, and at most Size of them are inside.                         *)
(***************************************************************************)
EXTENDS Naturals, Sequences

CONSTANTS Bytes, Size, NoByte

VARIABLES
  queue,  \* the bytes inside
  got     \* the last byte taken out

vars == <<queue, got>>

Init ==
  /\ queue = <<>>
  /\ got = NoByte

Put(b) ==
  /\ Len(queue) < Size
  /\ queue' = Append(queue, b)
  /\ UNCHANGED got

Get ==
  /\ queue # <<>>
  /\ queue' = Tail(queue)
  /\ got' = Head(queue)

Next == (\E b \in Bytes : Put(b)) \/ Get

Spec == Init /\ [][Next]_vars
=============================================================================
