----------------------------- MODULE BlockStore -----------------------------
(***************************************************************************)
(* What the buffer cache promises its users: a block has one value, a user *)
(* that holds the block is alone with it, and only the holder changes the  *)
(* value.  The value falls back to the one last saved only while nobody    *)
(* holds the block and nobody has asked to keep it.                        *)
(***************************************************************************)
CONSTANTS Users, Blocks, Values, InitValue, NoThread

VARIABLES
  val,      \* the value of each block
  saved,    \* the value last written to disk
  kept,     \* the blocks whose value is to be kept
  holder    \* who holds each block

vars == <<val, saved, kept, holder>>

Init ==
  /\ val = [b \in Blocks |-> InitValue] /\ saved = val
  /\ kept = {} /\ holder = [b \in Blocks |-> NoThread]

Acquire(u, b) ==
  /\ holder[b] = NoThread
  /\ holder' = [holder EXCEPT ![b] = u]
  /\ UNCHANGED <<val, saved, kept>>

Change(u, b, v) ==
  /\ holder[b] = u
  /\ val' = [val EXCEPT ![b] = v]
  /\ UNCHANGED <<saved, kept, holder>>

Save(u, b) ==
  /\ holder[b] = u
  /\ saved' = [saved EXCEPT ![b] = val[b]]
  /\ UNCHANGED <<val, kept, holder>>

Keep(u, b) ==
  /\ holder[b] = u
  /\ kept' = kept \union {b}
  /\ UNCHANGED <<val, saved, holder>>

Unkeep(u, b) ==
  /\ holder[b] = u
  /\ kept' = kept \ {b}
  /\ UNCHANGED <<val, saved, holder>>

Release(u, b) ==
  /\ holder[b] = u
  /\ holder' = [holder EXCEPT ![b] = NoThread]
  /\ UNCHANGED <<val, saved, kept>>

Forget(b) ==
  /\ holder[b] = NoThread /\ b \notin kept
  /\ val' = [val EXCEPT ![b] = saved[b]]
  /\ UNCHANGED <<saved, kept, holder>>

Next ==
  \E b \in Blocks :
    \/ Forget(b)
    \/ \E u \in Users :
         \/ Acquire(u, b) \/ Release(u, b) \/ Save(u, b) \/ Keep(u, b) \/ Unkeep(u, b)
         \/ \E v \in Values : Change(u, b, v)

Spec == Init /\ [][Next]_vars
=============================================================================
