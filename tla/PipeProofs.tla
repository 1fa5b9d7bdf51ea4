------------------------------ MODULE PipeProofs ------------------------------
(***************************************************************************)
(* Proofs about Pipe, for any number of readers and writers and any size:  *)
(* nobody sleeps through the wakeup() that is meant for it, the pipe is    *)
(* not freed under a caller, and it is a first-in first-out queue for      *)
(* every width of the counters that is a multiple of the size.             *)
(***************************************************************************)
EXTENDS Pipe, Sequences, ModuloLemmas, TLAPS

(* pipealloc() establishes the invariant. *)
LEMMA InitInv == Init => IInv
  BY PipeAssumption
  DEF Init, IInv, TypeInv, LockInv, OpenInv, SeenInv, ReaderWoken, WriterWoken,
      InRead, InWrite, Locked, Procs

(* pipewrite() keeps it. *)
LEMMA WritingInv ==
  ASSUME IInv, NEW p \in Writers, Writing(p)
  PROVE  IInv'
<1> USE PipeAssumption DEF IInv, TypeInv, LockInv, OpenInv, SeenInv, ReaderWoken, WriterWoken,
           InRead, InWrite, Locked, Procs, Empty, Full, pipeVars, openVars, Goto
<1>1. CASE WriteAcquire(p)
  BY <1>1 DEF WriteAcquire
<1>2. CASE WriteAbort(p)
  BY <1>2 DEF WriteAbort, Leave
<1>3. CASE WriteCheck(p)
  BY <1>3 DEF WriteCheck
<1>4. CASE WriteSleep(p)
  BY <1>4 DEF WriteSleep, WakeReaders, GotoAndWakeup
<1>5. CASE WriteDone(p)
  BY <1>5 DEF WriteDone, Leave, WakeReaders, GotoAndWakeup
<1>6. ASSUME NEW b \in Bytes, WriteByte(p, b) PROVE IInv'
  BY <1>6 DEF WriteByte
<1> QED  BY <1>1, <1>2, <1>3, <1>4, <1>5, <1>6 DEF Writing

(* piperead() keeps it. *)
LEMMA ReadingInv ==
  ASSUME IInv, NEW p \in Readers, Reading(p)
  PROVE  IInv'
<1> USE PipeAssumption DEF IInv, TypeInv, LockInv, OpenInv, SeenInv, ReaderWoken, WriterWoken,
           InRead, InWrite, Locked, Procs, Empty, Full, pipeVars, openVars, Goto
<1>1. CASE ReadAcquire(p)
  BY <1>1 DEF ReadAcquire
<1>2. CASE ReadAbort(p)
  BY <1>2 DEF ReadAbort, Leave
<1>3. CASE ReadCheck(p)
  BY <1>3 DEF ReadCheck
<1>4. CASE ReadSleep(p)
  BY <1>4 DEF ReadSleep
<1>5. CASE ReadByte(p)
  BY <1>5 DEF ReadByte
<1>6. CASE ReadFault(p)
  BY <1>6 DEF ReadFault, Leave, WakeWriters, GotoAndWakeup
<1>7. CASE ReadDone(p)
  BY <1>7 DEF ReadDone, Leave, WakeWriters, GotoAndWakeup
<1> QED  BY <1>1, <1>2, <1>3, <1>4, <1>5, <1>6, <1>7 DEF Reading

(* Calls, fileclose() and kill() keep it. *)
LEMMA OtherInv ==
  ASSUME IInv, NEW p \in Procs,
         \/ p \in Writers /\ (CloseWrite(p) \/ \E n \in 0 .. MaxN : CallWrite(p, n))
         \/ p \in Readers /\ (CloseRead(p) \/ \E n \in 0 .. MaxN : CallRead(p, n))
         \/ Kill(p)
  PROVE  IInv'
<1> USE PipeAssumption DEF IInv, TypeInv, LockInv, OpenInv, SeenInv, ReaderWoken, WriterWoken,
           InRead, InWrite, Locked, Procs, Empty, Full, pipeVars, openVars, Goto
<1>1. ASSUME p \in Writers, NEW n \in 0 .. MaxN, CallWrite(p, n) PROVE IInv'
  BY <1>1 DEF CallWrite
<1>2. ASSUME p \in Readers, NEW n \in 0 .. MaxN, CallRead(p, n) PROVE IInv'
  BY <1>2 DEF CallRead
<1>3. ASSUME p \in Writers, CloseWrite(p) PROVE IInv'
  <2>1. CASE wfds \ {p} = {}
    <3>1. /\ pc[p] = "idle" /\ wfds' = {} /\ writeopen' = FALSE /\ lock = NoProc /\ lock' = lock
          /\ WakeReaders(p, "idle")
      BY <1>3, <2>1 DEF CloseWrite
    <3>2. TypeInv' /\ LockInv'
      BY <1>3, <3>1 DEF CloseWrite, WakeReaders, GotoAndWakeup
    <3>3. OpenInv' /\ SeenInv'
      BY <1>3, <2>1, <3>1 DEF CloseWrite, WakeReaders, GotoAndWakeup
    <3>4. ReaderWoken' /\ WriterWoken'
      BY <1>3, <3>1 DEF CloseWrite, WakeReaders, GotoAndWakeup
    <3> QED  BY <3>2, <3>3, <3>4
  <2>2. CASE wfds \ {p} # {}
    BY <1>3, <2>2 DEF CloseWrite
  <2> QED  BY <2>1, <2>2
<1>4. ASSUME p \in Readers, CloseRead(p) PROVE IInv'
  <2>1. CASE rfds \ {p} = {}
    <3>1. /\ pc[p] = "idle" /\ rfds' = {} /\ readopen' = FALSE /\ lock = NoProc /\ lock' = lock
          /\ WakeWriters(p, "idle")
      BY <1>4, <2>1 DEF CloseRead
    <3>2. TypeInv' /\ LockInv'
      BY <1>4, <3>1 DEF CloseRead, WakeWriters, GotoAndWakeup
    <3>3. OpenInv' /\ SeenInv'
      BY <1>4, <2>1, <3>1 DEF CloseRead, WakeWriters, GotoAndWakeup
    <3>4. ReaderWoken' /\ WriterWoken'
      BY <1>4, <3>1 DEF CloseRead, WakeWriters, GotoAndWakeup
    <3> QED  BY <3>2, <3>3, <3>4
  <2>2. CASE rfds \ {p} # {}
    BY <1>4, <2>2 DEF CloseRead
  <2> QED  BY <2>1, <2>2
<1>5. CASE Kill(p)
  BY <1>5 DEF Kill
<1> QED  BY <1>1, <1>2, <1>3, <1>4, <1>5

LEMMA StutterInv == IInv /\ UNCHANGED vars => IInv'
  BY DEF IInv, TypeInv, LockInv, OpenInv, SeenInv, ReaderWoken, WriterWoken, Empty, Full,
         vars, pipeVars, openVars

(* IInv holds in every state of the pipe. *)
THEOREM PipeInductive == Spec => []IInv
<1>1. IInv /\ [Next]_vars => IInv'
  <2> SUFFICES ASSUME IInv, [Next]_vars PROVE IInv'
    OBVIOUS
  <2>1. CASE Next
    BY <2>1, WritingInv, ReadingInv, OtherInv DEF Next, Procs
  <2>2. CASE UNCHANGED vars
    BY <2>2, StutterInv
  <2> QED  BY <2>1, <2>2
<1> QED  BY <1>1, InitInv, PTL DEF Spec

(* A reader sleeps only for a reason: wakeup(&pi->nread) in pipewrite() and *)
(* pipeclose() leaves none behind.                                          *)
THEOREM ReadersWoken == Spec => []ReaderWoken
  BY PipeInductive, PTL DEF IInv

(* A writer sleeps only for a reason: wakeup(&pi->nwrite) in piperead() and *)
(* pipeclose() leaves none behind.                                          *)
THEOREM WritersWoken == Spec => []WriterWoken
  BY PipeInductive, PTL DEF IInv

(* When pipeclose() frees the pipe no process is in a call on it. *)
THEOREM FreedUnused == Spec => []NoUseAfterFree
<1>1. IInv => NoUseAfterFree
  BY DEF IInv, TypeInv, LockInv, OpenInv, NoUseAfterFree, InRead, InWrite, Locked, Procs
<1> QED  BY <1>1, PipeInductive, PTL

-----------------------------------------------------------------------------
(* The counters *)

LEMMA Consts ==
  /\ PIPESIZE \in Nat \ {0} /\ Word \in Nat \ {0} /\ Word \in Nat /\ PIPESIZE < Word
  /\ Word % PIPESIZE = 0
  BY PipeAssumption

LEMMA CountIs ==
  ASSUME nread \in 0 .. Word - 1, nwrite \in 0 .. Word - 1
  PROVE  Count = IF nread <= nwrite THEN nwrite - nread ELSE nwrite + Word - nread
<1>1. (nwrite + Word - nread) % Word
        = IF nread <= nwrite THEN nwrite - nread ELSE nwrite + Word - nread
  BY WrapDistance, Consts, Zenon
<1> QED  BY <1>1, Zenon DEF Count

(* pipewrite() finds the pipe full when it holds PIPESIZE bytes, and        *)
(* piperead() finds it empty when it holds none.                            *)
LEMMA FullIs ==
  ASSUME RingInv
  PROVE  /\ Count \in 0 .. PIPESIZE
         /\ Full <=> Count = PIPESIZE
         /\ Empty <=> Count = 0
<1> DEFINE a == nread + PIPESIZE
<1>1. a \in Nat /\ a < 2 * Word
  BY Consts DEF RingInv
<1>2. Full <=> nwrite = IF a < Word THEN a ELSE a - Word
  BY <1>1, Wrap, Consts, Zenon DEF Full
<1> QED  BY <1>1, <1>2, CountIs, Consts DEF RingInv, Empty

(* The next byte goes to the place after the last one inside. *)
LEMMA WritePlace ==
  ASSUME RingInv
  PROVE  nwrite % PIPESIZE = (nread + Count) % PIPESIZE
<1>1. CASE nread <= nwrite
  BY <1>1, CountIs, Consts DEF RingInv
<1>2. CASE nwrite < nread
  <2>1. nread + Count = nwrite + Word   BY <1>2, CountIs, Consts DEF RingInv
  <2>2. nwrite \in Nat                  BY Consts DEF RingInv
  <2>3. (nwrite + Word) % PIPESIZE = nwrite % PIPESIZE
    BY <2>2, AddMultiple, Consts, Zenon
  <2> QED  BY <2>1, <2>3, Zenon
<1> QED  BY <1>1, <1>2, Consts DEF RingInv

(* The kth byte inside is not where the next one goes. *)
LEMMA OtherPlaces ==
  ASSUME RingInv, Count < PIPESIZE, NEW k \in 1 .. Count
  PROVE  (nread + k - 1) % PIPESIZE # nwrite % PIPESIZE
<1> DEFINE a == nread + k - 1
           d == Count + 1 - k
<1>1. Count \in Nat   BY FullIs, Consts
<1>2. a \in Nat /\ d \in 1 .. PIPESIZE - 1 /\ a + d = nread + Count
  BY <1>1, Consts DEF RingInv
<1>3. (a + d) % PIPESIZE # a % PIPESIZE   BY <1>2, Apart, Consts, Zenon
<1> QED  BY <1>2, <1>3, WritePlace, Zenon

(* Each place is one of the ring. *)
LEMMA InRing ==
  ASSUME NEW a \in Nat
  PROVE  a % PIPESIZE \in 0 .. PIPESIZE - 1
  BY Division, Consts, Zenon

-----------------------------------------------------------------------------
(* The queue *)

LEMMA SeqIsFunction ==
  ASSUME NEW T, NEW q \in Seq(T)
  PROVE  q = [k \in 1 .. Len(q) |-> q[k]]
  OBVIOUS

LEMMA QueueSeq ==
  ASSUME RingInv
  PROVE  Len(Queue) = Count /\ Queue \in Seq(Bytes \union {NoByte})
<1>1. Count \in Nat   BY FullIs, Consts
<1>2. ASSUME NEW k \in 1 .. Count
      PROVE  data[(nread + k - 1) % PIPESIZE] \in Bytes \union {NoByte}
  <2>1. nread + k - 1 \in Nat   BY <1>1, Consts DEF RingInv
  <2>2. (nread + k - 1) % PIPESIZE \in 0 .. PIPESIZE - 1   BY <2>1, InRing, Zenon
  <2> QED  BY <2>2 DEF RingInv
<1> QED  BY <1>1, <1>2 DEF Queue

(* What pipewrite() does to the ring appends a byte. *)
LEMMA PutByte ==
  ASSUME RingInv, ~Full, NEW b \in Bytes, nread' = nread,
         data' = [data EXCEPT ![nwrite % PIPESIZE] = b], nwrite' = (nwrite + 1) % Word
  PROVE  RingInv' /\ Len(Queue) < PIPESIZE /\ Queue' = Append(Queue, b)
<1>1. Count \in 0 .. PIPESIZE - 1   BY FullIs, Consts
<1>2. nwrite' = IF nwrite + 1 < Word THEN nwrite + 1 ELSE 0
  BY WrapNext, Consts, Zenon DEF RingInv
<1>3. nread' \in 0 .. Word - 1 /\ nwrite' \in 0 .. Word - 1   BY <1>2, Consts DEF RingInv
<1>4. Count' = IF nread' <= nwrite' THEN nwrite' - nread' ELSE nwrite' + Word - nread'
  BY <1>3, WrapDistance, Consts, Zenon DEF Count
<1>5. Count' = Count + 1   BY <1>1, <1>2, <1>4, CountIs, Consts DEF RingInv
<1>6. nwrite % PIPESIZE \in 0 .. PIPESIZE - 1
  <2>1. nwrite \in Nat   BY Consts DEF RingInv
  <2> QED  BY <2>1, InRing, Zenon
<1>7. RingInv'   BY <1>1, <1>3, <1>5, <1>6, Consts DEF RingInv
<1>8. Len(Queue) = Count /\ Queue \in Seq(Bytes \union {NoByte})   BY QueueSeq
<1>9. ASSUME NEW k \in 1 .. Count + 1 PROVE Queue'[k] = Append(Queue, b)[k]
  <2>1. Queue'[k] = data'[(nread + k - 1) % PIPESIZE]   BY <1>5 DEF Queue
  <2>2. CASE k = Count + 1
    <3>1. (nread + k - 1) % PIPESIZE = nwrite % PIPESIZE
      <4>1. nread + k - 1 = nread + Count   BY <1>1, <2>2, Consts DEF RingInv
      <4> QED  BY <4>1, WritePlace, Zenon
    <3>2. Append(Queue, b)[k] = b   BY <1>1, <1>8, <2>2
    <3> QED  BY <1>6, <2>1, <3>1, <3>2 DEF RingInv
  <2>3. CASE k \in 1 .. Count
    <3>1. (nread + k - 1) % PIPESIZE # nwrite % PIPESIZE 
      <4>1. Count < PIPESIZE   BY <1>1, Consts
      <4> QED  BY <2>3, <4>1, OtherPlaces, Zenon
    <3>2. nread + k - 1 \in Nat   BY <1>1, Consts DEF RingInv
    <3>3. (nread + k - 1) % PIPESIZE \in 0 .. PIPESIZE - 1   BY <3>2, InRing, Zenon
    <3>4. Append(Queue, b)[k] = Queue[k]   BY <1>1, <1>8, <2>3
    <3>5. Queue[k] = data[(nread + k - 1) % PIPESIZE]   BY <2>3 DEF Queue
    <3>6. data'[(nread + k - 1) % PIPESIZE] = data[(nread + k - 1) % PIPESIZE]
      BY <3>1, <3>3, Zenon DEF RingInv
    <3> QED  BY <2>1, <3>4, <3>5, <3>6, Zenon
  <2>4. k = Count + 1 \/ k \in 1 .. Count   BY <1>1
  <2> QED  BY <2>2, <2>3, <2>4, Zenon
<1>10. Queue' = [k \in 1 .. Count + 1 |-> Queue'[k]]
  <2> DEFINE q(k) == data'[(nread' + k - 1) % PIPESIZE]
  <2>1. Queue' = [k \in 1 .. Count + 1 |-> q(k)]   BY <1>5 DEF Queue
  <2> HIDE DEF q
  <2> QED  BY <2>1
<1>11. Append(Queue, b) = [k \in 1 .. Count + 1 |-> Append(Queue, b)[k]]
  <2> DEFINE T == Bytes \union {NoByte}
             q == Append(Queue, b)
  <2>1. q \in Seq(T) /\ Len(q) = Count + 1   BY <1>1, <1>8
  <2> QED  BY <1>1, <2>1, SeqIsFunction
<1>12. Queue' = Append(Queue, b)   BY <1>9, <1>10, <1>11, Zenon
<1> QED  BY <1>1, <1>7, <1>8, <1>12, Consts

(* What piperead() does to the ring takes the first byte. *)
LEMMA GetByte ==
  ASSUME RingInv, ~Empty, nwrite' = nwrite, data' = data,
         nread' = (nread + 1) % Word
  PROVE  /\ RingInv' /\ Queue # <<>> /\ Queue' = Tail(Queue)
         /\ data[nread % PIPESIZE] = Head(Queue)
<1>1. Count \in 1 .. PIPESIZE   BY FullIs, Consts
<1>2. nread' = IF nread + 1 < Word THEN nread + 1 ELSE 0
  BY WrapNext, Consts, Zenon DEF RingInv
<1>3. nread' \in 0 .. Word - 1 /\ nwrite' \in 0 .. Word - 1   BY <1>2, Consts DEF RingInv
<1>4. Count' = IF nread' <= nwrite' THEN nwrite' - nread' ELSE nwrite' + Word - nread'
  BY <1>3, WrapDistance, Consts, Zenon DEF Count
<1>5. Count' = Count - 1   BY <1>1, <1>2, <1>4, CountIs, Consts DEF RingInv
<1>6. RingInv'   BY <1>1, <1>3, <1>5, Consts DEF RingInv
<1>7. Len(Queue) = Count /\ Queue \in Seq(Bytes \union {NoByte})   BY QueueSeq
<1>8. data[nread % PIPESIZE] = Head(Queue)
  <2>1. Head(Queue) = Queue[1]   BY <1>1, <1>7
  <2>2. Queue[1] = data[(nread + 1 - 1) % PIPESIZE]   BY <1>1 DEF Queue
  <2>3. nread + 1 - 1 = nread   BY Consts DEF RingInv
  <2> QED  BY <2>1, <2>2, <2>3, Zenon
<1>9. ASSUME NEW k \in 1 .. Count - 1 PROVE Queue'[k] = Tail(Queue)[k]
  <2>1. Queue'[k] = data[(nread' + k - 1) % PIPESIZE]   BY <1>5 DEF Queue
  <2>2. Tail(Queue)[k] = Queue[k + 1]   BY <1>1, <1>7
  <2>3. Queue[k + 1] = data[(nread + (k + 1) - 1) % PIPESIZE]   BY <1>1 DEF Queue
  <2>4. (nread' + k - 1) % PIPESIZE = (nread + (k + 1) - 1) % PIPESIZE
    <3>1. CASE nread + 1 < Word
      <4>1. nread' + k - 1 = nread + (k + 1) - 1   BY <1>1, <1>2, <3>1, Consts DEF RingInv
      <4> QED  BY <4>1, Zenon
    <3>2. CASE ~(nread + 1 < Word)
      <4> DEFINE a == nread' + k - 1
      <4>1. a \in Nat /\ nread + (k + 1) - 1 = a + Word
        BY <1>1, <1>2, <3>2, Consts DEF RingInv
      <4>2. (a + Word) % PIPESIZE = a % PIPESIZE   BY <4>1, AddMultiple, Consts, Zenon
      <4> QED  BY <4>1, <4>2, Zenon
    <3> QED  BY <3>1, <3>2
  <2> QED  BY <2>1, <2>2, <2>3, <2>4, Zenon
<1>10. Queue' = [k \in 1 .. Count - 1 |-> Queue'[k]]
  <2> DEFINE q(k) == data'[(nread' + k - 1) % PIPESIZE]
  <2>1. Queue' = [k \in 1 .. Count - 1 |-> q(k)]   BY <1>5 DEF Queue
  <2> HIDE DEF q
  <2> QED  BY <2>1
<1>11. Tail(Queue) = [k \in 1 .. Count - 1 |-> Tail(Queue)[k]]
  <2>1. Queue # <<>>   BY <1>1, <1>7
  <2>2. Tail(Queue) \in Seq(Bytes \union {NoByte}) /\ Len(Tail(Queue)) = Count - 1
    BY <1>1, <1>7, <2>1
  <2> QED  BY <1>1, <2>2, SeqIsFunction
<1>12. Queue' = Tail(Queue)   BY <1>9, <1>10, <1>11, Zenon
<1> QED  BY <1>1, <1>6, <1>7, <1>8, <1>12

-----------------------------------------------------------------------------
(* The steps of the pipe *)

(* What a step does to the ring: nothing, or what one of the lemmas says. *)
RingStep ==
  \/ UNCHANGED <<data, nread, nwrite, ch>>
  \/ /\ ~Full /\ UNCHANGED <<nread, ch>> /\ nwrite' = (nwrite + 1) % Word
     /\ \E b \in Bytes : data' = [data EXCEPT ![nwrite % PIPESIZE] = b]
  \/ /\ ~Empty /\ UNCHANGED <<nwrite, data>> /\ nread' = (nread + 1) % Word
     /\ ch' = data[nread % PIPESIZE]

LEMMA RingSteps == [Next]_vars => RingStep
<1> SUFFICES ASSUME [Next]_vars PROVE RingStep
  OBVIOUS
<1> USE DEF RingStep, pipeVars, openVars
<1>1. CASE UNCHANGED vars
  BY <1>1 DEF vars
<1>2. ASSUME NEW p \in Writers, Writing(p) PROVE RingStep
  BY <1>2, Zenon DEF Writing, WriteAcquire, WriteAbort, WriteCheck, WriteSleep, WriteDone, WriteByte
<1>3. ASSUME NEW p \in Readers, Reading(p) PROVE RingStep
  BY <1>3, Zenon
  DEF Reading, ReadAcquire, ReadAbort, ReadCheck, ReadSleep, ReadByte, ReadFault, ReadDone
<1>4. ASSUME NEW p, CloseWrite(p) \/ CloseRead(p) \/ Kill(p)
                    \/ \E n \in 0 .. MaxN : CallWrite(p, n) \/ CallRead(p, n)
      PROVE  RingStep
  BY <1>4, Zenon DEF CloseWrite, CloseRead, Kill, CallWrite, CallRead
<1> QED  BY <1>1, <1>2, <1>3, <1>4, Zenon DEF Next

LEMMA RingInit == Init => RingInv /\ Fifo!Init
<1> SUFFICES ASSUME Init PROVE RingInv /\ Fifo!Init
  OBVIOUS
<1>1. nread \in 0 .. Word - 1 /\ nwrite \in 0 .. Word - 1 /\ nread <= nwrite /\ nwrite - nread = 0
  BY Consts DEF Init
<1>2. Count = 0   BY <1>1, CountIs
<1>3. RingInv   BY <1>1, <1>2, Consts DEF Init, RingInv
<1>4. Queue = <<>>
  <2>1. Len(Queue) = 0 /\ Queue \in Seq(Bytes \union {NoByte})   BY <1>2, <1>3, QueueSeq
  <2> QED  BY <2>1
<1> QED  BY <1>3, <1>4 DEF Init, Fifo!Init

LEMMA RingNext ==
  ASSUME RingInv, [Next]_vars
  PROVE  RingInv' /\ [Fifo!Next]_(Fifo!vars)
<1>1. CASE UNCHANGED <<data, nread, nwrite, ch>>
  BY <1>1 DEF RingInv, Count, Queue, Fifo!vars
<1>2. ASSUME ~Full, UNCHANGED <<nread, ch>>, nwrite' = (nwrite + 1) % Word,
             NEW b \in Bytes, data' = [data EXCEPT ![nwrite % PIPESIZE] = b]
      PROVE  RingInv' /\ Fifo!Next
  <2>1. RingInv' /\ Len(Queue) < PIPESIZE /\ Queue' = Append(Queue, b)   BY <1>2, PutByte
  <2> QED  BY <1>2, <2>1 DEF Fifo!Next, Fifo!Put
<1>3. ASSUME ~Empty, UNCHANGED <<nwrite, data>>, nread' = (nread + 1) % Word,
             ch' = data[nread % PIPESIZE]
      PROVE  RingInv' /\ Fifo!Next
  <2>1. /\ RingInv' /\ Queue # <<>> /\ Queue' = Tail(Queue)
        /\ data[nread % PIPESIZE] = Head(Queue)
    BY <1>3, GetByte
  <2> QED  BY <1>3, <2>1 DEF Fifo!Next, Fifo!Get
<1> QED  BY RingSteps, <1>1, <1>2, <1>3 DEF RingStep

(* The pipe implements a bounded first-in first-out queue: bytes leave it   *)
(* in the order in which they came, none is lost, doubled or overwritten,   *)
(* for every PIPESIZE and every width of the counters that it divides.      *)
THEOREM PipeIsFifo == Spec => IsFifo
<1>1. Init => RingInv /\ Fifo!Init   BY RingInit
<1>2. RingInv /\ [Next]_vars => RingInv' /\ [Fifo!Next]_(Fifo!vars)   BY RingNext
<1> QED  BY <1>1, <1>2, PTL DEF Spec, IsFifo, Fifo!Spec
=============================================================================
