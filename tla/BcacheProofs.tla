---------------------------- MODULE BcacheProofs ----------------------------
(***************************************************************************)
(* The buffer cache keeps its counts, loses no buffer, and is a store of   *)
(* blocks, for every number of threads, blocks and buffers.                *)
(***************************************************************************)
EXTENDS Bcache, FiniteSetTheorems, WellFoundedInduction, TLAPS

(* A leaf is pure logic unless it cites SMT. *)
USE Zenon

-----------------------------------------------------------------------------
(* The list, and the buffer that bget() recycles *)

(* Every buffer has a place in the list. *)
LEMMA PlaceOfBuffer ==
  ASSUME TypeOK, LruInv, NEW i \in Bufs
  PROVE  PlaceOf(i) \in Bufs /\ lru[PlaceOf(i)] = i
<1>1. DOMAIN lru = Bufs   BY DEF TypeOK
<1>2. \E n \in Bufs : lru[n] = i   BY DEF LruInv
<1> QED  BY <1>1, <1>2 DEF PlaceOf

(* The loop from the end of the list finds an unused buffer if there is one. *)
LEMMA RecycledUnused ==
  ASSUME TypeOK, LruInv, Unused # {}
  PROVE  Recycled \in Unused
<1> DEFINE D == {NBUF - PlaceOf(i) : i \in Unused}
<1>1. \A i \in Unused : PlaceOf(i) \in 1 .. NBUF   BY PlaceOfBuffer DEF Unused, Bufs
<1>2. D \subseteq Nat /\ D # {}   BY <1>1, BcacheAssumption, SMT
<1>3. \E x \in D : \A y \in D : ~(<<y, x>> \in OpToRel(<, Nat))
  <2> HIDE DEF D
  <2> QED  BY <1>2, NatLessThanWellFounded, WFMin
<1>4. PICK x \in D : \A y \in D : ~(y < x)
  BY <1>2, <1>3 DEF OpToRel
<1>5. PICK i \in Unused : x = NBUF - PlaceOf(i)   OBVIOUS
<1>6. \A j \in Unused : PlaceOf(i) >= PlaceOf(j)
  <2> TAKE j \in Unused
  <2>1. ~(NBUF - PlaceOf(j) < NBUF - PlaceOf(i))   BY <1>4, <1>5
  <2> QED  BY <1>1, <2>1, BcacheAssumption, SMT
<1> QED  BY <1>6 DEF Recycled

(* Moving a buffer to the front keeps every buffer on the list. *)
LEMMA MoveKeeps ==
  ASSUME TypeOK, LruInv, NEW i \in Bufs, lru' = MoveToFront(i)
  PROVE  lru' \in [Bufs -> Bufs] /\ LruInv'
<1>1. DOMAIN lru = Bufs /\ PlaceOf(i) \in Bufs /\ lru[PlaceOf(i)] = i
  BY PlaceOfBuffer DEF TypeOK
<1> DEFINE p == PlaceOf(i)
<1>2. lru' = [n \in Bufs |-> IF n = 1 THEN i ELSE IF n <= p THEN lru[n - 1] ELSE lru[n]]
  BY <1>1 DEF MoveToFront
<1> HIDE DEF p
<1>3. p \in 1 .. NBUF /\ NBUF \in Nat   BY <1>1, BcacheAssumption DEF p, Bufs
<1>4. \A n \in Bufs : n # 1 /\ n <= p => n - 1 \in Bufs   BY <1>3, SMT DEF Bufs
<1>5. lru' \in [Bufs -> Bufs]   BY <1>2, <1>4, SMT DEF TypeOK
<1>6. ASSUME NEW j \in Bufs PROVE \E n \in Bufs : lru'[n] = j
  <2>1. CASE j = i
    <3>1. 1 \in Bufs   BY <1>3, SMT DEF Bufs
    <3> QED  BY <1>2, <2>1, <3>1
  <2>2. CASE j # i
    <3>1. PICK m \in Bufs : lru[m] = j   BY DEF LruInv
    <3>2. m # p   BY <1>1, <2>2, <3>1 DEF p
    <3>3. CASE m < p
      <4>1. m + 1 \in Bufs /\ m + 1 # 1 /\ m + 1 <= p /\ (m + 1) - 1 = m
        BY <1>3, <3>3, SMT DEF Bufs
      <4>2. lru'[m + 1] = lru[m]   BY <1>2, <4>1
      <4> QED  BY <3>1, <4>1, <4>2
    <3>4. CASE m > p
      <4>1. m # 1 /\ ~(m <= p)   BY <1>3, <3>4, SMT DEF Bufs
      <4> QED  BY <1>2, <3>1, <4>1
    <3> QED  BY <1>3, <3>2, <3>3, <3>4, SMT DEF Bufs
  <2> QED  BY <2>1, <2>2
<1> QED  BY <1>5, <1>6 DEF LruInv

-----------------------------------------------------------------------------
(* The values of the blocks and their holders *)

(* A step that BlockStore does not see. *)
Unseen == Val' = Val /\ disk' = disk /\ pinned' = pinned /\ Holder' = Holder

(* Whether bcache.lock is stuck, after a step of one handle. *)
LEMMA UpNext ==
  ASSUME IInv, NEW h \in Handles, NEW l, pc' = [pc EXCEPT ![h] = l], l # "panic"
  PROVE  Up => Up'
BY DEF Up, IInv, TypeOK

(* A step that returns no reference leaves a full cache full. *)
LEMMA FullNext ==
  ASSUME IInv, ~Up' => ~Up, \A i \in Bufs : buf'[i].refcnt = buf[i].refcnt
  PROVE  FullInv'
<1>1. Unused' = Unused   BY DEF Unused
<1> QED  BY <1>1 DEF IInv, FullInv

(* The value of a block is in its buffer if it has been read, else on disk. *)
LEMMA ValIs ==
  ASSUME TypeOK, BlockInv
  PROVE  /\ Val = [b \in Blocks |-> Val[b]]
         /\ \A i \in Bufs : buf[i].blockno \in Blocks /\ buf[i].valid
                             => Val[buf[i].blockno] = buf[i].data
         /\ \A b \in Blocks : (\A i \in Bufs : ~(buf[i].blockno = b /\ buf[i].valid))
                               => Val[b] = disk[b]
<1>1. ASSUME NEW i \in Bufs, buf[i].blockno \in Blocks, buf[i].valid
      PROVE  Val[buf[i].blockno] = buf[i].data
  <2>1. Cached(buf[i].blockno) = {i}   BY <1>1, SMT DEF Cached, BlockInv
  <2> QED  BY <1>1, <2>1 DEF Val
<1>2. ASSUME NEW b \in Blocks, \A i \in Bufs : ~(buf[i].blockno = b /\ buf[i].valid)
      PROVE  Val[b] = disk[b]
  BY <1>2 DEF Val, Cached
<1>3. Val = [b \in Blocks |-> Val[b]]   BY SMT DEF Val
<1> QED  BY <1>1, <1>2, <1>3

(* A handle that holds a block is its holder, the only one. *)
LEMMA HolderIs ==
  ASSUME TypeOK, HandleInv, BlockInv
  PROVE  /\ Holder = [b \in Blocks |-> Holder[b]]
         /\ \A h \in Handles : pc[h] = "held" => Holder[buf[use[h]].blockno] = h
         /\ \A b \in Blocks :
              (\A h \in Handles : ~(pc[h] = "held" /\ buf[use[h]].blockno = b))
                => Holder[b] = NoThread
<1>1. ASSUME NEW h \in Handles, pc[h] = "held"
      PROVE  Holder[buf[use[h]].blockno] = h
  <2>1. buf[use[h]].blockno \in Blocks   BY <1>1 DEF HandleInv
  <2>2. ASSUME NEW g \in Handles, pc[g] = "held", buf[use[g]].blockno = buf[use[h]].blockno
        PROVE  g = h
    <3>1. use[h] \in Bufs /\ use[g] \in Bufs   BY <1>1, <2>2 DEF TypeOK, HandleInv
    <3>2. use[g] = use[h]   BY <2>1, <2>2, <3>1 DEF BlockInv
    <3> QED  BY <1>1, <2>2, <3>2 DEF HandleInv
  <2> QED  BY <1>1, <2>1, <2>2 DEF Holder
<1> QED  BY <1>1 DEF Holder

(* The same for the state after a step. *)
LEMMA ValNext ==
  ASSUME IInv'
  PROVE  /\ Val' = [b \in Blocks |-> Val'[b]]
         /\ \A i \in Bufs : buf'[i].blockno \in Blocks /\ buf'[i].valid
                             => Val'[buf'[i].blockno] = buf'[i].data
         /\ \A b \in Blocks : (\A i \in Bufs : ~(buf'[i].blockno = b /\ buf'[i].valid))
                               => Val'[b] = disk'[b]
<1>1. (/\ Val = [b \in Blocks |-> Val[b]]
       /\ \A i \in Bufs : buf[i].blockno \in Blocks /\ buf[i].valid
                           => Val[buf[i].blockno] = buf[i].data
       /\ \A b \in Blocks : (\A i \in Bufs : ~(buf[i].blockno = b /\ buf[i].valid))
                             => Val[b] = disk[b])'
  <2>1. TypeOK' /\ BlockInv'   BY DEF IInv
  <2> QED  BY <2>1, ValIs, PTL
<1> QED  BY <1>1

(* A step changes the value of no block if the buffers keep their blocks   *)
(* and contents, or get them from the disk, and the disk is written only   *)
(* where a buffer has the contents.                                        *)
LEMMA SameVal ==
  ASSUME IInv, IInv',
         \A i \in Bufs : /\ buf'[i].blockno = buf[i].blockno
                         /\ \/ buf[i].valid /\ buf'[i].valid /\ buf'[i].data = buf[i].data
                            \/ ~buf[i].valid /\ buf'[i].valid
                               /\ buf'[i].data = disk[buf[i].blockno]
                            \/ ~buf[i].valid /\ ~buf'[i].valid,
         \A b \in Blocks : \/ disk'[b] = disk[b]
                           \/ \E i \in Bufs : buf[i].blockno = b /\ buf[i].valid
  PROVE  Val' = Val
<1>1. ASSUME NEW b \in Blocks PROVE Val'[b] = Val[b]
  <2>1. ASSUME NEW i \in Bufs, buf'[i].blockno = b, buf'[i].valid
        PROVE  Val'[b] = Val[b]
    <3>1. Val'[b] = buf'[i].data /\ buf[i].blockno = b   BY <2>1, ValNext
    <3>2. CASE buf[i].valid
      <4>1. Val[b] = buf[i].data   BY <3>1, <3>2, ValIs DEF IInv
      <4> QED  BY <3>1, <3>2, <4>1
    <3>3. CASE ~buf[i].valid
      <4>1. \A j \in Bufs : ~(buf[j].blockno = b /\ buf[j].valid)
        BY <3>1, <3>3 DEF IInv, BlockInv
      <4>2. Val[b] = disk[b]   BY <4>1, ValIs DEF IInv
      <4> QED  BY <2>1, <3>1, <3>3, <4>2
    <3> QED  BY <3>2, <3>3
  <2>2. ASSUME \A i \in Bufs : ~(buf'[i].blockno = b /\ buf'[i].valid)
        PROVE  Val'[b] = Val[b]
    <3>1. \A i \in Bufs : ~(buf[i].blockno = b /\ buf[i].valid)   BY <2>2
    <3>2. Val[b] = disk[b] /\ Val'[b] = disk'[b]   BY <2>2, <3>1, ValIs, ValNext DEF IInv
    <3> QED  BY <3>1, <3>2
  <2> QED  BY <2>1, <2>2
<1>2. Val = [b \in Blocks |-> Val[b]] /\ Val' = [b \in Blocks |-> Val'[b]]
  BY ValIs, ValNext DEF IInv
<1> QED  BY <1>1, <1>2

(* In particular a step that leaves both alone. *)
LEMMA SameData ==
  ASSUME IInv, IInv', disk' = disk,
         \A i \in Bufs : /\ buf'[i].blockno = buf[i].blockno
                         /\ buf'[i].valid = buf[i].valid /\ buf'[i].data = buf[i].data
  PROVE  Val' = Val
<1>1. \A i \in Bufs : \/ buf[i].valid /\ buf'[i].valid
                      \/ ~buf[i].valid /\ ~buf'[i].valid
  BY DEF IInv, TypeOK, Buffers
<1> QED  BY <1>1, SameVal

(* What a step makes of the holders, from who holds which block. *)
LEMMA HolderNext ==
  ASSUME IInv'
  PROVE  /\ Holder' = [b \in Blocks |-> Holder'[b]]
         /\ \A h \in Handles : pc'[h] = "held" => Holder'[buf'[use'[h]].blockno] = h
         /\ \A b \in Blocks :
              (\A h \in Handles : ~(pc'[h] = "held" /\ buf'[use'[h]].blockno = b))
                => Holder'[b] = NoThread
<1>1. (/\ Holder = [b \in Blocks |-> Holder[b]]
       /\ \A h \in Handles : pc[h] = "held" => Holder[buf[use[h]].blockno] = h
       /\ \A b \in Blocks :
            (\A h \in Handles : ~(pc[h] = "held" /\ buf[use[h]].blockno = b))
              => Holder[b] = NoThread)'
  <2>1. TypeOK' /\ HandleInv' /\ BlockInv'   BY DEF IInv
  <2> QED  BY <2>1, HolderIs, PTL
<1> QED  BY <1>1

LEMMA SameHolder ==
  ASSUME IInv, IInv',
         \A h \in Handles : pc'[h] = "held" <=> pc[h] = "held",
         \A h \in Handles : pc[h] = "held" => buf'[use'[h]].blockno = buf[use[h]].blockno
  PROVE  Holder' = Holder
<1>1. ASSUME NEW b \in Blocks PROVE Holder'[b] = Holder[b]
  <2>1. ASSUME NEW h \in Handles, pc[h] = "held", buf[use[h]].blockno = b
        PROVE  Holder'[b] = Holder[b]
    BY <2>1, HolderIs, HolderNext DEF IInv
  <2>2. ASSUME \A h \in Handles : ~(pc[h] = "held" /\ buf[use[h]].blockno = b)
        PROVE  Holder'[b] = Holder[b]
    BY <2>2, HolderIs, HolderNext DEF IInv
  <2> QED  BY <2>1, <2>2
<1>2. Holder = [b \in Blocks |-> Holder[b]]   BY HolderIs DEF IInv
<1> QED  BY <1>1, <1>2, HolderNext

-----------------------------------------------------------------------------
(* bget() and bread() *)

(* The handles are finitely many. *)
LEMMA HandlesFinite == IsFiniteSet(Handles) /\ Cardinality(Handles) \in Nat
<1>1. IsFiniteSet(Handles)   BY BcacheAssumption, FS_Product DEF Handles
<1> QED  BY <1>1, FS_CardinalityType

(* A reference is counted when a thread starts to use a buffer. *)
LEMMA OneMoreUser ==
  ASSUME IInv, NEW h \in Handles, use[h] = 0, NEW i \in Bufs,
         use' = [use EXCEPT ![h] = i]
  PROVE  /\ Cardinality(UsersOf(i)') = Cardinality(UsersOf(i)) + 1
         /\ Cardinality(UsersOf(i)) \in Nat
         /\ \A j \in Bufs \ {i} : UsersOf(j)' = UsersOf(j)
<1>1. IsFiniteSet(UsersOf(i))   BY HandlesFinite, FS_Subset DEF UsersOf
<1>2. 0 \notin Bufs   BY SMT DEF Bufs
<1>3. UsersOf(i)' = UsersOf(i) \union {h} /\ h \notin UsersOf(i)   BY <1>2, SMT DEF UsersOf, IInv, TypeOK
<1>4. \A j \in Bufs \ {i} : UsersOf(j)' = UsersOf(j)   BY <1>2 DEF UsersOf, IInv, TypeOK
<1>5. Cardinality(UsersOf(i) \union {h}) = Cardinality(UsersOf(i)) + 1
  BY <1>1, <1>3, FS_AddElement
<1> QED  BY <1>1, <1>3, <1>4, <1>5, FS_CardinalityType

(* bget() finding the block takes a reference. *)
LEMMA BgetHitStep ==
  ASSUME IInv, NEW h \in Handles, NEW b \in Blocks, BgetHit(h, b)
  PROVE  IInv' /\ Unseen
<1>1. PICK i \in Bufs : /\ buf[i].blockno = b
                        /\ buf' = [buf EXCEPT ![i].refcnt = @ + 1]
                        /\ use' = [use EXCEPT ![h] = i]
  BY DEF BgetHit, Cached
<1>2. /\ Up /\ pc[h] = "idle" /\ pc' = [pc EXCEPT ![h] = "lock"]
      /\ disk' = disk /\ lru' = lru /\ pinned' = pinned
  BY DEF BgetHit, Asks, Goto
<1>3. /\ buf' \in [Bufs -> Buffers] /\ buf'[i].refcnt = buf[i].refcnt + 1
      /\ \A j \in Bufs : /\ buf'[j].blockno = buf[j].blockno /\ buf'[j].valid = buf[j].valid
                         /\ buf'[j].data = buf[j].data /\ buf'[j].owner = buf[j].owner
                         /\ j # i => buf'[j].refcnt = buf[j].refcnt
  <2>1. buf \in [Bufs -> Buffers] /\ buf[i].refcnt \in Nat   BY DEF IInv, TypeOK, Buffers
  <2>2. PICK n \in Nat : n = buf[i].refcnt + 1   BY <2>1, SMT
  <2>3. buf' = [buf EXCEPT ![i].refcnt = n]   BY <1>1, <2>2
  <2> QED  BY <2>1, <2>2, <2>3, SMT DEF Buffers
<1>4. use[h] = 0 /\ 0 \notin Bufs   BY <1>2, SMT DEF IInv, HandleInv, Bufs
<1>5. TypeOK' /\ LruInv'   BY <1>1, <1>2, <1>3 DEF IInv, TypeOK, LruInv
<1>6. HandleInv'   BY <1>1, <1>2, <1>3, <1>4, SMT DEF IInv, TypeOK, HandleInv
<1>7. OwnerInv'
  <2>1. \A j \in Bufs : buf[j].owner \in Handles \union {NoThread}   BY DEF IInv, TypeOK, Buffers
  <2> QED  BY <1>1, <1>2, <1>3, <1>4, <2>1, SMT DEF IInv, TypeOK, OwnerInv
<1>8. RefInv'
  <2>1. /\ Cardinality(UsersOf(i)') = Cardinality(UsersOf(i)) + 1
        /\ Cardinality(UsersOf(i)) \in Nat
        /\ \A j \in Bufs \ {i} : UsersOf(j)' = UsersOf(j)
    BY <1>1, <1>4, OneMoreUser
  <2>2. \A j \in Bufs : Pin(j)' = Pin(j) /\ Pin(j) \in {0, 1}   BY <1>2, <1>3 DEF Pin
  <2>3. buf'[i].refcnt = Cardinality(UsersOf(i)') + Pin(i)'
    BY <1>3, <2>1, <2>2, SMT DEF IInv, RefInv
  <2>4. \A j \in Bufs \ {i} : buf'[j].refcnt = Cardinality(UsersOf(j)') + Pin(j)'
    BY <1>3, <2>1, <2>2 DEF IInv, RefInv
  <2> QED  BY <2>3, <2>4 DEF RefInv
<1>9. BlockInv'   BY <1>2, <1>3, SMT DEF IInv, BlockInv
<1>10. IInv'
  <2>1. FullInv'   BY <1>2, UpNext DEF FullInv
  <2> QED  BY <1>5, <1>6, <1>7, <1>8, <1>9, <2>1 DEF IInv
<1>11. Val' = Val   BY <1>2, <1>3, <1>10, SameData
<1>12. Holder' = Holder
  <2>1. \A g \in Handles : pc'[g] = "held" <=> pc[g] = "held"   BY <1>2 DEF IInv, TypeOK
  <2>2. \A g \in Handles : pc[g] = "held" => buf'[use'[g]].blockno = buf[use[g]].blockno
    BY <1>1, <1>2, <1>3, SMT DEF IInv, TypeOK, HandleInv
  <2> QED  BY <1>10, <2>1, <2>2, SameHolder
<1> QED  BY <1>2, <1>10, <1>11, <1>12 DEF Unseen

(* bget() recycling a buffer: nobody uses it, and the log does not, so the *)
(* block that was in it may fall back to what is on disk.                  *)
LEMMA BgetRecycleStep ==
  ASSUME IInv, NEW h \in Handles, NEW b \in Blocks, BgetRecycle(h, b)
  PROVE  IInv' /\ [Store!Next]_(Store!vars)
<1>1. PICK i \in Bufs : i = Recycled /\ buf[i].refcnt = 0
  <2>1. Recycled \in Unused   BY RecycledUnused DEF BgetRecycle, IInv
  <2> QED  BY <2>1 DEF Unused
<1>2. /\ Up /\ pc[h] = "idle" /\ pc' = [pc EXCEPT ![h] = "lock"] /\ use' = [use EXCEPT ![h] = i]
      /\ disk' = disk /\ lru' = lru /\ pinned' = pinned
      /\ \A j \in Bufs : buf[j].blockno # b
  BY <1>1 DEF BgetRecycle, Asks, Goto, Cached
<1>3. /\ buf' \in [Bufs -> Buffers]
      /\ buf'[i].blockno = b /\ ~buf'[i].valid /\ buf'[i].refcnt = 1
      /\ buf'[i].owner = buf[i].owner
      /\ \A j \in Bufs \ {i} : buf'[j] = buf[j]
  <2>1. buf' = [buf EXCEPT ![i] = [@ EXCEPT !.blockno = b, !.valid = FALSE, !.refcnt = 1]]
    BY <1>1 DEF BgetRecycle, Reused
  <2> QED  BY <2>1, ZenonT(60) DEF IInv, TypeOK, Buffers
<1>4. use[h] = 0 /\ 0 \notin Bufs   BY <1>2, SMT DEF IInv, HandleInv, Bufs
<1>5. UsersOf(i) = {} /\ buf[i].blockno \notin pinned
  <2>1. IsFiniteSet(UsersOf(i))   BY HandlesFinite, FS_Subset DEF UsersOf
  <2>2. Cardinality(UsersOf(i)) \in Nat   BY <2>1, FS_CardinalityType
  <2>3. Pin(i) \in {0, 1}   BY DEF Pin
  <2>4. Cardinality(UsersOf(i)) = 0 /\ Pin(i) = 0   BY <1>1, <2>2, <2>3, SMT DEF IInv, RefInv
  <2> QED  BY <2>1, <2>4, FS_EmptySet, SMT DEF Pin
<1>6. \A g \in Handles : use[g] # i   BY <1>5 DEF UsersOf
<1>7. buf[i].owner = NoThread
  <2>1. buf[i].owner \in Handles \union {NoThread}   BY DEF IInv, TypeOK, Buffers
  <2> QED  BY <1>6, <2>1 DEF IInv, OwnerInv
<1>8. TypeOK' /\ LruInv'   BY <1>2, <1>3 DEF IInv, TypeOK, LruInv
<1>9. HandleInv'
  <2>1. ASSUME NEW g \in Handles, g # h, use[g] # 0
        PROVE  buf'[use[g]] = buf[use[g]]
    BY <1>3, <1>6, <2>1, ZenonT(60) DEF IInv, TypeOK, HandleInv
  <2> QED  BY <1>2, <1>3, <1>4, <2>1, SMT DEF IInv, TypeOK, HandleInv
<1>10. OwnerInv'
  <2>1. \A j \in Bufs : buf[j].owner \in Handles \union {NoThread}   BY DEF IInv, TypeOK, Buffers
  <2> QED  BY <1>2, <1>3, <1>4, <1>7, <2>1, SMT DEF IInv, TypeOK, OwnerInv
<1>11. b \notin pinned   BY <1>2 DEF IInv, BlockInv
<1>12. RefInv'
  <2>1. /\ Cardinality(UsersOf(i)') = Cardinality(UsersOf(i)) + 1
        /\ \A j \in Bufs \ {i} : UsersOf(j)' = UsersOf(j)
    BY <1>2, <1>4, OneMoreUser
  <2>2. Cardinality(UsersOf(i)') = 1   BY <2>1, <1>5, FS_EmptySet, SMT
  <2>3. Pin(i)' = 0 /\ \A j \in Bufs \ {i} : Pin(j)' = Pin(j)   BY <1>2, <1>3, <1>11 DEF Pin
  <2>4. \A j \in Bufs \ {i} : buf'[j].refcnt = Cardinality(UsersOf(j)') + Pin(j)'
    BY <1>3, <2>1, <2>3 DEF IInv, RefInv
  <2> QED  BY <1>3, <2>2, <2>3, <2>4, SMT DEF RefInv
<1>13. BlockInv'
  <2>1. \A c \in pinned : \E j \in Bufs \ {i} : buf[j].blockno = c /\ buf[j].valid
    BY <1>5, SMT DEF IInv, BlockInv
  <2>2. \A j, k \in Bufs : buf'[j].blockno \in Blocks /\ buf'[j].blockno = buf'[k].blockno => j = k
    BY <1>2, <1>3, SMT DEF IInv, BlockInv
  <2> QED  BY <1>2, <1>3, <2>1, <2>2, SMT DEF IInv, BlockInv
<1>14. IInv'
  <2>1. FullInv'   BY <1>2, UpNext DEF FullInv
  <2> QED  BY <1>8, <1>9, <1>10, <1>12, <1>13, <2>1 DEF IInv
<1>15. Holder' = Holder
  <2>1. \A g \in Handles : pc'[g] = "held" <=> pc[g] = "held"   BY <1>2 DEF IInv, TypeOK
  <2>2. \A g \in Handles : pc[g] = "held" => buf'[use'[g]].blockno = buf[use[g]].blockno
    BY <1>2, <1>3, <1>6, SMT DEF IInv, TypeOK, HandleInv
  <2> QED  BY <1>14, <2>1, <2>2, SameHolder
<1>16. ASSUME NEW c \in Blocks
       PROVE  Val'[c] = IF c = buf[i].blockno THEN disk[c] ELSE Val[c]
  <2>1. CASE c = b \/ c = buf[i].blockno
    <3>1. \A j \in Bufs : ~(buf'[j].blockno = c /\ buf'[j].valid)
      BY <1>2, <1>3, <2>1, SMT DEF IInv, BlockInv
    <3>2. Val'[c] = disk[c]   BY <1>2, <1>14, <3>1, ValNext
    <3>3. c # buf[i].blockno => Val[c] = disk[c]   BY <1>2, <2>1, ValIs DEF IInv
    <3> QED  BY <3>2, <3>3
  <2>2. CASE c # b /\ c # buf[i].blockno
    <3>1. ASSUME NEW j \in Bufs, buf[j].blockno = c, buf[j].valid PROVE Val'[c] = Val[c]
      <4>1. j # i /\ buf'[j] = buf[j]   BY <1>3, <2>2, <3>1
      <4>2. Val[c] = buf[j].data   BY <3>1, ValIs DEF IInv
      <4>3. Val'[c] = buf'[j].data   BY <1>14, <3>1, <4>1, ValNext
      <4> QED  BY <4>1, <4>2, <4>3
    <3>2. ASSUME \A j \in Bufs : ~(buf[j].blockno = c /\ buf[j].valid) PROVE Val'[c] = Val[c]
      <4>1. \A j \in Bufs : ~(buf'[j].blockno = c /\ buf'[j].valid)   BY <1>3, <2>2, <3>2
      <4> QED  BY <1>2, <1>14, <3>2, <4>1, ValIs, ValNext DEF IInv
    <3> QED  BY <2>2, <3>1, <3>2
  <2> QED  BY <2>1, <2>2
<1>17. Val = [c \in Blocks |-> Val[c]] /\ Val' = [c \in Blocks |-> Val'[c]]
  BY <1>14, ValIs, ValNext DEF IInv
<1>18. CASE buf[i].blockno \notin Blocks
  <2>1. Val' = Val   BY <1>16, <1>17, <1>18
  <2> QED  BY <1>2, <1>14, <1>15, <2>1 DEF Store!vars
<1>19. CASE buf[i].blockno \in Blocks
  <2>1. PICK c \in Blocks : c = buf[i].blockno   BY <1>19
  <2>2. \A g \in Handles : ~(pc[g] = "held" /\ buf[use[g]].blockno = c)
    <3> SUFFICES ASSUME NEW g \in Handles, pc[g] = "held", buf[use[g]].blockno = c
                 PROVE  FALSE
      OBVIOUS
    <3>1. use[g] \in Bufs   BY DEF IInv, TypeOK, HandleInv
    <3>2. use[g] = i   BY <2>1, <3>1 DEF IInv, BlockInv
    <3> QED  BY <1>6, <3>2
  <2>3. Holder[c] = NoThread   BY <2>2, HolderIs DEF IInv
  <2>4. Val' = [Val EXCEPT ![c] = disk[c]]   BY <1>16, <1>17, <2>1
  <2>5. Store!Forget(c)   BY <1>2, <1>5, <1>15, <2>1, <2>3, <2>4 DEF Store!Forget
  <2> QED  BY <1>14, <2>5 DEF Store!Next
<1> QED  BY <1>18, <1>19

(* bget() without a buffer: the cache is full, and stays so. *)
LEMMA BgetPanicStep ==
  ASSUME IInv, NEW h \in Handles, NEW b \in Blocks, BgetPanic(h, b)
  PROVE  IInv' /\ Unseen
<1>1. /\ pc[h] = "idle" /\ pc' = [pc EXCEPT ![h] = "panic"] /\ Unused = {}
      /\ disk' = disk /\ buf' = buf /\ lru' = lru /\ pinned' = pinned /\ use' = use
  BY DEF BgetPanic, Asks, Goto
<1>2. TypeOK' /\ LruInv' /\ BlockInv'   BY <1>1 DEF IInv, TypeOK, LruInv, BlockInv
<1>3. HandleInv'   BY <1>1 DEF IInv, TypeOK, HandleInv
<1>4. OwnerInv'
  <2>1. \A j \in Bufs : buf[j].owner \in Handles \union {NoThread}   BY DEF IInv, TypeOK, Buffers
  <2> QED  BY <1>1, <2>1 DEF IInv, TypeOK, OwnerInv
<1>5. RefInv' /\ FullInv'   BY <1>1 DEF IInv, RefInv, UsersOf, Pin, FullInv, Unused
<1>6. IInv'        BY <1>2, <1>3, <1>4, <1>5 DEF IInv
<1>7. Val' = Val   BY <1>1, SMT DEF Val, Cached
<1>8. Holder' = Holder
  <2>1. \A g \in Handles : pc'[g] = "held" <=> pc[g] = "held"   BY <1>1 DEF IInv, TypeOK
  <2> QED  BY <1>1, <1>6, <2>1, SameHolder
<1> QED  BY <1>1, <1>6, <1>7, <1>8 DEF Unseen

(* A thread that comes to hold its block finds it free. *)
LEMMA HoldStep ==
  ASSUME IInv, IInv', NEW h \in Handles, pc[h] \in {"lock", "read"},
         pc' = [pc EXCEPT ![h] = "held"], use' = use, Val' = Val, disk' = disk, pinned' = pinned,
         \A i \in Bufs : buf'[i].blockno = buf[i].blockno
  PROVE  Store!Acquire(h, buf[use[h]].blockno)
<1>1. \A g \in Handles : pc[g] \notin {"idle", "panic"} => use[g] \in Bufs
  BY SMT DEF IInv, TypeOK, HandleInv
<1>2. PICK b \in Blocks : b = buf[use[h]].blockno   BY DEF IInv, HandleInv
<1>3. pc'[h] = "held" /\ \A g \in Handles : g # h => pc'[g] = pc[g]   BY DEF IInv, TypeOK
<1>4. ASSUME NEW g \in Handles, pc[g] = "held" PROVE buf[use[g]].blockno # b
  <2>1. g # h /\ buf'[use[g]].owner = g /\ buf'[use[h]].owner = h
    BY <1>3, <1>4, SMT DEF IInv, HandleInv
  <2>2. use[g] # use[h]   BY <2>1
  <2> QED  BY <1>1, <1>2, <1>4, <2>2 DEF IInv, BlockInv
<1>5. Holder[b] = NoThread   BY <1>4, HolderIs DEF IInv
<1>6. Holder'[b] = h   BY <1>1, <1>2, <1>3, HolderNext
<1>7. ASSUME NEW c \in Blocks, c # b PROVE Holder'[c] = Holder[c]
  <2>1. ASSUME NEW g \in Handles, pc[g] = "held", buf[use[g]].blockno = c
        PROVE  Holder'[c] = Holder[c]
    <3>1. Holder[c] = g   BY <2>1, HolderIs DEF IInv
    <3>2. pc'[g] = "held" /\ buf'[use'[g]].blockno = c   BY <1>1, <1>3, <2>1
    <3>3. Holder'[c] = g   BY <3>2, HolderNext
    <3> QED  BY <3>1, <3>3
  <2>2. ASSUME \A g \in Handles : ~(pc[g] = "held" /\ buf[use[g]].blockno = c)
        PROVE  Holder'[c] = Holder[c]
    <3>1. Holder[c] = NoThread   BY <2>2, HolderIs DEF IInv
    <3>2. \A g \in Handles : ~(pc'[g] = "held" /\ buf'[use'[g]].blockno = c)
      BY <1>1, <1>2, <1>3, <1>7, <2>2
    <3>3. Holder'[c] = NoThread   BY <3>2, HolderNext
    <3> QED  BY <3>1, <3>3
  <2> QED  BY <2>1, <2>2
<1>8. Holder = [c \in Blocks |-> Holder[c]] /\ Holder' = [c \in Blocks |-> Holder'[c]]
  BY HolderIs, HolderNext DEF IInv
<1>9. Holder' = [Holder EXCEPT ![b] = h]   BY <1>6, <1>7, <1>8
<1> QED  BY <1>2, <1>5, <1>9 DEF Store!Acquire

(* acquiresleep() takes a free lock, or sleeps on one that is held; with a *)
(* buffer that has its contents, the thread holds the block.               *)
LEMMA AcquiresleepStep ==
  ASSUME IInv, NEW h \in Handles, Acquiresleep(h)
  PROVE  IInv' /\ [Store!Next]_(Store!vars)
<1>1. PICK i \in Bufs : i = use[h]   BY DEF Acquiresleep, IInv, TypeOK, HandleInv
<1>2. pc[h] = "lock" /\ disk' = disk /\ lru' = lru /\ pinned' = pinned /\ use' = use
  BY DEF Acquiresleep
<1>3. CASE buf[i].owner # NoThread
  <2>1. buf' = buf /\ pc' = [pc EXCEPT ![h] = "asleep"]
    BY <1>1, <1>3 DEF Acquiresleep, Goto
  <2>2. TypeOK' /\ LruInv' /\ BlockInv'
    BY <1>2, <2>1 DEF IInv, TypeOK, LruInv, BlockInv
  <2>3. HandleInv'   BY <1>1, <1>2, <1>3, <2>1 DEF IInv, TypeOK, HandleInv
  <2>4. OwnerInv'
    <3>1. \A j \in Bufs : buf[j].owner \in Handles \union {NoThread}   BY DEF IInv, TypeOK, Buffers
    <3> QED  BY <1>2, <2>1, <3>1 DEF IInv, TypeOK, OwnerInv
  <2>5. RefInv'      BY <1>2, <2>1 DEF IInv, RefInv, UsersOf, Pin
  <2>6. IInv'
    <3>1. FullInv'   BY <2>1, UpNext, FullNext
    <3> QED  BY <2>2, <2>3, <2>4, <2>5, <3>1 DEF IInv
  <2>7. Val' = Val   BY <1>2, <2>1, SMT DEF Val, Cached
  <2>8. Holder' = Holder
    <3>1. \A g \in Handles : pc'[g] = "held" <=> pc[g] = "held"   BY <1>2, <2>1 DEF IInv, TypeOK
    <3> QED  BY <1>2, <2>1, <2>6, <3>1, SameHolder
  <2> QED  BY <1>2, <2>6, <2>7, <2>8 DEF Store!vars
<1>4. CASE buf[i].owner = NoThread
  <2>1. /\ buf' = [buf EXCEPT ![i].owner = h]
        /\ pc' = [pc EXCEPT ![h] = IF buf[i].valid THEN "held" ELSE "read"]
    BY <1>1, <1>4 DEF Acquiresleep, Goto
  <2>2. /\ buf' \in [Bufs -> Buffers] /\ buf'[i].owner = h
        /\ \A j \in Bufs : /\ buf'[j].blockno = buf[j].blockno /\ buf'[j].valid = buf[j].valid
                           /\ buf'[j].data = buf[j].data /\ buf'[j].refcnt = buf[j].refcnt
                           /\ j # i => buf'[j].owner = buf[j].owner
    BY <2>1, SMT DEF IInv, TypeOK, Buffers
  <2>3. TypeOK' /\ LruInv'   BY <1>2, <2>1, <2>2 DEF IInv, TypeOK, LruInv
  <2>4. HandleInv'
    <3>1. \A g \in Handles : g # h => pc'[g] = pc[g]   BY <2>1 DEF IInv, TypeOK
    <3>2. \A g \in Handles : pc[g] \in {"read", "held", "asleep"} => use[g] # i
      BY <1>4, BcacheAssumption DEF IInv, HandleInv
    <3>3. \A g \in Handles : pc[g] \notin {"idle", "panic"} => use[g] \in Bufs
      BY DEF IInv, TypeOK, HandleInv
    <3>4. pc'[h] = IF buf[i].valid THEN "held" ELSE "read"   BY <2>1 DEF IInv, TypeOK
    <3> QED  BY <1>1, <1>2, <2>2, <3>1, <3>2, <3>3, <3>4, SMT DEF IInv, HandleInv
  <2>5. OwnerInv'
    <3>1. \A j \in Bufs : buf[j].owner \in Handles \union {NoThread}   BY DEF IInv, TypeOK, Buffers
    <3>2. \A g \in Handles : g # h => pc'[g] = pc[g]   BY <2>1 DEF IInv, TypeOK
    <3>3. pc'[h] \in {"read", "held"}   BY <2>1 DEF IInv, TypeOK
    <3> QED  BY <1>1, <1>2, <2>2, <3>1, <3>2, <3>3, SMT DEF IInv, OwnerInv
  <2>6. RefInv' /\ BlockInv'   BY <1>2, <2>2, SMT DEF IInv, RefInv, UsersOf, Pin, BlockInv
  <2>7. IInv'
    <3>1. Up => Up'   BY <2>1 DEF Up, IInv, TypeOK
    <3>2. FullInv'   BY <2>2, <3>1, FullNext
    <3> QED  BY <2>3, <2>4, <2>5, <2>6, <3>2 DEF IInv
  <2>8. Val' = Val   BY <1>2, <2>2, <2>7, SameData
  <2>9. \A g \in Handles : pc[g] = "held" => buf'[use'[g]].blockno = buf[use[g]].blockno
    BY <1>2, <2>2, SMT DEF IInv, TypeOK, HandleInv
  <2>10. CASE ~buf[i].valid
    <3>1. \A g \in Handles : pc'[g] = "held" <=> pc[g] = "held"
      BY <1>2, <2>1, <2>10 DEF IInv, TypeOK
    <3>2. Holder' = Holder   BY <2>7, <2>9, <3>1, SameHolder
    <3> QED  BY <1>2, <2>7, <2>8, <3>2 DEF Store!vars
  <2>11. CASE buf[i].valid
    <3>1. pc' = [pc EXCEPT ![h] = "held"]   BY <2>1, <2>11
    <3>2. Store!Acquire(h, buf[i].blockno)   BY <1>1, <1>2, <2>2, <2>7, <2>8, <3>1, HoldStep
    <3>3. buf[i].blockno \in Blocks   BY <1>1, <1>2 DEF IInv, HandleInv
    <3> QED  BY <2>7, <3>2, <3>3 DEF Store!Next
  <2> QED  BY <2>10, <2>11
<1> QED  BY <1>3, <1>4

(* bread() reads what is on disk; no buffer had the contents before. *)
LEMMA BreadDoneStep ==
  ASSUME IInv, NEW h \in Handles, BreadDone(h)
  PROVE  IInv' /\ Store!Next
<1>1. PICK i \in Bufs : i = use[h]   BY DEF BreadDone, IInv, TypeOK, HandleInv
<1>2. /\ pc[h] = "read" /\ pc' = [pc EXCEPT ![h] = "held"]
      /\ disk' = disk /\ lru' = lru /\ pinned' = pinned /\ use' = use
  BY DEF BreadDone, Goto
<1>3. PICK b \in Blocks : b = buf[i].blockno   BY <1>1, <1>2 DEF IInv, HandleInv
<1>4. /\ buf' \in [Bufs -> Buffers] /\ buf'[i].valid /\ buf'[i].data = disk[b]
      /\ \A j \in Bufs : /\ buf'[j].blockno = buf[j].blockno /\ buf'[j].owner = buf[j].owner
                         /\ buf'[j].refcnt = buf[j].refcnt
      /\ \A j \in Bufs \ {i} : buf'[j].valid = buf[j].valid /\ buf'[j].data = buf[j].data
  <2>1. buf' = [buf EXCEPT ![i].data = disk[b], ![i].valid = TRUE]
    BY <1>1, <1>3 DEF BreadDone
  <2> QED  BY <2>1, ZenonT(60) DEF IInv, TypeOK, Buffers
<1>5. ~buf[i].valid /\ buf[i].owner = h
  BY <1>1, <1>2, <1>3, SMT DEF IInv, HandleInv, BlockInv
<1>6. \A g \in Handles : g # h => pc'[g] = pc[g]   BY <1>2 DEF IInv, TypeOK
<1>7. pc'[h] = "held"   BY <1>2 DEF IInv, TypeOK
<1>8. TypeOK' /\ LruInv'   BY <1>2, <1>4 DEF IInv, TypeOK, LruInv
<1>9. HandleInv'
  <2>1. \A g \in Handles : pc[g] \notin {"idle", "panic"} => use[g] \in Bufs
    BY DEF IInv, TypeOK, HandleInv
  <2>2. \A g \in Handles : g # h /\ pc[g] \in {"read", "held"} => use[g] # i
    BY <1>5 DEF IInv, HandleInv
  <2> QED  BY <1>1, <1>2, <1>4, <1>6, <1>7, <2>1, <2>2, SMT DEF IInv, HandleInv
<1>10. OwnerInv'
  <2>1. \A j \in Bufs : buf[j].owner \in Handles \union {NoThread}   BY DEF IInv, TypeOK, Buffers
  <2> QED  BY <1>2, <1>4, <1>6, <1>7, <2>1, SMT DEF IInv, OwnerInv
<1>11. RefInv'   BY <1>2, <1>4 DEF IInv, RefInv, UsersOf, Pin
<1>12. BlockInv'
  <2>1. \A c \in pinned : \E j \in Bufs : buf'[j].blockno = c /\ buf'[j].valid
    <3> TAKE c \in pinned
    <3>1. PICK j \in Bufs : buf[j].blockno = c /\ buf[j].valid   BY DEF IInv, BlockInv
    <3> QED  BY <1>4, <3>1
  <2> QED  BY <1>2, <1>4, <2>1, SMT DEF IInv, BlockInv
<1>13. IInv'
  <2>1. FullInv'   BY <1>2, <1>4, UpNext, FullNext
  <2> QED  BY <1>8, <1>9, <1>10, <1>11, <1>12, <2>1 DEF IInv
<1>14. Val' = Val   BY <1>2, <1>3, <1>4, <1>5, <1>13, SameVal DEF IInv, TypeOK, Buffers
<1>15. Store!Acquire(h, b)   BY <1>1, <1>2, <1>3, <1>4, <1>13, <1>14, HoldStep
<1> QED  BY <1>13, <1>15 DEF Store!Next

-----------------------------------------------------------------------------
(* What the holder does *)

(* The holder of a block: its buffer, block and lock. *)
LEMMA HolderFacts ==
  ASSUME IInv, NEW h \in Handles, pc[h] = "held"
  PROVE  /\ use[h] \in Bufs /\ buf[use[h]].blockno \in Blocks
         /\ buf[use[h]].owner = h /\ buf[use[h]].valid
         /\ Holder[buf[use[h]].blockno] = h
         /\ \A j \in Bufs : buf[j].blockno = buf[use[h]].blockno => j = use[h]
<1>1. /\ use[h] \in Bufs /\ buf[use[h]].blockno \in Blocks
      /\ buf[use[h]].owner = h /\ buf[use[h]].valid
  BY DEF IInv, TypeOK, HandleInv
<1> QED  BY <1>1, HolderIs DEF IInv, BlockInv

(* The holder changes the contents of its buffer, the disk, or the count. *)
LEMMA HolderStep ==
  ASSUME IInv, NEW h \in Handles, pc[h] = "held", NEW i \in Bufs, i = use[h],
         pc' = pc, use' = use, lru' = lru,
         disk' \in [Blocks -> Values], pinned' \subseteq Blocks,
         buf' \in [Bufs -> Buffers],
         \A j \in Bufs : /\ buf'[j].blockno = buf[j].blockno /\ buf'[j].owner = buf[j].owner
                         /\ buf'[j].valid = buf[j].valid,
         \A j \in Bufs \ {i} : buf'[j].data = buf[j].data /\ buf'[j].refcnt = buf[j].refcnt,
         buf'[i].refcnt - Pin(i)' = buf[i].refcnt - Pin(i),
         \A c \in Blocks : c # buf[i].blockno =>
           c \in pinned' <=> c \in pinned,
         Up \/ buf'[i].refcnt = buf[i].refcnt,
         IsFiniteSet(pinned'), Cardinality(pinned') <= LOGSIZE
  PROVE  IInv' /\ Holder' = Holder
<1>1. /\ buf[i].blockno \in Blocks /\ buf[i].valid
      /\ \A j \in Bufs : buf[j].blockno = buf[i].blockno => j = i
  BY HolderFacts
<1>2. TypeOK' /\ LruInv' /\ OwnerInv'
  <2>1. TypeOK'     BY DEF IInv, TypeOK
  <2>2. LruInv'     BY DEF IInv, LruInv
  <2>3. OwnerInv'   BY SMT DEF IInv, OwnerInv
  <2> QED  BY <2>1, <2>2, <2>3
<1>3. HandleInv'
  <2>1. \A g \in Handles : pc[g] \notin {"idle", "panic"} => use[g] \in Bufs
    BY SMT DEF IInv, TypeOK, HandleInv
  <2> QED  BY <2>1, ZenonT(60) DEF IInv, HandleInv
<1>4. RefInv'
  <2>1. \A j \in Bufs : UsersOf(j)' = UsersOf(j)   BY DEF UsersOf
  <2>2. \A j \in Bufs \ {i} : Pin(j)' = Pin(j)
    <3> TAKE j \in Bufs \ {i}
    <3>1. buf[j].blockno # buf[i].blockno /\ buf[j].blockno \in Blocks \union {NoBlock}
      BY <1>1 DEF IInv, TypeOK, Buffers
    <3>2. NoBlock \notin pinned /\ NoBlock \notin pinned'
      BY BcacheAssumption DEF IInv, TypeOK
    <3>3. buf'[j].blockno = buf[j].blockno   OBVIOUS
    <3>4. buf[j].blockno \in pinned' <=> buf[j].blockno \in pinned   BY <3>1, <3>2
    <3> QED  BY <3>3, <3>4 DEF Pin
  <2>3. \A j \in Bufs \ {i} : buf'[j].refcnt = Cardinality(UsersOf(j)') + Pin(j)'
    BY <2>1, <2>2, ZenonT(60) DEF IInv, RefInv
  <2>4. buf'[i].refcnt = Cardinality(UsersOf(i)') + Pin(i)'
    <3>1. Cardinality(UsersOf(i)) \in Nat
      BY HandlesFinite, FS_Subset, FS_CardinalityType DEF UsersOf
    <3>2. Pin(i) \in {0, 1} /\ Pin(i)' \in {0, 1}   BY DEF Pin
    <3>3. buf[i].refcnt = Cardinality(UsersOf(i)) + Pin(i)   BY DEF IInv, RefInv
    <3>4. buf'[i].refcnt \in Nat   BY DEF Buffers
    <3> QED  BY <2>1, <3>1, <3>2, <3>3, <3>4, SMT
  <2> QED  BY <2>3, <2>4 DEF RefInv
<1>5. BlockInv'
  <2>1. \A j, k \in Bufs :
          buf'[j].blockno \in Blocks /\ buf'[j].blockno = buf'[k].blockno => j = k
    BY SMT DEF IInv, BlockInv
  <2>2. ASSUME NEW c \in pinned' PROVE \E j \in Bufs : buf'[j].blockno = c /\ buf'[j].valid
    <3>1. CASE c = buf[i].blockno   BY <1>1, <3>1
    <3>2. CASE c # buf[i].blockno
      <4>1. c \in pinned   BY <3>2
      <4>2. PICK j \in Bufs : buf[j].blockno = c /\ buf[j].valid   BY <4>1 DEF IInv, BlockInv
      <4> QED  BY <4>2
    <3> QED  BY <3>1, <3>2
  <2> QED  BY <2>1, <2>2 DEF BlockInv
<1>6. IInv'
  <2>1. Up' <=> Up   BY DEF Up
  <2>2. CASE Up   BY <1>2, <1>3, <1>4, <1>5, <2>1, <2>2 DEF IInv, FullInv
  <2>3. CASE buf'[i].refcnt = buf[i].refcnt
    <3>1. FullInv'   BY <2>1, <2>3, FullNext
    <3> QED  BY <1>2, <1>3, <1>4, <1>5, <3>1 DEF IInv
  <2> QED  BY <2>2, <2>3
<1>7. Holder' = Holder
  <2>1. \A g \in Handles : pc[g] = "held" => use[g] \in Bufs   BY SMT DEF IInv, TypeOK, HandleInv
  <2> QED  BY <1>6, <2>1, SameHolder
<1> QED  BY <1>6, <1>7

(* The holder of a block changes the data of its buffer. *)
LEMMA ModifyStep ==
  ASSUME IInv, NEW h \in Handles, NEW v \in Values, Modify(h, v)
  PROVE  IInv' /\ Store!Next
<1>1. PICK i \in Bufs : i = use[h]   BY HolderFacts DEF Modify, Holds
<1>2. PICK b \in Blocks : b = buf[i].blockno   BY <1>1, HolderFacts DEF Modify, Holds
<1>3. /\ pc[h] = "held" /\ Holder[b] = h /\ buf[i].valid
      /\ pc' = pc /\ use' = use /\ lru' = lru /\ pinned' = pinned /\ disk' = disk
      /\ buf' = [buf EXCEPT ![i].data = v]
  BY <1>1, <1>2, HolderFacts DEF Modify, Holds
<1>4. /\ buf' \in [Bufs -> Buffers] /\ buf'[i].data = v
      /\ \A j \in Bufs : /\ buf'[j].blockno = buf[j].blockno /\ buf'[j].owner = buf[j].owner
                         /\ buf'[j].valid = buf[j].valid /\ buf'[j].refcnt = buf[j].refcnt
      /\ \A j \in Bufs \ {i} : buf'[j].data = buf[j].data
  <2>1. buf' = [buf EXCEPT ![i].data = v]   BY <1>3
  <2> QED  BY <2>1, SMT DEF IInv, TypeOK, Buffers
<1>5. Pin(i)' = Pin(i)   BY <1>3, <1>4, SMT DEF Pin
<1>6. /\ IsFiniteSet(pinned) /\ Cardinality(pinned) <= LOGSIZE /\ pinned \subseteq Blocks
      /\ disk \in [Blocks -> Values]
  BY DEF IInv, BlockInv, TypeOK
<1>7. IInv' /\ Holder' = Holder
  BY <1>1, <1>3, <1>4, <1>5, <1>6, HolderStep, SMT
<1>8. Val'[b] = v
  <2>1. buf'[i].blockno = b /\ buf'[i].valid   BY <1>2, <1>3, <1>4
  <2> QED  BY <1>4, <1>7, <2>1, ValNext
<1>9. ASSUME NEW c \in Blocks, c # b PROVE Val'[c] = Val[c]
  <2>1. ASSUME NEW j \in Bufs, buf[j].blockno = c, buf[j].valid PROVE Val'[c] = Val[c]
    <3>1. j # i   BY <1>2, <1>9, <2>1
    <3>2. Val[c] = buf[j].data   BY <2>1, ValIs DEF IInv
    <3>3. Val'[c] = buf'[j].data   BY <1>4, <1>7, <2>1, ValNext
    <3> QED  BY <1>4, <3>1, <3>2, <3>3
  <2>2. ASSUME \A j \in Bufs : ~(buf[j].blockno = c /\ buf[j].valid) PROVE Val'[c] = Val[c]
    <3>1. \A j \in Bufs : ~(buf'[j].blockno = c /\ buf'[j].valid)   BY <1>4, <2>2
    <3> QED  BY <1>3, <1>7, <2>2, <3>1, ValIs, ValNext DEF IInv
  <2> QED  BY <2>1, <2>2
<1>10. Val = [c \in Blocks |-> Val[c]] /\ Val' = [c \in Blocks |-> Val'[c]]
  BY <1>7, ValIs, ValNext DEF IInv
<1>11. Val' = [Val EXCEPT ![b] = v]   BY <1>8, <1>9, <1>10
<1>12. Store!Change(h, b, v)   BY <1>3, <1>7, <1>11 DEF Store!Change
<1> QED  BY <1>7, <1>12 DEF Store!Next

(* bwrite() saves the value that the buffer has. *)
LEMMA BwriteStep ==
  ASSUME IInv, NEW h \in Handles, Bwrite(h)
  PROVE  IInv' /\ Store!Next
<1>1. PICK i \in Bufs : i = use[h]   BY HolderFacts DEF Bwrite, Holds
<1>2. PICK b \in Blocks : b = buf[i].blockno   BY <1>1, HolderFacts DEF Bwrite, Holds
<1>3. /\ pc[h] = "held" /\ Holder[b] = h /\ buf[i].valid
      /\ pc' = pc /\ use' = use /\ lru' = lru /\ pinned' = pinned /\ buf' = buf
      /\ disk' = [disk EXCEPT ![b] = buf[i].data]
  BY <1>1, <1>2, HolderFacts DEF Bwrite, Holds
<1>4. /\ disk' \in [Blocks -> Values] /\ \A c \in Blocks : c # b => disk'[c] = disk[c]
  BY <1>3 DEF IInv, TypeOK, Buffers
<1>5. Pin(i)' = Pin(i)   BY <1>3 DEF Pin
<1>6. /\ IsFiniteSet(pinned) /\ Cardinality(pinned) <= LOGSIZE /\ pinned \subseteq Blocks
      /\ buf \in [Bufs -> Buffers]
  BY DEF IInv, BlockInv, TypeOK
<1>7. IInv' /\ Holder' = Holder
  BY <1>1, <1>3, <1>4, <1>5, <1>6, HolderStep, SMT
<1>8. Val' = Val
  <2>1. \A j \in Bufs : buf[j].valid \in BOOLEAN   BY DEF IInv, TypeOK, Buffers
  <2> QED  BY <1>2, <1>3, <1>4, <1>7, <2>1, SameVal
<1>9. Val[b] = buf[i].data   BY <1>2, <1>3, ValIs DEF IInv
<1>10. Store!Save(h, b)   BY <1>3, <1>7, <1>8, <1>9 DEF Store!Save
<1> QED  BY <1>7, <1>10 DEF Store!Next

(* The log's reference: what bpin() and bunpin() leave alone. *)
LEMMA PinStep ==
  ASSUME IInv, NEW h \in Handles, Up, Holds(h), NEW i \in Bufs, i = use[h], NEW n \in Nat,
         buf' = [buf EXCEPT ![i].refcnt = n], n - Pin(i)' = buf[i].refcnt - Pin(i),
         \A c \in Blocks : c # buf[i].blockno => (c \in pinned' <=> c \in pinned),
         pinned' \subseteq Blocks, IsFiniteSet(pinned'), Cardinality(pinned') <= LOGSIZE,
         UNCHANGED <<disk, lru, pc, use>>
  PROVE  IInv' /\ Val' = Val /\ Holder' = Holder
<1>1. /\ buf' \in [Bufs -> Buffers] /\ buf'[i].refcnt = n
      /\ \A j \in Bufs : /\ buf'[j].blockno = buf[j].blockno /\ buf'[j].owner = buf[j].owner
                         /\ buf'[j].valid = buf[j].valid /\ buf'[j].data = buf[j].data
      /\ \A j \in Bufs \ {i} : buf'[j].refcnt = buf[j].refcnt
  BY SMT DEF IInv, TypeOK, Buffers
<1>2. /\ pc[h] = "held" /\ disk' \in [Blocks -> Values]
      /\ disk' = disk /\ lru' = lru /\ pc' = pc /\ use' = use
  BY DEF Holds, IInv, TypeOK
<1>3. buf'[i].refcnt - Pin(i)' = buf[i].refcnt - Pin(i)   BY <1>1
<1>4. IInv' /\ Holder' = Holder   BY <1>1, <1>2, <1>3, HolderStep, SMT
<1>5. Val' = Val   BY <1>1, <1>2, <1>4, SameData
<1> QED  BY <1>4, <1>5

(* bpin() for the log, which has not recorded the block yet. *)
LEMMA BpinStep ==
  ASSUME IInv, NEW h \in Handles, Bpin(h)
  PROVE  IInv' /\ Store!Next
<1>1. PICK i \in Bufs : i = use[h]   BY HolderFacts DEF Bpin, Holds
<1>2. PICK b \in Blocks : b = buf[i].blockno   BY <1>1, HolderFacts DEF Bpin, Holds
<1>3. /\ Up /\ Holds(h) /\ Holder[b] = h /\ b \notin pinned /\ Cardinality(pinned) < LOGSIZE
      /\ pinned' = pinned \union {b} /\ UNCHANGED <<disk, lru, pc, use>>
      /\ buf' = [buf EXCEPT ![i].refcnt = buf[i].refcnt + 1]
  BY <1>1, <1>2, HolderFacts DEF Bpin, Holds
<1>4. buf[i].refcnt \in Nat   BY DEF IInv, TypeOK, Buffers
<1>5. PICK n \in Nat : n = buf[i].refcnt + 1   BY <1>4, SMT
<1>6. n - Pin(i)' = buf[i].refcnt - Pin(i)
  <2>1. buf'[i].blockno = b   BY <1>2, <1>3, SMT DEF IInv, TypeOK, Buffers
  <2>2. Pin(i)' = 1 /\ Pin(i) = 0   BY <1>2, <1>3, <2>1, SMT DEF Pin
  <2> QED  BY <1>4, <1>5, <2>2, SMT
<1>7. pinned' \subseteq Blocks /\ IsFiniteSet(pinned') /\ Cardinality(pinned') <= LOGSIZE
  <2>1. IsFiniteSet(pinned) /\ pinned \subseteq Blocks   BY DEF IInv, TypeOK, BlockInv
  <2>2. IsFiniteSet(pinned') /\ Cardinality(pinned') = Cardinality(pinned) + 1
    BY <1>3, <2>1, FS_AddElement
  <2>3. Cardinality(pinned) \in Nat   BY <2>1, FS_CardinalityType
  <2> QED  BY <1>3, <2>1, <2>2, <2>3, BcacheAssumption, SMT
<1>8. \A c \in Blocks : c # buf[i].blockno => (c \in pinned' <=> c \in pinned)
  BY <1>2, <1>3
<1>9. IInv' /\ Val' = Val /\ Holder' = Holder
  BY <1>1, <1>3, <1>5, <1>6, <1>7, <1>8, PinStep
<1>10. Store!Keep(h, b)   BY <1>3, <1>9 DEF Store!Keep
<1> QED  BY <1>9, <1>10 DEF Store!Next

(* bunpin() for the log, which has installed the block. *)
LEMMA BunpinStep ==
  ASSUME IInv, NEW h \in Handles, Bunpin(h)
  PROVE  IInv' /\ Store!Next
<1>1. PICK i \in Bufs : i = use[h]   BY HolderFacts DEF Bunpin, Holds
<1>2. PICK b \in Blocks : b = buf[i].blockno   BY <1>1, HolderFacts DEF Bunpin, Holds
<1>3. /\ Up /\ Holds(h) /\ Holder[b] = h /\ b \in pinned
      /\ pinned' = pinned \ {b} /\ UNCHANGED <<disk, lru, pc, use>>
      /\ buf' = [buf EXCEPT ![i] = [buf[i] EXCEPT !.refcnt = buf[i].refcnt - 1]]
  BY <1>1, <1>2, HolderFacts DEF Bunpin, Unpinned, Holds
<1>4. buf[i].refcnt \in Nat /\ buf[i].refcnt >= 1 /\ Pin(i) = 1
  <2>1. Cardinality(UsersOf(i)) \in Nat
    BY HandlesFinite, FS_Subset, FS_CardinalityType DEF UsersOf
  <2>2. Pin(i) = 1   BY <1>2, <1>3 DEF Pin
  <2> QED  BY <2>1, <2>2, SMT DEF IInv, RefInv
<1>5. PICK n \in Nat : n = buf[i].refcnt - 1   BY <1>4, SMT
<1>6. buf' = [buf EXCEPT ![i].refcnt = n]   BY <1>3, <1>5
<1>7. n - Pin(i)' = buf[i].refcnt - Pin(i)
  <2>1. buf'[i].blockno = b   BY <1>2, <1>6, SMT DEF IInv, TypeOK, Buffers
  <2>2. Pin(i)' = 0   BY <1>3, <2>1, SMT DEF Pin
  <2> QED  BY <1>4, <1>5, <2>2, SMT
<1>8. pinned' \subseteq Blocks /\ IsFiniteSet(pinned') /\ Cardinality(pinned') <= LOGSIZE
  <2>1. IsFiniteSet(pinned) /\ Cardinality(pinned) <= LOGSIZE /\ pinned \subseteq Blocks
    BY DEF IInv, TypeOK, BlockInv
  <2>2. IsFiniteSet(pinned') /\ Cardinality(pinned') <= Cardinality(pinned)
    BY <1>3, <2>1, FS_Subset
  <2>3. Cardinality(pinned) \in Nat /\ Cardinality(pinned') \in Nat
    BY <2>1, <2>2, FS_CardinalityType
  <2> QED  BY <1>3, <2>1, <2>2, <2>3, BcacheAssumption, SMT
<1>9. \A c \in Blocks : c # buf[i].blockno => (c \in pinned' <=> c \in pinned)
  BY <1>2, <1>3
<1>10. IInv' /\ Val' = Val /\ Holder' = Holder
  BY <1>1, <1>3, <1>6, <1>7, <1>8, <1>9, PinStep
<1>11. Store!Unkeep(h, b)   BY <1>3, <1>10 DEF Store!Unkeep
<1> QED  BY <1>10, <1>11 DEF Store!Next

(* releasesleep() frees the lock and wakes everyone who sleeps on it. *)
LEMMA ReleasesleepStep ==
  ASSUME IInv, NEW h \in Handles, Releasesleep(h)
  PROVE  IInv' /\ Store!Next
<1>1. PICK i \in Bufs : i = use[h]   BY HolderFacts DEF Releasesleep, Holds
<1>2. PICK b \in Blocks : b = buf[i].blockno   BY <1>1, HolderFacts DEF Releasesleep, Holds
<1>3. /\ pc[h] = "held" /\ Holder[b] = h /\ buf[i].owner = h
      /\ disk' = disk /\ lru' = lru /\ pinned' = pinned /\ use' = use
      /\ \A j \in Bufs : buf[j].blockno = b => j = i
  BY <1>1, <1>2, HolderFacts DEF Releasesleep, Holds
<1>4. /\ buf' \in [Bufs -> Buffers] /\ buf'[i].owner = NoThread
      /\ \A j \in Bufs : /\ buf'[j].blockno = buf[j].blockno /\ buf'[j].valid = buf[j].valid
                         /\ buf'[j].data = buf[j].data /\ buf'[j].refcnt = buf[j].refcnt
                         /\ j # i => buf'[j].owner = buf[j].owner
  <2>1. buf' = [buf EXCEPT ![i].owner = NoThread]   BY <1>1 DEF Releasesleep
  <2> QED  BY <2>1, SMT DEF IInv, TypeOK, Buffers
<1>5. /\ pc' \in [Handles -> {"idle", "lock", "asleep", "read", "held", "unref", "panic"}]
      /\ pc'[h] = "unref"
      /\ \A g \in Handles : g # h =>
           pc'[g] = IF pc[g] = "asleep" /\ use[g] = i THEN "lock" ELSE pc[g]
  BY <1>1 DEF Releasesleep, Holds, Wakeup, IInv, TypeOK
<1>6. TypeOK' /\ LruInv'   BY <1>3, <1>4, <1>5 DEF IInv, TypeOK, LruInv
<1>7. HandleInv'
  <2>1. \A g \in Handles : pc[g] \notin {"idle", "panic"} => use[g] \in Bufs
    BY DEF IInv, TypeOK, HandleInv
  <2>2. \A g \in Handles : g # h /\ pc[g] \in {"read", "held"} => use[g] # i
    BY <1>3 DEF IInv, HandleInv
  <2> QED  BY <1>1, <1>3, <1>4, <1>5, <2>1, <2>2, SMTT(30) DEF IInv, HandleInv
<1>8. OwnerInv'
  <2>1. \A j \in Bufs : buf[j].owner \in Handles \union {NoThread}   BY DEF IInv, TypeOK, Buffers
  <2>2. \A j \in Bufs : j # i => buf[j].owner # h   BY <1>1, BcacheAssumption DEF IInv, OwnerInv
  <2> QED  BY <1>3, <1>4, <1>5, <2>1, <2>2, SMTT(30) DEF IInv, OwnerInv
<1>9. RefInv' /\ BlockInv'   BY <1>3, <1>4, SMTT(30) DEF IInv, RefInv, UsersOf, Pin, BlockInv
<1>10. IInv'
  <2>1. ~Up' => ~Up   BY <1>5 DEF Up
  <2>2. FullInv'   BY <1>4, <2>1, FullNext
  <2> QED  BY <1>6, <1>7, <1>8, <1>9, <2>2 DEF IInv
<1>11. Val' = Val   BY <1>3, <1>4, <1>10, SameData
<1>12. Holder'[b] = NoThread
  <2>1. \A g \in Handles : ~(pc'[g] = "held" /\ buf'[use'[g]].blockno = b)
    <3> SUFFICES ASSUME NEW g \in Handles, pc'[g] = "held", buf'[use'[g]].blockno = b
                 PROVE  FALSE
      OBVIOUS
    <3>1. g # h /\ pc[g] = "held"   BY <1>5
    <3>2. use[g] \in Bufs /\ buf[use[g]].owner = g   BY <3>1 DEF IInv, TypeOK, HandleInv
    <3>3. use[g] = i   BY <1>3, <1>4, <3>2
    <3> QED  BY <1>3, <3>1, <3>2, <3>3
  <2> QED  BY <1>10, <2>1, HolderNext
<1>13. ASSUME NEW c \in Blocks, c # b PROVE Holder'[c] = Holder[c]
  <2>1. ASSUME NEW g \in Handles, pc[g] = "held", buf[use[g]].blockno = c
        PROVE  Holder'[c] = Holder[c]
    <3>1. Holder[c] = g   BY <2>1, HolderIs DEF IInv
    <3>2. use[g] \in Bufs   BY <2>1 DEF IInv, TypeOK, HandleInv
    <3>3. g # h   BY <1>1, <1>2, <1>13, <2>1
    <3>4. pc'[g] = "held" /\ buf'[use'[g]].blockno = c   BY <1>3, <1>4, <1>5, <2>1, <3>2, <3>3
    <3>5. Holder'[c] = g   BY <1>10, <3>4, HolderNext
    <3> QED  BY <3>1, <3>5
  <2>2. ASSUME \A g \in Handles : ~(pc[g] = "held" /\ buf[use[g]].blockno = c)
        PROVE  Holder'[c] = Holder[c]
    <3>1. Holder[c] = NoThread   BY <2>2, HolderIs DEF IInv
    <3>2. \A g \in Handles : pc'[g] = "held" => pc[g] = "held" /\ use[g] \in Bufs
      BY <1>5 DEF IInv, TypeOK, HandleInv
    <3>3. \A g \in Handles : ~(pc'[g] = "held" /\ buf'[use'[g]].blockno = c)
      BY <1>3, <1>4, <2>2, <3>2
    <3>4. Holder'[c] = NoThread   BY <1>10, <3>3, HolderNext
    <3> QED  BY <3>1, <3>4
  <2> QED  BY <2>1, <2>2
<1>14. Holder' = [Holder EXCEPT ![b] = NoThread]
  <2>1. Holder = [c \in Blocks |-> Holder[c]] /\ Holder' = [c \in Blocks |-> Holder'[c]]
    BY <1>10, HolderIs, HolderNext DEF IInv
  <2> QED  BY <1>12, <1>13, <2>1
<1>15. Store!Release(h, b)   BY <1>3, <1>11, <1>14 DEF Store!Release
<1> QED  BY <1>10, <1>15 DEF Store!Next

(* brelse() drops the reference. *)
LEMMA BrelseStep ==
  ASSUME IInv, NEW h \in Handles, Brelse(h)
  PROVE  IInv' /\ Unseen
<1>1. PICK i \in Bufs : i = use[h]   BY DEF Brelse, IInv, TypeOK, HandleInv
<1>2. /\ Up /\ pc[h] = "unref" /\ pc' = [pc EXCEPT ![h] = "idle"] /\ use' = [use EXCEPT ![h] = 0]
      /\ disk' = disk /\ pinned' = pinned
      /\ lru' = lru \/ lru' = MoveToFront(i)
      /\ buf' = [buf EXCEPT ![i].refcnt = @ - 1]
  BY <1>1 DEF Brelse, Goto
<1>3. /\ Cardinality(UsersOf(i)') = Cardinality(UsersOf(i)) - 1
      /\ Cardinality(UsersOf(i)) \in Nat /\ Cardinality(UsersOf(i)) >= 1
      /\ \A j \in Bufs \ {i} : UsersOf(j)' = UsersOf(j)
  <2>1. IsFiniteSet(UsersOf(i)) /\ h \in UsersOf(i)   BY <1>1, HandlesFinite, FS_Subset DEF UsersOf
  <2>2. 0 \notin Bufs   BY SMT DEF Bufs
  <2>3. UsersOf(i)' = UsersOf(i) \ {h} /\ \A j \in Bufs \ {i} : UsersOf(j)' = UsersOf(j)
    BY <1>1, <1>2, <2>2 DEF UsersOf, IInv, TypeOK
  <2>4. Cardinality(UsersOf(i) \ {h}) = Cardinality(UsersOf(i)) - 1   BY <2>1, FS_RemoveElement
  <2>5. Cardinality(UsersOf(i)) \in Nat /\ Cardinality(UsersOf(i)) # 0
    BY <2>1, FS_CardinalityType, FS_EmptySet
  <2> QED  BY <2>3, <2>4, <2>5, SMT
<1>4. buf[i].refcnt = Cardinality(UsersOf(i)) + Pin(i) /\ Pin(i) \in {0, 1}
  BY DEF IInv, RefInv, Pin
<1>5. /\ buf' \in [Bufs -> Buffers] /\ buf'[i].refcnt = buf[i].refcnt - 1
      /\ \A j \in Bufs : /\ buf'[j].blockno = buf[j].blockno /\ buf'[j].owner = buf[j].owner
                         /\ buf'[j].valid = buf[j].valid /\ buf'[j].data = buf[j].data
      /\ \A j \in Bufs \ {i} : buf'[j].refcnt = buf[j].refcnt
  <2>1. buf[i].refcnt - 1 \in Nat   BY <1>3, <1>4, SMT
  <2> QED  BY <1>2, <2>1, SMT DEF IInv, TypeOK, Buffers
<1>6. lru' \in [Bufs -> Bufs] /\ LruInv'
  <2>1. CASE lru' = lru   BY <2>1 DEF IInv, TypeOK, LruInv
  <2>2. CASE lru' = MoveToFront(i)   BY <2>2, MoveKeeps DEF IInv
  <2> QED  BY <1>2, <2>1, <2>2
<1>7. TypeOK'   BY <1>2, <1>5, <1>6 DEF IInv, TypeOK
<1>8. HandleInv'
  <2>1. \A g \in Handles : pc[g] \notin {"idle", "panic"} => use[g] \in Bufs
    BY DEF IInv, TypeOK, HandleInv
  <2>2. /\ pc'[h] = "idle" /\ use'[h] = 0
        /\ \A g \in Handles : g # h => pc'[g] = pc[g] /\ use'[g] = use[g]
    BY <1>2 DEF IInv, TypeOK
  <2> QED  BY <1>5, <2>1, <2>2, SMT DEF IInv, HandleInv
<1>9. OwnerInv'
  <2>1. \A j \in Bufs : buf[j].owner \in Handles \union {NoThread}   BY DEF IInv, TypeOK, Buffers
  <2> QED  BY <1>2, <1>5, <2>1, SMT DEF IInv, TypeOK, OwnerInv
<1>10. RefInv'
  <2>1. \A j \in Bufs : Pin(j)' = Pin(j)   BY <1>2, <1>5, SMT DEF Pin
  <2>2. buf'[i].refcnt = Cardinality(UsersOf(i)') + Pin(i)'   BY <1>3, <1>4, <1>5, <2>1, SMT
  <2>3. \A j \in Bufs \ {i} : buf'[j].refcnt = Cardinality(UsersOf(j)') + Pin(j)'
    BY <1>3, <1>5, <2>1 DEF IInv, RefInv
  <2> QED  BY <2>2, <2>3 DEF RefInv
<1>11. BlockInv'   BY <1>2, <1>5, SMT DEF IInv, BlockInv
<1>12. IInv'
  <2>1. FullInv'   BY <1>2, UpNext DEF FullInv
  <2> QED  BY <1>6, <1>7, <1>8, <1>9, <1>10, <1>11, <2>1 DEF IInv
<1>13. Val' = Val   BY <1>2, <1>5, <1>12, SameData
<1>14. Holder' = Holder
  <2>1. \A g \in Handles : pc'[g] = "held" <=> pc[g] = "held"   BY <1>2 DEF IInv, TypeOK
  <2>2. \A g \in Handles : pc[g] = "held" => buf'[use'[g]].blockno = buf[use[g]].blockno
    BY <1>2, <1>5, SMT DEF IInv, TypeOK, HandleInv
  <2> QED  BY <1>12, <2>1, <2>2, SameHolder
<1> QED  BY <1>2, <1>12, <1>13, <1>14 DEF Unseen

-----------------------------------------------------------------------------
LEMMA InitIInv ==
  ASSUME Init
  PROVE  IInv
<1>1. \A i \in Bufs : buf[i] = Empty   BY DEF Init
<1>2. Empty \in Buffers   BY BcacheAssumption DEF Empty, Buffers
<1>3. TypeOK   BY <1>2, BcacheAssumption, SMT DEF Init, TypeOK, Bufs
<1>4. LruInv
  <2> SUFFICES ASSUME NEW i \in Bufs PROVE \E n \in Bufs : lru[n] = i   BY DEF LruInv
  <2> NBUF + 1 - i \in Bufs /\ lru[NBUF + 1 - i] = i   BY BcacheAssumption, SMT DEF Init, Bufs
  <2> QED  OBVIOUS
<1>5. HandleInv   BY DEF Init, HandleInv
<1>6. OwnerInv    BY <1>1, SMT DEF OwnerInv, Empty
<1>7. RefInv
  <2>1. \A i \in Bufs : UsersOf(i) = {}   BY SMT DEF Init, UsersOf, Bufs
  <2>2. \A i \in Bufs : Pin(i) = 0   BY DEF Init, Pin
  <2> QED  BY <1>1, <2>1, <2>2, FS_EmptySet, SMT DEF RefInv, Empty
<1>8. BlockInv
  <2>1. pinned = {} /\ IsFiniteSet(pinned) /\ Cardinality(pinned) <= LOGSIZE
    BY FS_EmptySet, BcacheAssumption, SMT DEF Init
  <2> QED  BY <1>1, <2>1, BcacheAssumption, SMT DEF BlockInv, Empty
<1>9. FullInv   BY DEF Init, FullInv, Up
<1> QED  BY <1>3, <1>4, <1>5, <1>6, <1>7, <1>8, <1>9 DEF IInv

LEMMA NextStep ==
  ASSUME IInv, [Next]_vars
  PROVE  IInv' /\ [Store!Next]_(Store!vars)
<1>1. ASSUME NEW h \in Handles, NEW b \in Blocks, BgetHit(h, b) \/ BgetPanic(h, b)
      PROVE  IInv' /\ [Store!Next]_(Store!vars)
  BY <1>1, BgetHitStep, BgetPanicStep DEF Unseen, Store!vars
<1>2. ASSUME NEW h \in Handles, NEW b \in Blocks, BgetRecycle(h, b)
      PROVE  IInv' /\ [Store!Next]_(Store!vars)
  BY <1>2, BgetRecycleStep
<1>3. ASSUME NEW h \in Handles, Acquiresleep(h) \/ BreadDone(h)
      PROVE  IInv' /\ [Store!Next]_(Store!vars)
  BY <1>3, AcquiresleepStep, BreadDoneStep
<1>4. ASSUME NEW h \in Handles, NEW v \in Values, Modify(h, v)
      PROVE  IInv' /\ [Store!Next]_(Store!vars)
  BY <1>4, ModifyStep
<1>5. ASSUME NEW h \in Handles, Bwrite(h) \/ Bpin(h) \/ Bunpin(h) \/ Releasesleep(h)
      PROVE  IInv' /\ [Store!Next]_(Store!vars)
  BY <1>5, BwriteStep, BpinStep, BunpinStep, ReleasesleepStep
<1>6. ASSUME NEW h \in Handles, Brelse(h)
      PROVE  IInv' /\ [Store!Next]_(Store!vars)
  BY <1>6, BrelseStep DEF Unseen, Store!vars
<1>7. CASE UNCHANGED vars
  <2>1. /\ disk' = disk /\ buf' = buf /\ lru' = lru /\ pinned' = pinned
        /\ pc' = pc /\ use' = use
    BY <1>7 DEF vars
  <2>2. TypeOK' /\ LruInv' /\ HandleInv' /\ OwnerInv'
    BY <2>1, SMTT(30) DEF IInv, TypeOK, LruInv, HandleInv, OwnerInv
  <2>3. RefInv' /\ BlockInv' /\ FullInv'
    BY <2>1, SMTT(30) DEF IInv, RefInv, UsersOf, Pin, BlockInv, FullInv, Up, Unused
  <2>4. Val' = Val         BY <2>1, SMT DEF Val, Cached
  <2>5. Holder' = Holder   BY <2>1 DEF Holder
  <2> QED  BY <2>1, <2>2, <2>3, <2>4, <2>5 DEF IInv, Store!vars
<1> QED  BY <1>1, <1>2, <1>3, <1>4, <1>5, <1>6, <1>7 DEF Next

(* Every reachable state of the cache satisfies IInv. *)
THEOREM Inductive == Spec => []IInv
<1>1. Init => IInv                  BY InitIInv
<1>2. IInv /\ [Next]_vars => IInv'   BY NextStep
<1> QED  BY <1>1, <1>2, PTL DEF Spec

(* refcnt of a buffer (bio.c) is the number of handles between bget() and  *)
(* brelse() on it, plus one while the log pins its block; no block has two *)
(* buffers, and a pinned block has one.                                    *)
THEOREM CountsExact == Spec => []RefcntExact
<1>1. IInv => RefcntExact
  <2> SUFFICES ASSUME IInv PROVE RefcntExact   OBVIOUS
  <2>1. \A i \in Bufs : buf[i].refcnt = Cardinality({h \in Handles : use[h] = i})
                                          + (IF buf[i].blockno \in pinned THEN 1 ELSE 0)
    BY DEF IInv, RefInv, UsersOf, Pin
  <2>2. ASSUME NEW b \in Blocks PROVE Cardinality(Cached(b)) <= 1
    <3>1. CASE Cached(b) = {}   BY <3>1, FS_EmptySet, SMT
    <3>2. ASSUME NEW i \in Cached(b) PROVE Cardinality(Cached(b)) <= 1
      <4>1. \A j \in Cached(b) : j = i   BY <3>2 DEF IInv, BlockInv, Cached
      <4>2. Cached(b) = {i}   BY <3>2, <4>1
      <4> QED  BY <4>2, FS_Singleton, SMT
    <3> QED  BY <3>1, <3>2
  <2>3. \A b \in pinned : Cached(b) # {}   BY DEF IInv, BlockInv, Cached
  <2>4. \A h \in Handles : pc[h] = "read" => ~buf[use[h]].valid   BY DEF IInv, HandleInv
  <2> QED  BY <2>1, <2>2, <2>3, <2>4 DEF RefcntExact
<1> QED  BY <1>1, Inductive, PTL

(* When every buffer is in use, the blocks that are pinned and the handles *)
(* between bget() and brelse() are at least as many as the buffers.        *)
LEMMA InUse ==
  ASSUME IInv, Unused = {}
  PROVE  Cardinality(pinned) + Cardinality({h \in Handles : use[h] # 0}) >= NBUF
<1> DEFINE P == {i \in Bufs : buf[i].blockno \in pinned}
           A == {h \in Handles : use[h] # 0}
           U == {i \in Bufs : \E h \in A : use[h] = i}
           f == [i \in P |-> buf[i].blockno]
           c == [i \in U |-> CHOOSE h \in A : use[h] = i]
<1>1. /\ IsFiniteSet(P) /\ Cardinality(P) <= Cardinality(pinned)
      /\ Cardinality(P) \in Nat /\ Cardinality(pinned) \in Nat
  <2>1. pinned \subseteq Blocks /\ IsFiniteSet(pinned)   BY DEF IInv, TypeOK, BlockInv
  <2>2. f \in Injection(P, pinned)
    BY <2>1 DEF Injection, IsInjective, IInv, BlockInv
  <2>3. IsFiniteSet(P) /\ Cardinality(P) <= Cardinality(pinned)
    BY ONLY <2>1, <2>2, FS_Injection
  <2>4. Cardinality(P) \in Nat /\ Cardinality(pinned) \in Nat
    BY ONLY <2>1, <2>3, FS_CardinalityType
  <2> HIDE DEF P
  <2> QED  BY <2>3, <2>4
<1>2. /\ IsFiniteSet(U) /\ Cardinality(U) <= Cardinality(A)
      /\ Cardinality(U) \in Nat /\ Cardinality(A) \in Nat
  <2>1. IsFiniteSet(A)   BY HandlesFinite, FS_Subset
  <2>2. \A i \in U : c[i] \in A /\ use[c[i]] = i   OBVIOUS
  <2>3. c \in Injection(U, A)
    <3> HIDE DEF A
    <3> QED  BY <2>2 DEF Injection, IsInjective
  <2>4. IsFiniteSet(U) /\ Cardinality(U) <= Cardinality(A)
    BY ONLY <2>1, <2>3, FS_Injection
  <2> HIDE DEF U, A
  <2> QED  BY <2>1, <2>4, FS_CardinalityType
<1>3. Bufs = P \union U
  <2> SUFFICES ASSUME NEW i \in Bufs, i \notin P PROVE i \in U   OBVIOUS
  <2>1. buf[i].refcnt # 0 /\ buf[i].refcnt = Cardinality(UsersOf(i)) + 0
    BY DEF Unused, IInv, RefInv, Pin
  <2>2. UsersOf(i) # {}   BY <2>1, FS_EmptySet, SMT
  <2>3. PICK h \in Handles : use[h] = i   BY <2>2 DEF UsersOf
  <2>4. 0 \notin Bufs   BY SMT DEF Bufs
  <2> QED  BY <2>3, <2>4
<1>4. Cardinality(Bufs) = NBUF
  BY BcacheAssumption, FS_Interval, SMT DEF Bufs
<1>5. Cardinality(P \union U) <= Cardinality(P) + Cardinality(U)
  <2> HIDE DEF P, U, A
  <2>1. Cardinality(P \union U) = Cardinality(P) + Cardinality(U) - Cardinality(P \cap U)
    BY <1>1, <1>2, FS_Union
  <2>2. IsFiniteSet(P \cap U)   BY <1>1, FS_Subset
  <2>3. Cardinality(P \cap U) \in Nat   BY <2>2, FS_CardinalityType
  <2> QED  BY <1>1, <1>2, <2>1, <2>3, SMT
<1> HIDE DEF P, U, A
<1>6. NBUF <= Cardinality(P) + Cardinality(U)   BY <1>3, <1>4, <1>5
<1>7. Cardinality(pinned) + Cardinality(A) >= NBUF
  BY <1>1, <1>2, <1>6, BcacheAssumption, SMT
<1> QED  BY <1>7 DEF A

(* bget() panics with "no buffers" only when the log's pins and the        *)
(* threads between bget() and brelse() account for all NBUF buffers.       *)
THEOREM NoBufferLost == Spec => []PanicsOnlyFull
<1>1. IInv => PanicsOnlyFull
  <2> SUFFICES ASSUME IInv, ~Up
               PROVE  Cardinality(pinned) + Cardinality({h \in Handles : use[h] # 0}) >= NBUF
    BY DEF PanicsOnlyFull
  <2> QED  BY InUse DEF IInv, FullInv
<1> QED  BY <1>1, Inductive, PTL

(* bget() never panics in a kernel whose NBUF is at least LOGSIZE plus one *)
(* for each buffer that a thread may hold: the log pins at most LOGSIZE,   *)
(* and the handle that finds no buffer has none itself.                    *)
THEOREM EnoughBuffers ==
  ASSUME NBUF >= LOGSIZE + Cardinality(Threads) * Cardinality(Slots)
  PROVE  Spec => []Up
<1>1. Cardinality(Handles) = Cardinality(Threads) * Cardinality(Slots)
  BY BcacheAssumption, FS_Product DEF Handles
<1>2. IInv => Up
  <2> SUFFICES ASSUME IInv, NEW h \in Handles, pc[h] = "panic" PROVE FALSE   BY DEF Up
  <2> DEFINE A == {g \in Handles : use[g] # 0}
  <2>1. Cardinality(pinned) + Cardinality(A) >= NBUF
    BY InUse DEF IInv, FullInv, Up
  <2>2. A \subseteq Handles \ {h}   BY DEF IInv, HandleInv
  <2>3. IsFiniteSet(Handles \ {h}) /\ Cardinality(Handles \ {h}) = Cardinality(Handles) - 1
    BY HandlesFinite, FS_RemoveElement
  <2> HIDE DEF A
  <2>4. IsFiniteSet(A) /\ Cardinality(A) <= Cardinality(Handles \ {h})
    BY <2>2, <2>3, FS_Subset
  <2>5. Cardinality(pinned) <= LOGSIZE /\ Cardinality(pinned) \in Nat /\ Cardinality(A) \in Nat
    BY <2>4, FS_CardinalityType DEF IInv, BlockInv
  <2> QED  BY <1>1, <2>1, <2>3, <2>4, <2>5, HandlesFinite, BcacheAssumption, SMT
<1> QED  BY <1>2, Inductive, PTL

(* A thread that sleeps in acquiresleep() sleeps on a lock somebody holds. *)
THEOREM SleepersWaitForHolder == Spec => []SleepersOnHeldLock
<1>1. IInv => SleepersOnHeldLock   BY DEF IInv, HandleInv, SleepersOnHeldLock
<1> QED  BY <1>1, Inductive, PTL

(* The cache implements BlockStore: what a holder reads is what the last   *)
(* holder left, or what was last written to disk if the block was neither  *)
(* held nor pinned meanwhile, and no two handles hold a block together.    *)
THEOREM CacheIsStore == Spec => ImplementsStore
<1>1. Init => Store!Init
  <2> SUFFICES ASSUME Init PROVE Store!Init   OBVIOUS
  <2>1. IInv   BY InitIInv
  <2>2. \A b \in Blocks : Val[b] = InitValue
    <3>1. \A i \in Bufs : ~buf[i].valid   BY DEF Init, Empty
    <3> QED  BY <2>1, <3>1, ValIs DEF IInv, Init
  <2>3. \A b \in Blocks : Holder[b] = NoThread
    BY <2>1, HolderIs DEF IInv, Init
  <2>4. Val = [b \in Blocks |-> Val[b]] /\ Holder = [b \in Blocks |-> Holder[b]]
    BY <2>1, ValIs, HolderIs DEF IInv
  <2> QED  BY <2>2, <2>3, <2>4 DEF Init, Store!Init
<1>2. IInv /\ [Next]_vars => [Store!Next]_(Store!vars)   BY NextStep
<1> QED  BY <1>1, <1>2, Inductive, PTL DEF Spec, ImplementsStore, Store!Spec
=============================================================================
