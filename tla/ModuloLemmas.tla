---------------------------- MODULE ModuloLemmas ----------------------------
(***************************************************************************)
(* Counters that wrap around, and the places of a ring that they point to: *)
(* the arithmetic behind the indices of pipes, virtio queues and the       *)
(* console.                                                                *)
(***************************************************************************)
EXTENDS Integers, TLAPS

(* Division with remainder *)

LEMMA Division ==
  ASSUME NEW w \in Nat \ {0}, NEW a \in Nat
  PROVE  /\ a \div w \in Nat /\ a % w \in 0 .. w - 1
         /\ a = w * (a \div w) + (a % w)
  BY Z3

LEMMA Remainder ==
  ASSUME NEW w \in Nat \ {0}, NEW q \in Nat, NEW r \in 0 .. w - 1
  PROVE  (w * q + r) % w = r
  BY Z3

(* A multiple of the size does not move the place in the ring. *)
LEMMA AddMultiple ==
  ASSUME NEW w \in Nat \ {0}, NEW m \in Nat, m % w = 0, NEW a \in Nat
  PROVE  (a + m) % w = a % w
<1>1. PICK q \in Nat, r \in 0 .. w - 1 : a = w * q + r /\ r = a % w   BY Division, Zenon
<1>2. PICK n \in Nat : m = w * n + 0   BY Division, Zenon
<1>3. a + m = w * (q + n) + r          BY <1>1, <1>2
<1> QED  BY <1>1, <1>3, Remainder, q + n \in Nat

(* Fewer than w steps do not come back to the same place. *)
LEMMA Apart ==
  ASSUME NEW w \in Nat \ {0}, NEW a \in Nat, NEW d \in 1 .. w - 1
  PROVE  (a + d) % w # a % w
<1>1. PICK q \in Nat, r \in 0 .. w - 1 : a = w * q + r /\ r = a % w   BY Division, Zenon
<1>2. CASE r + d < w
  <2>1. a + d = w * q + (r + d)   BY <1>1
  <2>2. r + d \in 0 .. w - 1      BY <1>2
  <2>3. (a + d) % w = r + d       BY <2>1, <2>2, Remainder, Zenon
  <2> QED  BY <1>1, <2>3
<1>3. CASE r + d >= w
  <2>1. a + d = w * (q + 1) + (r + d - w)           BY <1>1
  <2>2. q + 1 \in Nat /\ r + d - w \in 0 .. w - 1   BY <1>3
  <2>3. (a + d) % w = r + d - w                     BY <2>1, <2>2, Remainder, Zenon
  <2> QED  BY <1>1, <2>3
<1> QED  BY <1>1, <1>2, <1>3

(* One step of a counter that wraps, and the distance between two counters. *)
LEMMA Wrap ==
  ASSUME NEW w \in Nat \ {0}, NEW a \in Nat, a < 2 * w
  PROVE  a % w = IF a < w THEN a ELSE a - w
  BY Z3

LEMMA WrapDistance ==
  ASSUME NEW W \in Nat \ {0}, NEW r \in 0 .. W - 1, NEW w \in 0 .. W - 1
  PROVE  (w + W - r) % W = IF r <= w THEN w - r ELSE w + W - r
<1> DEFINE a == w + W - r
<1>1. a \in Nat /\ a < 2 * W
  OBVIOUS
<1>2. a % W = IF a < W THEN a ELSE a - W
  BY <1>1, Wrap, Zenon
<1> QED  BY <1>1, <1>2

(* A counter that moves on stays in its range. *)
LEMMA WrapNext ==
  ASSUME NEW W \in Nat \ {0}, NEW c \in 0 .. W - 1
  PROVE  (c + 1) % W = IF c + 1 < W THEN c + 1 ELSE 0
<1> DEFINE a == c + 1
<1>1. a \in Nat /\ a < 2 * W /\ (a < W \/ a = W)
  OBVIOUS
<1>2. a % W = IF a < W THEN a ELSE a - W
  <2> HIDE DEF a
  <2> QED  BY <1>1, Wrap, Zenon
<1> QED  BY <1>1, <1>2
=============================================================================
