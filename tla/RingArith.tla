----------------------------- MODULE RingArith -----------------------------
(* Facts about indices of a ring of d slots, in which item k lives in slot *)
(* k % d and belongs to turn k \div d, and about least numbers.            *)
EXTENDS Integers, WellFoundedInduction, TLAPS

\* Quotient and remainder of a natural number.
LEMMA DivMod ==
  ASSUME NEW d \in Nat \ {0}, NEW k \in Nat
  PROVE  /\ k \div d \in Nat
         /\ k % d \in 0 .. d - 1
         /\ k = d * (k \div d) + (k % d)
OBVIOUS

\* Quotient and remainder are unique.
LEMMA DivModUnique ==
  ASSUME NEW d \in Nat \ {0}, NEW q \in Nat, NEW p \in Nat,
         NEW r \in 0 .. d - 1, NEW s \in 0 .. d - 1,
         d * q + r = d * p + s
  PROVE  q = p /\ r = s
<1>1. d * (q - p) = s - r
  OBVIOUS
<1>2. CASE q - p >= 1
  <2>1. d * (q - p) >= d
    BY <1>2
  <2> QED BY <1>1, <2>1
<1>3. CASE q - p <= -1
  <2>1. d * (q - p) <= -d
    BY <1>3
  <2> QED BY <1>1, <2>1
<1> QED BY <1>1, <1>2, <1>3

\* The slot and the turn of item d * q + r.
LEMMA DivModOf ==
  ASSUME NEW d \in Nat \ {0}, NEW q \in Nat, NEW r \in 0 .. d - 1
  PROVE  (d * q + r) % d = r /\ (d * q + r) \div d = q
<1> DEFINE k == d * q + r
           p == k \div d
           t == k % d
<1>1. k \in Nat
  OBVIOUS
<1>2. p \in Nat /\ t \in 0 .. d - 1 /\ k = d * p + t
  BY <1>1, DivMod
<1> HIDE DEF p, t
<1>3. q = p /\ r = t
  BY <1>2, DivModUnique
<1> QED BY <1>3 DEF p, t

\* Nothing happens to an index that is in range already.
LEMMA ModSmall ==
  ASSUME NEW d \in Nat \ {0}, NEW r \in 0 .. d - 1
  PROVE  r % d = r /\ r \div d = 0
<1>1. d * 0 + r = r
  OBVIOUS
<1> QED BY <1>1, DivModOf

\* Moving n < d slots on wraps at most once.
LEMMA ModAdd ==
  ASSUME NEW d \in Nat \ {0}, NEW k \in Nat, NEW n \in 0 .. d - 1
  PROVE  (k + n) % d = IF (k % d) + n < d THEN (k % d) + n
                       ELSE ((k % d) + n) - d
<1> DEFINE q == k \div d
           r == k % d
<1>1. q \in Nat /\ r \in 0 .. d - 1 /\ k = d * q + r
  BY DivMod
<1> HIDE DEF q, r
<1>2. CASE r + n < d
  <2>1. k + n = d * q + (r + n)
    BY <1>1
  <2>2. (d * q + (r + n)) % d = r + n
    BY <1>1, <1>2, DivModOf
  <2> QED BY <1>2, <2>1, <2>2 DEF r
<1>3. CASE r + n >= d
  <2>1. k + n = d * (q + 1) + ((r + n) - d)
    BY <1>1
  <2>2. (r + n) - d \in 0 .. d - 1 /\ q + 1 \in Nat
    BY <1>1, <1>3
  <2>3. (d * (q + 1) + ((r + n) - d)) % d = (r + n) - d
    BY <2>2, DivModOf
  <2> QED BY <1>1, <1>3, <2>1, <2>3 DEF r
<1> QED BY <1>1, <1>2, <1>3

\* The code's index update computes the slot of the item n further on.
LEMMA ModAddMod ==
  ASSUME NEW d \in Nat \ {0}, NEW k \in Nat, NEW n \in 0 .. d - 1
  PROVE  ((k % d) + n) % d = (k + n) % d
<1> DEFINE r == k % d
<1>1. r \in 0 .. d - 1
  BY DivMod
<1> HIDE DEF r
<1>3. r % d = r
  BY <1>1, ModSmall
<1>4. (r + n) % d = IF (r % d) + n < d THEN (r % d) + n
                    ELSE ((r % d) + n) - d
  <2>1. r \in Nat
    BY <1>1
  <2> QED BY <2>1, ModAdd
<1> QED BY <1>3, <1>4, ModAdd DEF r

\* Items less than d apart live in different slots.
LEMMA ModDistinct ==
  ASSUME NEW d \in Nat \ {0}, NEW k \in Nat, NEW m \in Nat,
         k < m, m - k < d
  PROVE  k % d # m % d
<1> DEFINE n == m - k
<1>1. n \in 0 .. d - 1 /\ n # 0 /\ m = k + n
  OBVIOUS
<1>2. k % d \in 0 .. d - 1
  BY DivMod
<1>3. m % d = IF (k % d) + n < d THEN (k % d) + n ELSE ((k % d) + n) - d
  BY ZenonT(60), <1>1, ModAdd
<1> QED BY <1>1, <1>2, <1>3

\* The same for every window of d items that starts at b.
LEMMA WindowDistinct ==
  ASSUME NEW d \in Nat \ {0}, NEW b \in Nat, NEW c \in Nat, NEW k \in Nat,
         b <= c, c < b + d, b <= k, k < b + d, k # c
  PROVE  k % d # c % d
<1>1. CASE k < c
  <2>1. c - k < d
    OBVIOUS
  <2> QED BY <1>1, <2>1, ModDistinct
<1>2. CASE c < k
  <2>1. k - c < d
    OBVIOUS
  <2> QED BY <1>2, <2>1, ModDistinct
<1> QED BY <1>1, <1>2

\* A whole turn later the slot is the same and the turn is the next one.
LEMMA NextTurn ==
  ASSUME NEW d \in Nat \ {0}, NEW k \in Nat
  PROVE  (k + d) % d = k % d /\ (k + d) \div d = (k \div d) + 1
<1> DEFINE q == k \div d
           r == k % d
<1>1. q \in Nat /\ r \in 0 .. d - 1 /\ k = d * q + r
  BY DivMod
<1> HIDE DEF q, r
<1>2. k + d = d * (q + 1) + r
  BY <1>1
<1>3. (d * (q + 1) + r) % d = r /\ (d * (q + 1) + r) \div d = q + 1
  BY <1>1, DivModOf
<1> QED BY <1>2, <1>3 DEF q, r

\* The next item is in the next slot, or in slot 0 of the next turn.
LEMMA NextSlot ==
  ASSUME NEW d \in Nat \ {0}, NEW k \in Nat
  PROVE  /\ (k + 1) % d = IF k % d = d - 1 THEN 0 ELSE (k % d) + 1
         /\ (k + 1) \div d = IF k % d = d - 1 THEN (k \div d) + 1
                             ELSE k \div d
<1> DEFINE q == k \div d
           r == k % d
<1>1. q \in Nat /\ r \in 0 .. d - 1 /\ k = d * q + r
  BY DivMod
<1> HIDE DEF q, r
<1>2. CASE r = d - 1
  <2>1. k + 1 = d * (q + 1) + 0
    BY <1>1, <1>2
  <2>2. (d * (q + 1) + 0) % d = 0 /\ (d * (q + 1) + 0) \div d = q + 1
    BY <1>1, DivModOf
  <2> QED BY <1>2, <2>1, <2>2 DEF q, r
<1>3. CASE r # d - 1
  <2>1. k + 1 = d * q + (r + 1) /\ r + 1 \in 0 .. d - 1
    BY <1>1, <1>3
  <2>2. (d * q + (r + 1)) % d = r + 1 /\ (d * q + (r + 1)) \div d = q
    BY <1>1, <2>1, DivModOf
  <2> QED BY <1>3, <2>1, <2>2 DEF q, r
<1> QED BY <1>2, <1>3

\* The parity of consecutive numbers alternates.
LEMMA Parity ==
  ASSUME NEW q \in Nat
  PROVE  q % 2 \in {0, 1} /\ (q + 1) % 2 = 1 - (q % 2)
BY DivMod, NextSlot

\* A non-empty set of naturals has a least element.
LEMMA LeastNat ==
  ASSUME NEW T \in SUBSET Nat, T # {}
  PROVE  \E x \in T : \A y \in T : x <= y
<1>1. PICK R : /\ IsWellFoundedOn(R, Nat)
               /\ \A x, y \in Nat : x < y => <<x, y>> \in R
  <2> DEFINE Q == OpToRel(<, Nat)
  <2>1. IsWellFoundedOn(Q, Nat)
    BY NatLessThanWellFounded
  <2>2. \A x, y \in Nat : x < y => <<x, y>> \in Q
    BY DEF OpToRel
  <2> HIDE DEF Q
  <2> QED BY <2>1, <2>2
<1>2. PICK x \in T : \A y \in T : ~(<<y, x>> \in R)
  <2>1. IsWellFoundedOn(R, Nat)
    BY <1>1
  <2>2. T \subseteq Nat
    OBVIOUS
  <2> QED BY <2>1, <2>2, WFMin, Zenon
<1>3. ASSUME NEW y \in T PROVE x <= y
  <2>1. x \in Nat /\ y \in Nat /\ ~(<<y, x>> \in R)
    BY <1>2
  <2>2. ~(y < x)
    BY <1>1, <2>1
  <2> QED BY <2>1, <2>2
<1> QED BY <1>3
=============================================================================
