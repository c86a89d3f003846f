--------------------------- MODULE DivisionLemmas ---------------------------
(***************************************************************************)
(* Division by a positive number of any size: counters that wrap, and      *)
(* positions made of a slot's number and a place in the slot.              *)
(***************************************************************************)
EXTENDS Integers, TLAPS

(* Quotient and remainder, and nothing else, make up a number.             *)
LEMMA DivMod ==
  ASSUME NEW w \in Nat, w > 0, NEW x \in Int
  PROVE  /\ x \div w \in Int /\ x % w \in 0..w-1
         /\ x = w * (x \div w) + (x % w)
OBVIOUS

LEMMA Multiple ==
  ASSUME NEW w \in Nat, w > 0, NEW k \in Int
  PROVE  /\ w * k \in Int
         /\ k >= 1 => w * k >= w
         /\ k <= -1 => w * k <= -w
         /\ k >= 0 => w * k >= 0
OBVIOUS

LEMMA Distribute ==
  ASSUME NEW w \in Int, NEW j \in Int, NEW k \in Int
  PROVE  /\ w * (j + k) = w * j + w * k
         /\ w * (j - k) = w * j - w * k
         /\ w * j = j * w
OBVIOUS

LEMMA Unique ==
  ASSUME NEW w \in Nat, w > 0, NEW q \in Int, NEW r \in 0..w-1, NEW x \in Int,
         x = w * q + r
  PROVE  x \div w = q /\ x % w = r
<1>. DEFINE d == x \div w
            s == x % w
<1>1. d \in Int /\ s \in 0..w-1 /\ x = w * d + s
  BY DivMod
<1>. HIDE DEF d, s
<1>2. w * (d - q) = r - s
  BY <1>1, Distribute
<1>3. ~(d - q >= 1) /\ ~(d - q <= -1)
  BY <1>1, <1>2, Multiple
<1>4. d = q
  BY <1>1, <1>3
<1>5. s = r
  <2>1. w * d \in Int
    BY <1>1
  <2>. QED  BY <1>1, <1>4, <2>1
<1>. QED  BY <1>4, <1>5 DEF d, s

(* Whole turns do not show.                                                *)
LEMMA Turns ==
  ASSUME NEW w \in Nat, w > 0, NEW q \in Int, NEW x \in Int
  PROVE  (w * q + x) % w = x % w
<1>. DEFINE d == x \div w
            s == x % w
<1>1. d \in Int /\ s \in 0..w-1 /\ x = w * d + s
  BY DivMod
<1>. HIDE DEF d, s
<1>2. w * q + x \in Int /\ w * q + x = w * (q + d) + s
  BY <1>1, Distribute
<1>3. (w * q + x) % w = s
  BY <1>1, <1>2, Unique
<1>. QED  BY <1>3 DEF s

(* What is equal but for whole turns stays so when both move alike.        *)
LEMMA Congruent ==
  ASSUME NEW w \in Nat, w > 0, NEW a \in Int, NEW b \in Int, NEW k \in Int,
         a % w = b % w
  PROVE  (a + k) % w = (b + k) % w
<1>. DEFINE da == a \div w
            db == b \div w
            s == a % w
<1>1. /\ da \in Int /\ db \in Int /\ s \in Int
      /\ a = w * da + s /\ b = w * db + s
  BY DivMod
<1>. HIDE DEF da, db, s
<1>2. a = w * (da - db) + b
  BY <1>1, Distribute
<1>. DEFINE j == da - db
            c == b + k
<1>3. j \in Int /\ c \in Int /\ a + k = w * j + c
  <2>1. w * j \in Int
    BY <1>1, Multiple
  <2>. QED  BY <1>1, <1>2, <2>1
<1>4. (w * j + c) % w = c % w
  <2>. HIDE DEF j, c
  <2>. QED  BY <1>3, Turns
<1>. QED  BY <1>3, <1>4

(* A sum may be reduced at any time.                                       *)
LEMMA ReduceFirst ==
  ASSUME NEW w \in Nat, w > 0, NEW a \in Int, NEW k \in Int
  PROVE  ((a % w) + k) % w = (a + k) % w
<1>1. a % w \in 0..w-1
  BY DivMod
<1>2. (a % w) % w = a % w
  BY <1>1, Unique
<1>. DEFINE s == a % w
<1>3. s \in Int /\ s % w = a % w
  BY <1>1, <1>2
<1>. HIDE DEF s
<1>4. (s + k) % w = (a + k) % w
  BY <1>3, Congruent
<1>. QED  BY <1>4 DEF s

(* Between two positions that lie d apart a wrapping counter goes at most  *)
(* d from the one to the other.                                            *)
LEMMA Apart ==
  ASSUME NEW w \in Nat, w > 0, NEW a \in Int, NEW d \in Nat
  PROVE  LET from == a % w
             to == (a + d) % w
         IN  (IF to >= from THEN to - from ELSE to - from + w) <= d
<1>. DEFINE qa == a \div w
            ra == a % w
            qb == (a + d) \div w
            rb == (a + d) % w
<1>1. /\ qa \in Int /\ ra \in 0..w-1 /\ a = w * qa + ra
      /\ qb \in Int /\ rb \in 0..w-1 /\ a + d = w * qb + rb
  <2>1. a + d \in Int
    OBVIOUS
  <2>. QED  BY <2>1, DivMod
<1>. HIDE DEF qa, ra, qb, rb
<1>2. w * (qb - qa) = d - (rb - ra)
  BY <1>1, Distribute
<1>. DEFINE k == qb - qa
<1>3. k \in Int /\ w * k = d - (rb - ra)
  BY <1>1, <1>2
<1>. HIDE DEF k
<1>4. CASE rb >= ra
  <2>1. ~(k <= -1)
    BY <1>1, <1>3, <1>4, Multiple
  <2>2. w * k >= 0
    BY <1>3, <2>1, Multiple
  <2>. QED  BY <1>1, <1>3, <1>4, <2>2 DEF ra, rb
<1>5. CASE ~(rb >= ra)
  <2>1. ~(k <= 0)
    <3>1. w * k > 0
      BY <1>1, <1>3, <1>5
    <3>. QED  BY <1>3, <3>1, Multiple
  <2>2. w * k >= w
    BY <1>3, <2>1, Multiple
  <2>. QED  BY <1>1, <1>3, <1>5, <2>2 DEF ra, rb
<1>. QED  BY <1>4, <1>5
=============================================================================
