------------------------------ MODULE ModArith ------------------------------
(***************************************************************************)
(* Facts about the remainder operator that C's unsigned arithmetic and     *)
(* `index % SIZE` rest on.  They hold for every modulus, so the ring       *)
(* buffers of the kernel can be verified for every buffer size and word    *)
(* width.  And the fact that a loop from the front of a table that stops   *)
(* at the first entry of some kind finds one if there is one.              *)
(***************************************************************************)
EXTENDS Integers, WellFoundedInduction, TLAPS

\* A nonempty set of numbers has a least one.
LEMMA LeastOfNats ==
  ASSUME NEW S \in SUBSET Nat, S # {}
  PROVE  \E x \in S : \A y \in S : x <= y
<1> DEFINE R == {ss \in Nat \X Nat : ss[1] < ss[2]}
<1>1. IsWellFoundedOn(R, Nat)
  BY NatLessThanWellFounded, Zenon DEF OpToRel
<1>2. PICK x \in S : \A y \in S : ~(<<y, x>> \in R)
  <2> HIDE DEF R
  <2> QED BY <1>1, WFMin, Zenon
<1>3. \A y \in S : x <= y
  <2> SUFFICES ASSUME NEW y \in S PROVE x <= y
    OBVIOUS
  <2>1. x \in Nat /\ y \in Nat
    OBVIOUS
  <2>2. ~(<<y, x>> \in R)
    BY <1>2
  <2>3. ~(y < x)
    BY <2>1, <2>2
  <2> QED BY <2>1, <2>3
<1> QED BY <1>3

\* A nonempty set of numbers up to n has a greatest one.
LEMMA GreatestOfNats ==
  ASSUME NEW n \in Nat, NEW S \in SUBSET (0 .. n), S # {}
  PROVE  \E x \in S : \A y \in S : x >= y
<1> DEFINE D == {d \in 0 .. n : n - d \in S}
<1>1. D \in SUBSET Nat OBVIOUS
<1>2. D # {}
  <2>1. PICK x \in S : TRUE BY Zenon
  <2>2. n - x \in 0 .. n /\ n - (n - x) = x BY <2>1
  <2> QED BY <2>1, <2>2, Zenon
<1>3. PICK d \in D : \A e \in D : d <= e
  <2> HIDE DEF D
  <2> QED BY <1>1, <1>2, LeastOfNats
<1>4. ASSUME NEW y \in S PROVE n - d >= y
  <2>1. n - y \in D /\ y \in Int /\ d \in Int BY <1>4
  <2>2. d <= n - y
    <3> HIDE DEF D
    <3> QED BY <1>3, <2>1
  <2> QED BY <2>1, <2>2
<1> QED BY <1>3, <1>4

\* A remainder is a legal array index.
LEMMA ModRange ==
  ASSUME NEW a \in Int, NEW n \in Nat \ {0}
  PROVE  a % n \in 0 .. n - 1
  OBVIOUS

\* Division with remainder.
LEMMA DivMod ==
  ASSUME NEW a \in Int, NEW n \in Nat \ {0}
  PROVE  a \div n \in Int /\ a = n * (a \div n) + (a % n)
  OBVIOUS

\* A positive multiple of n is at least n, a negative one at most -n.
LEMMA Multiple ==
  ASSUME NEW n \in Nat \ {0}, NEW q \in Int
  PROVE  /\ q >= 1 => n * q >= n
         /\ q <= -1 => n * q <= -n
  OBVIOUS

\* a % n is the only index of 0..n-1 that differs from a by a multiple of n.
LEMMA ModUnique ==
  ASSUME NEW a \in Int, NEW n \in Nat \ {0}, NEW q \in Int,
         NEW r \in 0 .. n - 1, a = n * q + r
  PROVE  a % n = r
<1> DEFINE p == a \div n  s == a % n
<1>1. p \in Int /\ s \in 0 .. n - 1 /\ a = n * p + s
  BY ModRange, DivMod
<1> HIDE DEF p, s
<1>2. n * (q - p) = s - r
  BY <1>1
<1>3. ~(q - p >= 1) /\ ~(q - p <= -1)
  BY <1>1, <1>2, Multiple
<1>4. s = r
  BY <1>1, <1>2, <1>3
<1> QED BY <1>4 DEF s

\* Numbers that differ by a multiple of n have the same remainder.
LEMMA ModCongruent ==
  ASSUME NEW n \in Nat \ {0}, NEW b \in Int, NEW q \in Int
  PROVE  (b + n * q) % n = b % n
<1> DEFINE p == b \div n  s == b % n
<1>1. p \in Int /\ s \in 0 .. n - 1 /\ b = n * p + s
  BY ModRange, DivMod
<1> HIDE DEF p, s
<1>2. n * p + n * q = n * (p + q)
  BY <1>1
<1>3. b + n * q = n * (p + q) + s
  BY <1>1, <1>2
<1>4. b + n * q \in Int /\ p + q \in Int
  BY <1>1
<1>5. (b + n * q) % n = s
  BY <1>1, <1>3, <1>4, ModUnique
<1> QED BY <1>5 DEF s

\* Wrapping early or late makes no difference to a sum.
LEMMA ModPlus ==
  ASSUME NEW a \in Int, NEW b \in Int, NEW n \in Nat \ {0}
  PROVE  ((a % n) + b) % n = (a + b) % n
<1> DEFINE q == a \div n  s == a % n
<1>1. q \in Int /\ s \in 0 .. n - 1 /\ a = n * q + s
  BY ModRange, DivMod
<1> HIDE DEF q, s
<1>2. n * (-q) = -(n * q)
  BY <1>1
<1>3. s + b = (a + b) + n * (-q)
  BY <1>1, <1>2
<1>4. a + b \in Int /\ -q \in Int
  BY <1>1
<1>5. (s + b) % n = (a + b) % n
  <2>1. ((a + b) + n * (-q)) % n = (a + b) % n BY <1>4, ModCongruent, Zenon
  <2> QED BY <1>3, <2>1
<1> QED BY <1>5 DEF s

\* Unsigned subtraction of two wrapped counters.
LEMMA ModMinus ==
  ASSUME NEW a \in Int, NEW b \in Int, NEW n \in Nat \ {0}
  PROVE  ((a % n) - (b % n)) % n = (a - b) % n
<1> DEFINE p == b \div n  s == b % n
<1>1. p \in Int /\ s \in 0 .. n - 1 /\ b = n * p + s
  BY ModRange, DivMod
<1> HIDE DEF p, s
<1>2. ((a % n) - s) % n = (a - s) % n
  <2>1. -s \in Int
    BY <1>1
  <2>2. ((a % n) + (-s)) % n = (a + (-s)) % n
    BY <2>1, ModPlus, Zenon
  <2>3. (a % n) + (-s) = (a % n) - s /\ a + (-s) = a - s
    BY <1>1, ModRange
  <2> QED BY <2>2, <2>3
<1>3. (a - s) % n = (a - b) % n
  <2>1. a - b \in Int /\ p \in Int
    BY <1>1
  <2>2. a - s = (a - b) + n * p
    BY <1>1
  <2>3. ((a - b) + n * p) % n = (a - b) % n
    BY <2>1, ModCongruent, Zenon
  <2> QED BY <2>2, <2>3
<1> QED BY <1>2, <1>3 DEF s

\* A number within the range of the counter is its own remainder.
LEMMA ModSmall ==
  ASSUME NEW n \in Nat \ {0}, NEW a \in 0 .. n - 1
  PROVE  a % n = a
  OBVIOUS

\* Fewer than n consecutive numbers fall into different slots.
LEMMA ModDistinct ==
  ASSUME NEW n \in Nat \ {0}, NEW i \in Int, NEW j \in Int,
         i < j, j - i < n
  PROVE  i % n # j % n
<1> SUFFICES ASSUME i % n = j % n PROVE FALSE
  OBVIOUS
<1>1. (j - i) % n = ((j % n) - (i % n)) % n
  BY ModMinus, Zenon
<1>2. (j % n) - (i % n) = 0
  BY ModRange
<1>3. 0 % n = 0 /\ (j - i) % n = j - i
  <2>1. 0 \in 0 .. n - 1 /\ j - i \in 0 .. n - 1 OBVIOUS
  <2> QED BY <2>1, ModSmall, Zenon
<1> QED BY <1>1, <1>2, <1>3

\* If n divides m, wrapping at m does not disturb the position modulo n.
LEMMA ModMod ==
  ASSUME NEW m \in Nat \ {0}, NEW n \in Nat \ {0}, m % n = 0, NEW a \in Int
  PROVE  (a % m) % n = a % n
<1> DEFINE q == a \div m  k == m \div n  s == a % m
<1>1. q \in Int /\ s \in 0 .. m - 1 /\ a = m * q + s
  BY ModRange, DivMod
<1>2. k \in Int /\ m = n * k
  BY DivMod
<1> HIDE DEF q, k, s
<1>3. m * q = n * (k * q) /\ k * q \in Int
  BY <1>1, <1>2
<1>4. a = s + n * (k * q)
  BY <1>1, <1>3
<1>5. s \in Int
  BY <1>1
<1>6. a % n = s % n
  BY <1>3, <1>4, <1>5, ModCongruent, Zenon
<1> QED BY <1>6 DEF s

\* An addition after a wrap at m is seen modulo n as if there had been none.
LEMMA ModModPlus ==
  ASSUME NEW m \in Nat \ {0}, NEW n \in Nat \ {0}, m % n = 0,
         NEW a \in Int, NEW b \in Int
  PROVE  ((a % m) + b) % n = (a + b) % n
<1> DEFINE c == a % m
<1>1. c \in Int BY ModRange
<1>2. c % n = a % n BY ModMod, Zenon
<1> HIDE DEF c
<1>3. ((c % n) + b) % n = (c + b) % n BY <1>1, ModPlus, Zenon
<1>4. ((a % n) + b) % n = (a + b) % n BY ModPlus, Zenon
<1> QED BY <1>2, <1>3, <1>4 DEF c

\* Moving the front of two wrapped counters by k changes their distance by k,
\* when the result is a distance.
LEMMA WrapFront ==
  ASSUME NEW n \in Nat \ {0}, NEW a \in 0 .. n - 1, NEW b \in 0 .. n - 1, NEW k \in Int,
         ((a - b) % n) + k \in 0 .. n - 1
  PROVE  (((a + k) % n) - b) % n = ((a - b) % n) + k
<1> DEFINE c == a + k  d == a - b
<1>1. c \in Int /\ d \in Int /\ -b \in Int /\ c + (-b) = d + k OBVIOUS
<1>2. ((d % n) + k) % n = (d % n) + k BY ModSmall, Zenon
<1> HIDE DEF c, d
<1>3. ((c % n) + (-b)) % n = (c + (-b)) % n BY <1>1, ModPlus, Zenon
<1>4. ((d % n) + k) % n = (d + k) % n BY <1>1, ModPlus, Zenon
<1>5. (c % n) + (-b) = (c % n) - b
  <2>1. c % n \in Int BY <1>1, ModRange
  <2> QED BY <2>1
<1> QED BY <1>1, <1>2, <1>3, <1>4, <1>5 DEF c, d

\* Moving the back by k changes it by -k.
LEMMA WrapBack ==
  ASSUME NEW n \in Nat \ {0}, NEW a \in 0 .. n - 1, NEW b \in 0 .. n - 1, NEW k \in Int,
         ((a - b) % n) - k \in 0 .. n - 1
  PROVE  (a - ((b + k) % n)) % n = ((a - b) % n) - k
<1> DEFINE c == b + k  d == a - b  g == d % n
<1>1. a \in Int /\ c \in Int /\ d \in Int /\ -k \in Int /\ a - c = d + (-k) OBVIOUS
<1>2. a % n = a BY ModSmall, Zenon
<1>3. (g - k) % n = g - k BY ModSmall, Zenon
<1>4. g \in Int BY <1>1, ModRange
<1>5. (g + (-k)) % n = (d + (-k)) % n
  <2> HIDE DEF d
  <2> QED BY <1>1, ModPlus, Zenon
<1> HIDE DEF c, d, g
<1>6. ((a % n) - (c % n)) % n = (a - c) % n BY <1>1, ModMinus, Zenon
<1>7. g + (-k) = g - k BY <1>4
<1> QED BY <1>1, <1>2, <1>3, <1>5, <1>6, <1>7 DEF c, d, g

\* Two counters at distance 0 are equal.
LEMMA WrapZero ==
  ASSUME NEW n \in Nat \ {0}, NEW a \in 0 .. n - 1, NEW b \in 0 .. n - 1
  PROVE  (((a - b) % n) + b) % n = a /\ (a - a) % n = 0
<1> DEFINE d == a - b
<1>1. d + b = a /\ a - a = 0 /\ 0 \in 0 .. n - 1 OBVIOUS
<1>2. a % n = a /\ 0 % n = 0 BY <1>1, ModSmall, Zenon
<1>3. d \in Int /\ b \in Int OBVIOUS
<1> HIDE DEF d
<1>4. ((d % n) + b) % n = (d + b) % n BY <1>3, ModPlus, Zenon
<1> QED BY <1>1, <1>2, <1>4 DEF d
=============================================================================
