------------------------- MODULE ModularArithmetic --------------------------
(***************************************************************************)
(* Facts about % W for a width W that is not a literal, which the          *)
(* arithmetic of the provers does not find by itself: the firmware's       *)
(* counters, clocks and timestamps are all unsigned words.                 *)
(***************************************************************************)
EXTENDS Integers, TLAPS

\* Quotient and remainder, with the remainder in the word.
LEMMA DivMod ==
    ASSUME NEW W \in Nat \ {0}, NEW x \in Int
    PROVE  /\ x \div W \in Int /\ x % W \in 0..(W - 1)
           /\ x = W * (x \div W) + (x % W)
OBVIOUS

\* A product with a factor of at least one is no smaller than the other factor.
LEMMA ProductBound ==
    ASSUME NEW W \in Nat \ {0}, NEW d \in Int
    PROVE  /\ d >= 1 => W * d >= W
           /\ d <= -1 => W * d <= -W
OBVIOUS

\* The remainder is the only number of the word that differs from x by a multiple of W.
LEMMA RemainderUnique ==
    ASSUME NEW W \in Nat \ {0}, NEW x \in Int, NEW q \in Int, NEW r \in 0..(W - 1),
           x = W * q + r
    PROVE  x % W = r
<1> DEFINE p == x \div W
           s == x % W
<1>1. p \in Int /\ s \in 0..(W - 1) /\ x = W * p + s
  BY DivMod
<1> HIDE DEF p, s
<1>2. W * (p - q) = r - s
  BY <1>1
<1>3. p - q \in Int /\ r - s \in (-W + 1)..(W - 1)
  BY <1>1
<1>4. ~(p - q >= 1) /\ ~(p - q <= -1)
  BY <1>2, <1>3, ProductBound
<1>5. p = q
  BY <1>1, <1>4
<1> QED BY <1>1, <1>5 DEF s

\* A number of the word is its own remainder.
LEMMA RemainderSmall ==
    ASSUME NEW W \in Nat \ {0}, NEW x \in 0..(W - 1)
    PROVE  x % W = x
<1>1. x = W * 0 + x
  OBVIOUS
<1> QED BY <1>1, RemainderUnique

\* Reducing a term before adding or subtracting another changes nothing.
LEMMA RemainderOfSum ==
    ASSUME NEW W \in Nat \ {0}, NEW x \in Int, NEW y \in Int
    PROVE  ((x % W) + y) % W = (x + y) % W
<1> DEFINE z == x + y
<1>0. z \in Int
  OBVIOUS
<1> HIDE DEF z
<1>1. z \div W \in Int /\ z % W \in 0..(W - 1) /\ z = W * (z \div W) + (z % W)
  BY <1>0, DivMod
<1>2. x \div W \in Int /\ x % W \in 0..(W - 1) /\ x = W * (x \div W) + (x % W)
  BY DivMod
<1>3. (x % W) + y = W * ((z \div W) - (x \div W)) + (z % W)
  BY <1>1, <1>2 DEF z
<1>4. (x % W) + y \in Int /\ (z \div W) - (x \div W) \in Int
  BY <1>1, <1>2
<1>5. ((x % W) + y) % W = z % W
  BY <1>1, <1>3, <1>4, RemainderUnique
<1> QED BY <1>5 DEF z

\* The quotient of a number that is given by quotient and remainder.
LEMMA QuotientUnique ==
    ASSUME NEW W \in Nat \ {0}, NEW q \in Int, NEW r \in 0..(W - 1)
    PROVE  (W * q + r) \div W = q /\ (W * q + r) % W = r
<1> DEFINE x == W * q + r
<1>1. x \in Int /\ x = W * q + r
  OBVIOUS
<1> HIDE DEF x
<1>2. x % W = r
  BY <1>1, RemainderUnique
<1>3. x \div W \in Int /\ x = W * (x \div W) + r
  BY <1>1, <1>2, DivMod
<1>4. W * (q - (x \div W)) = 0 /\ q - (x \div W) \in Int
  BY <1>1, <1>3
<1>5. q - (x \div W) = 0
  BY <1>4, ProductBound
<1>6. x \div W = q
  BY <1>3, <1>5
<1> QED BY <1>2, <1>6 DEF x

\* A whole turn changes no remainder.
LEMMA RemainderOfTurn ==
    ASSUME NEW W \in Nat \ {0}, NEW x \in Int
    PROVE  (x + W) % W = x % W /\ (x - W) % W = x % W
<1>1. x \div W \in Int /\ x % W \in 0..(W - 1) /\ x = W * (x \div W) + (x % W)
  BY DivMod
<1> DEFINE q == x \div W
           r == x % W
<1> HIDE DEF q, r
<1>2. x + W = W * (q + 1) + r /\ q + 1 \in Int /\ x + W \in Int
  BY <1>1 DEF q, r
<1>3. x - W = W * (q - 1) + r /\ q - 1 \in Int /\ x - W \in Int
  BY <1>1 DEF q, r
<1>4. r \in 0..(W - 1)
  BY <1>1 DEF r
<1> QED BY <1>2, <1>3, <1>4, RemainderUnique DEF r

\* Reducing modulo a multiple of W first changes no remainder modulo W.
LEMMA RemainderOfMultiple ==
    ASSUME NEW W \in Nat \ {0}, NEW V \in Nat \ {0}, V % W = 0,
           NEW x \in Int, NEW y \in Int
    PROVE  ((x % V) + y) % W = (x + y) % W
<1>1. V = W * (V \div W) /\ V \div W \in Int
  BY DivMod
<1>2. x % V \in Int /\ x \div V \in Int /\ x = V * (x \div V) + (x % V)
  BY DivMod
<1> DEFINE d == V \div W
           q == x \div V
           r == x % V
           z == r + y
<1> HIDE DEF d, q, r
<1>3. z \in Int
  BY <1>2 DEF r
<1>4. z \div W \in Int /\ z % W \in 0..(W - 1) /\ z = W * (z \div W) + (z % W)
  BY <1>3, DivMod
<1>5. x + y = V * q + z
  BY <1>2 DEF q, r
<1>6. V * q = W * (d * q) /\ d * q \in Int
  BY <1>1, <1>2 DEF d, q
<1> DEFINE m == d * q
           e == z \div W
           s == z % W
<1> HIDE DEF z, m, e, s
<1>7. x + y = W * m + z /\ z = W * e + s /\ m \in Int /\ e \in Int /\ s \in 0..(W - 1)
  BY <1>4, <1>5, <1>6 DEF m, e, s
<1>8. (x + y) % W = s
  <2>1. x + y = W * (m + e) + s /\ m + e \in Int /\ x + y \in Int
    BY <1>7
  <2> QED BY <1>7, <2>1, RemainderUnique
<1> QED BY <1>8 DEF z, r, s

\* Reducing what is subtracted changes nothing.
LEMMA RemainderOfDifference ==
    ASSUME NEW W \in Nat \ {0}, NEW x \in Int, NEW y \in Int
    PROVE  (y - (x % W)) % W = (y - x) % W
<1> DEFINE q == x \div W
           r == x % W
           e == (y - r) \div W
           s == (y - r) % W
<1>1. q \in Int /\ r \in Int /\ x = W * q + r
  BY DivMod
<1> HIDE DEF q, r
<1>2. e \in Int /\ s \in 0..(W - 1) /\ y - r = W * e + s
  <2>1. y - r \in Int
    BY <1>1
  <2> QED BY <2>1, DivMod
<1> HIDE DEF e, s
<1>3. y - x = W * (e - q) + s /\ e - q \in Int /\ y - x \in Int
  BY <1>1, <1>2
<1>4. (y - x) % W = s
  BY <1>2, <1>3, RemainderUnique
<1> QED BY <1>4 DEF s, r

\* A distance within a word leads from the one number to the other, in both directions.
LEMMA RemainderOfDistance ==
    ASSUME NEW W \in Nat \ {0}, NEW a \in 0..(W - 1), NEW b \in 0..(W - 1)
    PROVE  /\ (a - b) % W \in 0..(W - 1)
           /\ (b + ((a - b) % W)) % W = a
           /\ (a - ((a - b) % W)) % W = b
<1> DEFINE x == a - b
<1>1. x \in Int /\ a \in Int /\ b \in Int
  OBVIOUS
<1>2. x % W \in 0..(W - 1)
  BY <1>1, DivMod
<1>3. ((x % W) + b) % W = (x + b) % W
  BY <1>1, RemainderOfSum
<1>4. (a - (x % W)) % W = (a - x) % W
  BY <1>1, RemainderOfDifference
<1>5. x + b = a /\ a - x = b
  OBVIOUS
<1>6. (x % W) + b = b + (x % W)
  BY <1>1, <1>2
<1>7. a % W = a /\ b % W = b
  BY RemainderSmall
<1> QED BY <1>2, <1>3, <1>4, <1>5, <1>6, <1>7
=============================================================================
