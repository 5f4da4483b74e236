---------------------------- MODULE Amounts_proofs ----------------------------
(***************************************************************************)
(* Lemmas about amounts: the rounding of WadRayMath, for every unit and    *)
(* every index, and the sums of what the holders of a token have, for any  *)
(* finite number of holders.                                               *)
(***************************************************************************)
EXTENDS WadRayMath, FiniteSetsExt, FiniteSetTheorems, TLAPS

(* What a truncating division returns, and that nothing else does. *)
LEMMA DivBounds ==
    ASSUME NEW a \in Nat, NEW b \in Nat \ {0}
    PROVE  /\ a \div b \in Nat
           /\ b * (a \div b) <= a
           /\ a < b * (a \div b) + b
  BY SMT

LEMMA DivUnique ==
    ASSUME NEW a \in Nat, NEW b \in Nat \ {0}, NEW q \in Nat,
           b * q <= a, a < b * q + b
    PROVE  a \div b = q
  BY SMT

LEMMA HalfBounds ==
    ASSUME NEW n \in Nat
    PROVE  /\ n \div 2 \in Nat
           /\ 2 * (n \div 2) <= n
           /\ n <= 2 * (n \div 2) + 1
  BY SMT

LEMMA RayMulType ==
    ASSUME NEW a \in Nat, NEW b \in Nat
    PROVE  RayMul(a, b) \in Nat
  <1>1. a * b + (RAY \div 2) \in Nat
    BY HalfBounds, UnitAssumption, SMT
  <1> QED
    BY <1>1, DivBounds, UnitAssumption DEF RayMul

LEMMA RayDivType ==
    ASSUME NEW a \in Nat, NEW b \in Nat \ {0}
    PROVE  RayDiv(a, b) \in Nat
  <1>1. a * RAY + (b \div 2) \in Nat
    BY HalfBounds, UnitAssumption, SMT
  <1> QED
    BY <1>1, DivBounds DEF RayDiv

(***************************************************************************)
(* A balance read through an index and handed back whole is exactly the    *)
(* scaled balance it was read from: RayDiv undoes RayMul whenever the      *)
(* index is at least one ray.  This is what makes "repay everything" and   *)
(* "withdraw everything" burn the whole scaled balance and leave no debt   *)
(* that the borrower's flags no longer show.                               *)
(***************************************************************************)
THEOREM RoundTrip ==
    ASSUME NEW s \in Nat, NEW index \in Nat, index >= RAY
    PROVE  RayDiv(RayMul(s, index), index) = s
  <1> DEFINE h == RAY \div 2
             k == index \div 2
             p == s * index
             m == RayMul(s, index)
  <1>1. /\ RAY \in Nat \ {0}
        /\ index \in Nat \ {0}
    BY UnitAssumption, SMT
  <1>2. /\ h \in Nat /\ 2 * h <= RAY /\ RAY <= 2 * h + 1
        /\ k \in Nat /\ 2 * k <= index /\ index <= 2 * k + 1
    BY <1>1, HalfBounds
  <1>3. p \in Nat
    BY <1>1, SMT
  <1>4. /\ m \in Nat
        /\ RAY * m <= p + h
        /\ p + h < RAY * m + RAY
    <2>1. p + h \in Nat
      BY <1>2, <1>3
    <2>2. m = (p + h) \div RAY
      BY DEF RayMul
    <2> QED
      BY <1>1, <2>1, <2>2, DivBounds
  <1> DEFINE r == RAY * m
  <1>5. r \in Nat
    BY <1>1, <1>4, SMT
  <1>6. p <= r + k
    BY <1>1, <1>2, <1>3, <1>4, <1>5
  <1>7. r + k < p + index
    <2>1. CASE index > RAY
      BY <2>1, <1>1, <1>2, <1>3, <1>4, <1>5
    <2>2. CASE index = RAY
      <3>1. RAY * m <= RAY * s + h
        BY <2>2, <1>4, SMT
      <3>2. m <= s
        BY <3>1, <1>1, <1>2, <1>4, SMT
      <3>3. RAY * m <= RAY * s
        BY <3>2, <1>1, <1>4, SMT
      <3>4. r <= p
        BY <2>2, <3>3, <1>1, <1>4, SMT
      <3>5. k < index
        BY <1>1, <1>2
      <3> QED
        BY <3>4, <3>5, <1>1, <1>2, <1>3, <1>5
    <2> QED
      BY <2>1, <2>2, <1>1
  <1>8. /\ index * s <= m * RAY + k
        /\ m * RAY + k < index * s + index
    BY <1>1, <1>4, <1>6, <1>7, SMT
  <1>9. m * RAY + k \in Nat
    BY <1>1, <1>2, <1>4, SMT
  <1>10. (m * RAY + k) \div index = s
    BY <1>1, <1>8, <1>9, DivUnique
  <1> QED
    BY <1>10 DEF RayDiv

LEMMA RayDivOfNothing ==
    ASSUME NEW b \in Nat \ {0}
    PROVE  RayDiv(0, b) = 0
  <1>1. (b \div 2) \in Nat /\ b \div 2 < b /\ RAY \in Nat
    BY HalfBounds, UnitAssumption
  <1>2. (b \div 2) \div b = 0
    BY <1>1, DivUnique
  <1> QED
    BY <1>1, <1>2 DEF RayDiv

(* A factor of at least one does not shrink an amount. *)
LEMMA RayMulGrows ==
    ASSUME NEW a \in Nat, a >= RAY, NEW b \in Nat
    PROVE  RayMul(a, b) \in Nat /\ RayMul(a, b) >= b
  <1> DEFINE h == RAY \div 2
             q == RayMul(a, b)
  <1>1. RAY \in Nat \ {0} /\ h \in Nat
    BY HalfBounds, UnitAssumption
  <1>2. a * b + h \in Nat
    BY <1>1, SMT
  <1>3. q \in Nat /\ a * b + h < RAY * q + RAY
    BY <1>1, <1>2, DivBounds DEF RayMul
  <1>4. b * RAY <= a * b
    BY <1>1, SMT
  <1>5. a * b \in Nat /\ b * RAY \in Nat /\ RAY * q \in Nat
    BY <1>1, <1>3, SMT
  <1>6. b * RAY < RAY * q + RAY
    BY <1>1, <1>3, <1>4, <1>5
  <1> QED
    BY <1>1, <1>3, <1>6, SMT

(* Products and quotients of naturals grow with their operands. *)
LEMMA TimesMonotone ==
    ASSUME NEW a \in Nat, NEW b \in Nat, NEW c \in Nat, NEW d \in Nat, a <= c, b <= d
    PROVE  a * b \in Nat /\ c * d \in Nat /\ a * b <= c * d
  <1>1. a * b <= c * b
    BY SMT
  <1>2. c * b <= c * d
    BY SMT
  <1>3. a * b \in Nat /\ c * b \in Nat /\ c * d \in Nat
    BY SMT
  <1> QED
    BY <1>1, <1>2, <1>3

LEMMA DivMonotone ==
    ASSUME NEW a \in Nat, NEW c \in Nat, NEW n \in Nat \ {0}, a <= c
    PROVE  a \div n \in Nat /\ c \div n \in Nat /\ a \div n <= c \div n
  <1> DEFINE p == a \div n
             q == c \div n
  <1>1. p \in Nat /\ n * p <= a /\ q \in Nat /\ c < n * q + n
    BY DivBounds
  <1>2. ASSUME q + 1 <= p PROVE FALSE
    <2>1. n * (q + 1) \in Nat /\ n * p \in Nat /\ n * (q + 1) <= n * p
      BY <1>1, <1>2, TimesMonotone
    <2>2. n * (q + 1) = n * q + n /\ n * q \in Nat
      BY <1>1, SMT
    <2> QED
      BY <1>1, <2>1, <2>2
  <1> QED
    BY <1>1, <1>2

LEMMA RayMulMonotone ==
    ASSUME NEW a \in Nat, NEW b \in Nat, NEW c \in Nat, NEW d \in Nat, a <= c, b <= d
    PROVE  RayMul(a, b) <= RayMul(c, d)
  <1>1. a * b \in Nat /\ c * d \in Nat /\ a * b <= c * d
    BY TimesMonotone
  <1>2. (RAY \div 2) \in Nat
    BY UnitAssumption, HalfBounds
  <1>3. a * b + (RAY \div 2) \in Nat /\ c * d + (RAY \div 2) \in Nat
        /\ a * b + (RAY \div 2) <= c * d + (RAY \div 2)
    BY <1>1, <1>2
  <1> QED
    BY <1>3, UnitAssumption, DivMonotone DEF RayMul

(* At an index of one ray amounts are what they are scaled to. *)
LEMMA AtOneRay ==
    ASSUME NEW n \in Nat
    PROVE  RayMul(n, RAY) = n /\ RayDiv(n, RAY) = n
  <1>1. RAY \in Nat \ {0} /\ (RAY \div 2) \in Nat /\ RAY \div 2 < RAY
    BY HalfBounds, UnitAssumption
  <1>2. n * RAY \in Nat /\ n * RAY = RAY * n
    BY <1>1, SMT
  <1>3. (n * RAY + (RAY \div 2)) \div RAY = n
    <2>1. n * RAY + (RAY \div 2) \in Nat
      BY <1>1, <1>2
    <2> QED
      BY <1>1, <1>2, <2>1, DivUnique
  <1> QED
    BY <1>3 DEF RayMul, RayDiv

-----------------------------------------------------------------------------
(* Rounding within totals. *)

LEMMA Products ==
    ASSUME NEW a \in Int, NEW b \in Int, NEW c \in Int
    PROVE  /\ a * b \in Int /\ a * b = b * a
           /\ a * (b + c) = a * b + a * c
           /\ a * (b - c) = a * b - a * c
           /\ (a \in Nat /\ b \in Nat => a * b \in Nat)
  BY SMT

(* An amount that is minted is worth what was paid for it, to within one, also
   as a part of a total that is rounded itself. *)
LEMMA MintRounds ==
    ASSUME NEW s \in Nat, NEW x \in Nat, NEW i \in Nat, RAY <= i, i <= 2 * RAY
    PROVE  RayMul(s + RayDiv(x, i), i) - RayMul(s, i) - x \in {-1, 0, 1}
  <1> DEFINE h == RAY \div 2
             k == i \div 2
             m == RayDiv(x, i)
             a == RayMul(s, i)
             b == RayMul(s + m, i)
  <1>1. /\ RAY \in Nat \ {0} /\ i \in Nat \ {0}
        /\ h \in Nat /\ h < RAY
        /\ k \in Nat /\ k <= RAY /\ i - k <= RAY
    BY HalfBounds, UnitAssumption
  <1>2. x * RAY \in Nat /\ s * i \in Nat
    BY <1>1, Products
  <1>3. m \in Nat /\ i * m <= x * RAY + k /\ x * RAY + k < i * m + i
    <2>1. x * RAY + k \in Nat
      BY <1>1, <1>2
    <2> QED
      BY <1>1, <2>1, DivBounds DEF RayDiv
  <1>4. a \in Nat /\ RAY * a <= s * i + h /\ s * i + h < RAY * a + RAY
    <2>1. s * i + h \in Nat
      BY <1>1, <1>2
    <2> QED
      BY <1>1, <2>1, DivBounds DEF RayMul
  <1>5. (s + m) * i = s * i + i * m /\ i * m \in Nat
    <2> HIDE DEF m
    <2> QED
      BY <1>3, Products
  <1>6. b \in Nat /\ RAY * b <= s * i + i * m + h /\ s * i + i * m + h < RAY * b + RAY
    <2>1. (s + m) * i + h \in Nat
      BY <1>1, <1>2, <1>5
    <2>2. b = ((s + m) * i + h) \div RAY
      BY DEF RayMul
    <2> QED
      BY <1>1, <1>5, <2>1, <2>2, DivBounds
  <1> DEFINE e == b - a - x
  <1> HIDE DEF h, k, m, a, b
  <1>7. /\ RAY * e = RAY * b - RAY * a - x * RAY /\ RAY * a \in Nat /\ RAY * b \in Nat
        /\ e \in Int
    <2>1. e \in Int /\ b - a \in Int /\ RAY \in Int /\ a \in Int /\ b \in Int /\ x \in Int
      BY <1>1, <1>4, <1>6
    <2>2. RAY * (b - a) = RAY * b - RAY * a /\ RAY * ((b - a) - x) = RAY * (b - a) - RAY * x
      BY <2>1, Products
    <2>3. RAY * x = x * RAY /\ RAY * a \in Nat /\ RAY * b \in Nat
      BY <1>1, <1>4, <1>6, Products
    <2> QED
      BY <2>1, <2>2, <2>3
  <1>8. RAY * e < 2 * RAY /\ 0 - 2 * RAY < RAY * e
    BY <1>1, <1>2, <1>3, <1>4, <1>5, <1>6, <1>7
  <1>9. e < 2 /\ -2 < e
    <2> HIDE DEF e
    <2> QED
      BY <1>1, <1>7, <1>8, SMT
  <1>10. e \in {-1, 0, 1}
    BY <1>7, <1>9
  <1> QED
    BY <1>10 DEF e, a, b, m

LEMMA Expansion ==
    ASSUME NEW r \in Int, NEW s \in Int, NEW i \in Int, NEW j \in Int, NEW d \in Int,
           NEW t \in Int, NEW u \in Int, NEW p \in Int
    PROVE  r * (r * (u - t - p))
               = r * (r * u - s * j) + s * (r * j - (d + r) * i)
                 + r * (t * d - p * r) - (d + r) * (r * t - s * i)
  BY SMT

(* A factor keeps the order. *)
LEMMA ScaledBounds ==
    ASSUME NEW f \in Nat, NEW x \in Int, NEW y \in Int, 2 * x <= y, -y <= 2 * x
    PROVE  f * x \in Int /\ f * y \in Int /\ 2 * (f * x) <= f * y /\ -(f * y) <= 2 * (f * x)
  BY SMT

LEMMA FactorCancels ==
    ASSUME NEW f \in Nat \ {0}, NEW x \in Int, NEW y \in Int
    PROVE  /\ f * x <= f * y => x <= y
           /\ f * x < f * y => x < y
  BY SMT

(* What a premium adds to the claims is the premium, to within one, whatever the
   index is brought to by it within twice a ray. *)
LEMMA PremiumRounds ==
    ASSUME NEW s \in Nat, 3 * s < RAY, NEW p \in Nat,
           NEW i \in Nat, RAY <= i, i <= 2 * RAY, RayMul(s, i) # 0,
           NEW j, j = RayMul(RayDiv(p, RayMul(s, i)) + RAY, i), j <= 2 * RAY
    PROVE  RayMul(s, j) - RayMul(s, i) - p \in {-1, 0, 1}
  <1> DEFINE h == RAY \div 2
             t == RayMul(s, i)
             k == t \div 2
             d == RayDiv(p, t)
             u == RayMul(s, j)
  <1>1. RAY \in Nat \ {0} /\ h \in Nat /\ 2 * h <= RAY /\ RAY <= 2 * h + 1
    BY HalfBounds, UnitAssumption
  <1>2. /\ t \in Nat \ {0} /\ s * i \in Nat
        /\ RAY * t <= s * i + h /\ s * i + h < RAY * t + RAY
    <2>1. s * i \in Nat
      BY <1>1, Products
    <2>2. s * i + h \in Nat
      BY <1>1, <2>1
    <2> QED
      BY <1>1, <2>1, <2>2, DivBounds DEF RayMul
  <1>3. k \in Nat /\ 2 * k <= t /\ t <= 2 * k + 1
    BY <1>2, HalfBounds
  <1>4. /\ d \in Nat /\ p * RAY \in Nat
        /\ t * d <= p * RAY + k /\ p * RAY + k < t * d + t
    <2>1. p * RAY \in Nat
      BY <1>1, Products
    <2>2. p * RAY + k \in Nat
      BY <1>3, <2>1
    <2> QED
      BY <1>2, <2>1, <2>2, DivBounds DEF RayDiv
  <1>5. /\ j \in Nat /\ (d + RAY) * i \in Nat
        /\ RAY * j <= (d + RAY) * i + h /\ (d + RAY) * i + h < RAY * j + RAY
    <2>1. (d + RAY) * i \in Nat
      <3>1. d + RAY \in Nat
        BY <1>1, <1>4
      <3> HIDE DEF d
      <3> QED
        BY <3>1, Products
    <2>2. (d + RAY) * i + h \in Nat /\ j = ((d + RAY) * i + h) \div RAY
      BY <1>1, <2>1 DEF RayMul
    <2> QED
      BY <1>1, <2>1, <2>2, DivBounds
  <1>6. u \in Nat /\ s * j \in Nat /\ RAY * u <= s * j + h /\ s * j + h < RAY * u + RAY
    <2>1. s * j \in Nat
      BY <1>5, Products
    <2>2. s * j + h \in Nat
      BY <1>1, <2>1
    <2> QED
      BY <1>1, <2>1, <2>2, DivBounds DEF RayMul
  (* The four rounding errors. *)
  <1> DEFINE e0 == RAY * t - s * i
             e1 == t * d - p * RAY
             e2 == RAY * j - (d + RAY) * i
             e3 == RAY * u - s * j
             e  == u - t - p
  <1> HIDE DEF h, k, t, d, u
  <1>7. RAY * t \in Nat /\ t * d \in Nat /\ RAY * j \in Nat /\ RAY * u \in Nat
    BY <1>1, <1>2, <1>4, <1>5, <1>6, Products
  <1>8. /\ e0 \in Int /\ -RAY <= 2 * e0 /\ 2 * e0 <= RAY
        /\ e2 \in Int /\ -RAY <= 2 * e2 /\ 2 * e2 <= RAY
        /\ e3 \in Int /\ -RAY <= 2 * e3 /\ 2 * e3 <= RAY
        /\ e1 \in Int /\ -t <= 2 * e1 /\ 2 * e1 <= t
    BY <1>1, <1>2, <1>3, <1>4, <1>5, <1>6, <1>7
  <1>9. t <= 2 * s
    <2>1. s * i <= RAY * (2 * s)
      <3>1. s * i <= s * (2 * RAY)
        BY <1>1, SMT
      <3>2. s * (2 * RAY) = RAY * (2 * s)
        BY <1>1, SMT
      <3> QED
        BY <3>1, <3>2
    <2>2. RAY * (2 * s + 1) = RAY * (2 * s) + RAY /\ RAY * (2 * s) \in Nat
      BY <1>1, SMT
    <2>3. RAY * t < RAY * (2 * s + 1)
      BY <1>1, <1>2, <1>7, <2>1, <2>2
    <2>4. t < 2 * s + 1
      BY <1>1, <1>2, <2>3, FactorCancels
    <2> QED
      BY <1>2, <2>4
  <1>10. d <= RAY
    <2>1. (d + RAY) * RAY <= (d + RAY) * i
      BY <1>1, <1>4, SMT
    <2>2. RAY * j <= RAY * (2 * RAY)
      BY <1>1, <1>5, SMT
    <2>3. (d + RAY) * RAY = RAY * (d + RAY) /\ RAY * (d + RAY) \in Nat
      BY <1>1, <1>4, SMT
    <2>4. RAY * (2 * RAY + 1) = RAY * (2 * RAY) + RAY /\ RAY * (2 * RAY) \in Nat
      BY <1>1, SMT
    <2>5. RAY * (d + RAY) < RAY * (2 * RAY + 1)
      BY <1>1, <1>5, <1>7, <2>1, <2>2, <2>3, <2>4
    <2>6. d + RAY < 2 * RAY + 1
      BY <1>1, <1>4, <2>5, FactorCancels
    <2> QED
      BY <1>1, <1>4, <2>6
  <1>11. e \in Int /\ RAY * e \in Int
         /\ RAY * (RAY * e) = RAY * e3 + s * e2 + RAY * e1 - (d + RAY) * e0
    <2>1. /\ RAY \in Int /\ s \in Int /\ i \in Int /\ j \in Int /\ d \in Int /\ t \in Int
          /\ u \in Int /\ p \in Int
      BY <1>1, <1>2, <1>4, <1>5, <1>6
    <2>2. e \in Int
      BY <2>1
    <2>3. RAY * e \in Int
      BY <2>1, <2>2, Products
    <2> QED
      BY <2>1, <2>2, <2>3, Expansion
  <1> HIDE DEF e, e0, e1, e2, e3
  <1>12. /\ RAY * e3 \in Int /\ 2 * (RAY * e3) <= RAY * RAY /\ -(RAY * RAY) <= 2 * (RAY * e3)
         /\ s * e2 \in Int /\ 2 * (s * e2) <= s * RAY /\ -(s * RAY) <= 2 * (s * e2)
         /\ RAY * e1 \in Int /\ 2 * (RAY * e1) <= RAY * t /\ -(RAY * t) <= 2 * (RAY * e1)
    BY <1>1, <1>2, <1>8, ScaledBounds
  <1>13. /\ (d + RAY) * e0 \in Int /\ 2 * ((d + RAY) * e0) <= (d + RAY) * RAY
         /\ -((d + RAY) * RAY) <= 2 * ((d + RAY) * e0)
    <2>1. d + RAY \in Nat
      BY <1>1, <1>4
    <2> QED
      BY <1>1, <1>8, <2>1, ScaledBounds
  <1> DEFINE bound == 2 * RAY + s + t + d
  <1>14. bound \in Nat /\ bound < 4 * RAY
    BY <1>1, <1>2, <1>4, <1>9, <1>10
  <1>15. RAY * bound = RAY * RAY + s * RAY + RAY * t + (d + RAY) * RAY
    BY <1>1, <1>2, <1>4, SMT
  <1>16. s * RAY \in Nat /\ RAY * RAY \in Nat /\ (d + RAY) * RAY \in Nat /\ RAY * bound \in Nat
    BY <1>1, <1>4, <1>14, SMT
  <1>17. 2 * (RAY * (RAY * e)) <= RAY * bound /\ -(RAY * bound) <= 2 * (RAY * (RAY * e))
    <2> HIDE DEF bound
    <2> QED
      BY <1>7, <1>11, <1>12, <1>13, <1>15, <1>16
  <1>18. 2 * (RAY * e) <= bound /\ -bound <= 2 * (RAY * e)
    <2> HIDE DEF bound
    <2>1. /\ RAY * (2 * (RAY * e)) = 2 * (RAY * (RAY * e))
          /\ RAY * (-bound) = -(RAY * bound)
      BY <1>1, <1>11, <1>14, SMT
    <2>2. 2 * (RAY * e) \in Int /\ -bound \in Int
      BY <1>11, <1>14
    <2> QED
      BY <1>1, <1>14, <1>17, <2>1, <2>2, FactorCancels
  <1>19. RAY * e < RAY * 2 /\ RAY * (-2) < RAY * e
    BY <1>1, <1>11, <1>14, <1>18
  <1>20. e < 2 /\ -2 < e
    BY <1>1, <1>11, <1>19, FactorCancels
  <1>21. e \in {-1, 0, 1}
    BY <1>11, <1>20
  <1> QED
    BY <1>21 DEF e, t, u

-----------------------------------------------------------------------------
(* Percentages. *)

LEMMA PercentMulType ==
    ASSUME NEW v \in Nat, NEW p \in Nat
    PROVE  PercentMul(v, p) \in Nat
  <1>1. v * p + (PERCENTAGE_FACTOR \div 2) \in Nat
    BY HalfBounds, UnitAssumption, SMT
  <1> QED
    BY <1>1, DivBounds, UnitAssumption DEF PercentMul

LEMMA PercentDivType ==
    ASSUME NEW v \in Nat, NEW p \in Nat \ {0}
    PROVE  PercentDiv(v, p) \in Nat
  <1>1. v * PERCENTAGE_FACTOR + (p \div 2) \in Nat
    BY HalfBounds, UnitAssumption, SMT
  <1> QED
    BY <1>1, DivBounds DEF PercentDiv

(* At most 100% of a value is at most the value, and a value over at least
   100% is too. *)
LEMMA PercentMulBound ==
    ASSUME NEW v \in Nat, NEW p \in Nat, p <= PERCENTAGE_FACTOR
    PROVE  PercentMul(v, p) <= v
  <1> DEFINE F == PERCENTAGE_FACTOR
             h == F \div 2
             q == PercentMul(v, p)
  <1>1. F \in Nat \ {0}
    BY UnitAssumption
  <1>2. h \in Nat /\ 2 * h <= F
    BY <1>1, HalfBounds
  <1>3. v * p + h \in Nat
    BY <1>2, SMT
  <1>4. q \in Nat /\ F * q <= v * p + h
    BY <1>1, <1>3, DivBounds DEF PercentMul
  <1>5. v * p <= v * F
    BY <1>1, SMT
  <1>6. v * p \in Nat /\ v * F \in Nat /\ F * q \in Nat
    BY <1>1, <1>4, SMT
  <1>7. F * q < v * F + F
    BY <1>1, <1>2, <1>4, <1>5, <1>6
  <1> QED
    BY <1>1, <1>4, <1>7, SMT

(* At least 100% of a value is at least the value. *)
LEMMA PercentMulAtLeast ==
    ASSUME NEW v \in Nat, NEW p \in Nat, p >= PERCENTAGE_FACTOR
    PROVE  PercentMul(v, p) >= v
  <1> DEFINE F == PERCENTAGE_FACTOR
             h == F \div 2
             q == PercentMul(v, p)
  <1>1. F \in Nat \ {0}
    BY UnitAssumption
  <1>2. h \in Nat
    BY <1>1, HalfBounds
  <1>3. v * p + h \in Nat
    BY <1>2, SMT
  <1>4. q \in Nat /\ v * p + h < F * q + F
    BY <1>1, <1>3, DivBounds DEF PercentMul
  <1>5. v * F <= v * p
    BY <1>1, SMT
  <1>6. v * p \in Nat /\ v * F \in Nat /\ F * q \in Nat
    BY <1>1, <1>4, SMT
  <1>7. v * F < F * q + F
    BY <1>1, <1>2, <1>4, <1>5, <1>6
  <1> QED
    BY <1>1, <1>4, <1>7, SMT

LEMMA PercentDivBound ==
    ASSUME NEW v \in Nat, NEW p \in Nat, p >= PERCENTAGE_FACTOR
    PROVE  PercentDiv(v, p) <= v
  <1> DEFINE F == PERCENTAGE_FACTOR
             h == p \div 2
             q == PercentDiv(v, p)
  <1>1. F \in Nat \ {0} /\ p \in Nat \ {0}
    BY UnitAssumption, SMT
  <1>2. h \in Nat /\ 2 * h <= p
    BY <1>1, HalfBounds
  <1>3. v * F + h \in Nat
    BY <1>1, <1>2, SMT
  <1>4. q \in Nat /\ p * q <= v * F + h
    BY <1>1, <1>3, DivBounds DEF PercentDiv
  <1>5. v * F <= v * p
    BY <1>1, SMT
  <1>6. v * p \in Nat /\ v * F \in Nat /\ p * q \in Nat
    BY <1>1, <1>4, SMT
  <1>7. p * q < v * p + p
    BY <1>1, <1>2, <1>4, <1>5, <1>6
  <1> QED
    BY <1>1, <1>4, <1>7, SMT

-----------------------------------------------------------------------------
(* Sums.  SumFunctionOnSet is a fold, whose recursion is over the subsets of a
   finite set; what it computes is shown by induction on them, which is drawn
   from the fact that the natural numbers are well-founded. *)

(* What holds of 0 and of each successor holds of every natural number. *)
LEMMA SetInduction ==
    ASSUME NEW T, 0 \in T, \A n \in Nat : n \in T => n + 1 \in T
    PROVE  Nat \subseteq T
  <1> DEFINE Out == {n \in Nat : n \notin T}
  <1>1. SUFFICES ASSUME Out # {} PROVE FALSE
    OBVIOUS
  <1>2. PICK n \in Out : \A m \in Out : ~(<<m, n>> \in OpToRel(<, Nat))
    BY <1>1, NatLessThanWellFounded, WFMin
  <1>3. \A m \in Out : ~(m < n)
    BY <1>2 DEF OpToRel
  <1>4. n # 0 /\ n \in Nat
    OBVIOUS
  <1>5. n - 1 \in Nat /\ n - 1 < n /\ (n - 1) + 1 = n
    BY <1>4
  <1>6. n - 1 \in T
    BY <1>3, <1>5
  <1> QED
    BY <1>4, <1>5, <1>6

(* The subsets of a finite set, from the smaller to the larger. *)
LEMMA SubsetInduction ==
    ASSUME NEW S, IsFiniteSet(S), NEW T, {} \in T,
           \A s \in SUBSET S : s # {} /\ (\A x \in s : s \ {x} \in T) => s \in T
    PROVE  SUBSET S \subseteq T
  <1> DEFINE Good == {n \in Nat : \A s \in SUBSET S : Cardinality(s) = n => s \in T}
  <1>1. \A s \in SUBSET S : IsFiniteSet(s) /\ Cardinality(s) \in Nat
    BY FS_Subset, FS_CardinalityType
  <1>2. 0 \in Good
    BY <1>1, FS_EmptySet
  <1>3. ASSUME NEW n \in Nat, n \in Good PROVE n + 1 \in Good
    <2> SUFFICES ASSUME NEW s \in SUBSET S, Cardinality(s) = n + 1 PROVE s \in T
      BY <1>3
    <2>1. s # {}
      BY <1>3, FS_EmptySet
    <2>2. ASSUME NEW x \in s PROVE s \ {x} \in T
      <3>1. Cardinality(s \ {x}) = n
        BY <1>1, FS_RemoveElement
      <3> QED
        BY <3>1, <1>3
    <2> QED
      BY <2>1, <2>2
  <1>4. Nat \subseteq Good
    <2> HIDE DEF Good
    <2> QED
      BY <1>2, <1>3, SetInduction
  <1> QED
    BY <1>1, <1>4

(* The function that SumFunctionOnSet folds with: a sum for each subset of S. *)
IsSum(g, f, S) ==
    g = [s \in SUBSET S |-> IF s = {} THEN 0
                            ELSE f[CHOOSE x \in s : TRUE] + g[s \ {CHOOSE x \in s : TRUE}]]

LEMMA SumDefinition ==
    ASSUME NEW f, NEW S
    PROVE  SumFunctionOnSet(f, S) = (CHOOSE g : IsSum(g, f, S))[S]
  BY DEF SumFunctionOnSet, FoldFunctionOnSet, MapThenFoldSet, IsSum

LEMMA SumExists ==
    ASSUME NEW f, NEW S, IsFiniteSet(S)
    PROVE  \E g : IsSum(g, f, S)
  <1> DEFINE Pick(s) == CHOOSE x \in s : TRUE
             Upto(n) == {s \in SUBSET S : Cardinality(s) <= n}
             Part(g, n) == g = [s \in Upto(n) |-> IF s = {} THEN 0
                                                 ELSE f[Pick(s)] + g[s \ {Pick(s)}]]
             Good == {n \in Nat : \E g : Part(g, n)}
  <1>1. \A s \in SUBSET S : IsFiniteSet(s) /\ Cardinality(s) \in Nat
    BY FS_Subset, FS_CardinalityType
  <1>2. 0 \in Good
    <2>1. \A s \in Upto(0) : s = {}
      BY <1>1, FS_EmptySet
    <2>2. Part([s \in Upto(0) |-> 0], 0)
      BY <2>1
    <2> QED
      BY <2>2
  <1>3. ASSUME NEW n \in Nat, n \in Good PROVE n + 1 \in Good
    <2>1. PICK g : Part(g, n)
      BY <1>3
    <2> DEFINE h == [s \in Upto(n + 1) |-> IF s = {} THEN 0
                                           ELSE f[Pick(s)] + g[s \ {Pick(s)}]]
    <2>2. Upto(n) \subseteq Upto(n + 1)
      BY <1>1
    <2>3. ASSUME NEW s \in Upto(n + 1), s # {} PROVE s \ {Pick(s)} \in Upto(n)
      <3>1. Pick(s) \in s
        BY <2>3
      <3>2. Cardinality(s \ {Pick(s)}) = Cardinality(s) - 1
        BY <3>1, <1>1, FS_RemoveElement
      <3> QED
        BY <3>2, <1>1
    <2>4. \A s \in Upto(n) : h[s] = g[s]
      <3> HIDE DEF Upto, Pick
      <3> QED
        BY <2>1, <2>2
    <2>5. Part(h, n + 1)
      <3> HIDE DEF Upto, Pick
      <3> QED
        BY <2>3, <2>4
    <2>6. \E k : Part(k, n + 1)
      <3> HIDE DEF Upto, h, Part
      <3> QED
        BY <2>5
    <2> QED
      <3> HIDE DEF Part
      <3> QED
        BY <2>6
  <1>4. Nat \subseteq Good
    <2> HIDE DEF Good
    <2> QED
      BY <1>2, <1>3, SetInduction
  <1>5. PICK g : Part(g, Cardinality(S))
    BY <1>1, <1>4
  <1>6. Upto(Cardinality(S)) = SUBSET S
    BY <1>1, FS_Subset
  <1> QED
    BY <1>5, <1>6 DEF IsSum

LEMMA SumAgrees ==
    ASSUME NEW S, NEW T, IsFiniteSet(S), S \subseteq T, NEW e, NEW f, NEW g, NEW h,
           \A x \in S : e[x] = f[x], IsSum(g, e, S), IsSum(h, f, T)
    PROVE  \A s \in SUBSET S : g[s] = h[s]
  <1> DEFINE Same == {s \in SUBSET S : g[s] = h[s]}
  <1>1. {} \in Same
    BY DEF IsSum
  <1>2. ASSUME NEW s \in SUBSET S, s # {}, \A x \in s : s \ {x} \in Same
        PROVE  s \in Same
    <2>1. PICK x : x = CHOOSE y \in s : TRUE
      OBVIOUS
    <2>2. x \in s
      BY <1>2, <2>1
    <2>3. g[s] = e[x] + g[s \ {x}] /\ h[s] = f[x] + h[s \ {x}]
      BY <1>2, <2>1 DEF IsSum
    <2> QED
      BY <1>2, <2>2, <2>3
  <1> HIDE DEF Same
  <1>3. SUBSET S \subseteq Same
    BY <1>1, <1>2, SubsetInduction
  <1> QED
    BY <1>3 DEF Same

LEMMA SumOf ==
    ASSUME NEW f, NEW S, IsFiniteSet(S)
    PROVE  \E g : IsSum(g, f, S) /\ \A s \in SUBSET S : SumFunctionOnSet(f, s) = g[s]
  <1>1. PICK g : IsSum(g, f, S)
    BY SumExists
  <1>2. ASSUME NEW s \in SUBSET S PROVE SumFunctionOnSet(f, s) = g[s]
    <2>1. IsFiniteSet(s)
      BY FS_Subset
    <2>2. PICK h : h = CHOOSE k : IsSum(k, f, s)
      OBVIOUS
    <2>3. IsSum(h, f, s)
      BY <2>1, <2>2, SumExists
    <2>4. h[s] = g[s]
      BY <1>1, <2>1, <2>3, SumAgrees
    <2> QED
      BY <2>2, <2>4, SumDefinition
  <1> QED
    BY <1>1, <1>2

(* Functions that agree on a finite set have the same sum on it. *)
LEMMA SumCongruence ==
    ASSUME NEW e, NEW f, NEW S, IsFiniteSet(S), \A x \in S : e[x] = f[x]
    PROVE  SumFunctionOnSet(e, S) = SumFunctionOnSet(f, S)
  <1>1. PICK g : IsSum(g, e, S) /\ \A s \in SUBSET S : SumFunctionOnSet(e, s) = g[s]
    BY SumOf
  <1>2. PICK h : IsSum(h, f, S) /\ \A s \in SUBSET S : SumFunctionOnSet(f, s) = h[s]
    BY SumOf
  <1>3. \A s \in SUBSET S : g[s] = h[s]
    <2>1. S \subseteq S /\ IsSum(g, e, S) /\ IsSum(h, f, S)
      BY <1>1, <1>2
    <2> QED
      BY ONLY <2>1, IsFiniteSet(S), \A x \in S : e[x] = f[x], SumAgrees
  <1> QED
    BY <1>1, <1>2, <1>3

LEMMA SumEmpty ==
    ASSUME NEW f
    PROVE  SumFunctionOnSet(f, {}) = 0
  <1>1. PICK g : IsSum(g, f, {}) /\ \A s \in SUBSET {} : SumFunctionOnSet(f, s) = g[s]
    BY SumOf, FS_EmptySet
  <1> QED
    BY <1>1 DEF IsSum

(* The sum of natural numbers is one, and any of them may be counted first. *)
LEMMA SumType ==
    ASSUME NEW f, NEW S, IsFiniteSet(S), \A x \in S : f[x] \in Nat
    PROVE  SumFunctionOnSet(f, S) \in Nat
  <1>1. PICK g : IsSum(g, f, S) /\ \A s \in SUBSET S : SumFunctionOnSet(f, s) = g[s]
    BY SumOf
  <1> DEFINE Typed == {s \in SUBSET S : g[s] \in Nat}
  <1>2. {} \in Typed
    BY <1>1 DEF IsSum
  <1>3. ASSUME NEW s \in SUBSET S, s # {}, \A x \in s : s \ {x} \in Typed
        PROVE  s \in Typed
    <2>1. PICK x : x = CHOOSE y \in s : TRUE
      OBVIOUS
    <2>2. x \in s
      BY <1>3, <2>1
    <2>3. g[s] = f[x] + g[s \ {x}]
      BY <1>1, <1>3, <2>1 DEF IsSum
    <2>4. f[x] \in Nat /\ g[s \ {x}] \in Nat
      BY <1>3, <2>2
    <2> QED
      BY <2>3, <2>4
  <1>4. SUBSET S \subseteq Typed
    <2> HIDE DEF Typed
    <2> QED
      BY <1>2, <1>3, SubsetInduction
  <1> QED
    BY <1>1, <1>4

LEMMA SumRemove ==
    ASSUME NEW f, NEW S, IsFiniteSet(S), \A x \in S : f[x] \in Nat, NEW x \in S
    PROVE  SumFunctionOnSet(f, S) = f[x] + SumFunctionOnSet(f, S \ {x})
  <1>1. PICK g : IsSum(g, f, S) /\ \A s \in SUBSET S : SumFunctionOnSet(f, s) = g[s]
    BY SumOf
  <1>2. \A s \in SUBSET S : g[s] \in Nat
    BY <1>1, SumType, FS_Subset
  <1> DEFINE Free == {s \in SUBSET S : \A y \in s : g[s] = f[y] + g[s \ {y}]}
  <1>3. {} \in Free
    OBVIOUS
  <1>4. ASSUME NEW s \in SUBSET S, s # {}, \A y \in s : s \ {y} \in Free
        PROVE  s \in Free
    <2> SUFFICES ASSUME NEW y \in s PROVE g[s] = f[y] + g[s \ {y}]
      OBVIOUS
    <2>1. PICK c : c = CHOOSE z \in s : TRUE
      OBVIOUS
    <2>2. c \in s
      BY <1>4, <2>1
    <2>3. g[s] = f[c] + g[s \ {c}]
      BY <1>1, <1>4, <2>1 DEF IsSum
    <2>4. CASE y # c
      <3>1. g[s \ {c}] = f[y] + g[(s \ {c}) \ {y}]
        BY <1>4, <2>2, <2>4
      <3>2. g[s \ {y}] = f[c] + g[(s \ {y}) \ {c}]
        BY <1>4, <2>2, <2>4
      <3>3. (s \ {c}) \ {y} = (s \ {y}) \ {c}
        OBVIOUS
      <3>4. PICK rest \in Nat : rest = g[(s \ {y}) \ {c}]
        BY <1>2
      <3>5. f[c] \in Nat /\ f[y] \in Nat
        BY <2>2
      <3> QED
        BY <2>3, <3>1, <3>2, <3>3, <3>4, <3>5, SMTT(30)
    <2> QED
      BY <2>3, <2>4
  <1>5. SUBSET S \subseteq Free
    <2> HIDE DEF Free
    <2> QED
      BY <1>3, <1>4, SubsetInduction
  <1> QED
    BY <1>1, <1>5

(* One amount changes: the sum changes by as much. *)
LEMMA SumChange ==
    ASSUME NEW S, IsFiniteSet(S), NEW x \in S, NEW e \in [S -> Nat], NEW f \in [S -> Nat],
           \A y \in S : y # x => f[y] = e[y]
    PROVE  SumFunctionOnSet(f, S) = SumFunctionOnSet(e, S) - e[x] + f[x]
  <1>1. PICK rest \in Nat : rest = SumFunctionOnSet(e, S \ {x})
    BY SumType, FS_RemoveElement
  <1>2. SumFunctionOnSet(f, S \ {x}) = SumFunctionOnSet(e, S \ {x})
    BY SumCongruence, FS_RemoveElement
  <1>3. SumFunctionOnSet(e, S) = e[x] + rest /\ SumFunctionOnSet(f, S) = f[x] + rest
    BY <1>1, <1>2, SumRemove
  <1> QED
    BY <1>1, <1>3

(* No amount exceeds the sum. *)
LEMMA SumBound ==
    ASSUME NEW S, IsFiniteSet(S), NEW x \in S, NEW f \in [S -> Nat]
    PROVE  f[x] <= SumFunctionOnSet(f, S)
  <1>1. PICK rest \in Nat : rest = SumFunctionOnSet(f, S \ {x})
    BY SumType, FS_RemoveElement
  <1>2. SumFunctionOnSet(f, S) = f[x] + rest
    BY <1>1, SumRemove
  <1> QED
    BY <1>1, <1>2

(* A sum of no amounts but zeros. *)
LEMMA SumOfZeros ==
    ASSUME NEW S, IsFiniteSet(S), NEW f, \A x \in S : f[x] = 0
    PROVE  SumFunctionOnSet(f, S) = 0
  <1>1. PICK g : IsSum(g, f, S) /\ \A s \in SUBSET S : SumFunctionOnSet(f, s) = g[s]
    BY SumOf
  <1> DEFINE Zero == {s \in SUBSET S : g[s] = 0}
  <1>2. {} \in Zero
    BY <1>1 DEF IsSum
  <1>3. ASSUME NEW s \in SUBSET S, s # {}, \A x \in s : s \ {x} \in Zero
        PROVE  s \in Zero
    <2>1. PICK x : x = CHOOSE y \in s : TRUE
      OBVIOUS
    <2>2. x \in s
      BY <1>3, <2>1
    <2>3. g[s] = f[x] + g[s \ {x}]
      BY <1>1, <1>3, <2>1 DEF IsSum
    <2> QED
      BY <1>3, <2>2, <2>3
  <1>4. SUBSET S \subseteq Zero
    <2> HIDE DEF Zero
    <2> QED
      BY <1>2, <1>3, SubsetInduction
  <1> QED
    BY <1>1, <1>4

(* A sum does not depend on what its amounts are indexed by. *)
LEMMA SumReindexed ==
    ASSUME NEW S, IsFiniteSet(S), NEW T, IsFiniteSet(T), NEW h, T = {h[x] : x \in S},
           \A x, y \in S : h[x] = h[y] => x = y,
           NEW f, NEW g, \A x \in S : f[h[x]] = g[x] /\ g[x] \in Nat
    PROVE  SumFunctionOnSet(f, T) = SumFunctionOnSet(g, S)
  <1> DEFINE Image(s) == {h[x] : x \in s}
             Same == {s \in SUBSET S : SumFunctionOnSet(f, Image(s)) = SumFunctionOnSet(g, s)}
  <1>1. {} \in Same
    <2>1. Image({}) = {}
      OBVIOUS
    <2> QED
      BY <2>1, SumEmpty
  <1>2. ASSUME NEW s \in SUBSET S, s # {}, \A x \in s : s \ {x} \in Same
        PROVE  s \in Same
    <2>1. PICK x : x \in s
      BY <1>2
    <2>2. SumFunctionOnSet(g, s) = g[x] + SumFunctionOnSet(g, s \ {x})
      <3>1. IsFiniteSet(s) /\ \A y \in s : g[y] \in Nat
        BY FS_Subset
      <3> QED
        BY <2>1, <3>1, SumRemove
    <2>3. SumFunctionOnSet(f, Image(s)) = f[h[x]] + SumFunctionOnSet(f, Image(s) \ {h[x]})
      <3>1. IsFiniteSet(Image(s))
        <4>1. Image(s) \subseteq T
          OBVIOUS
        <4> HIDE DEF Image
        <4> QED
          BY <4>1, FS_Subset
      <3>2. \A y \in Image(s) : f[y] \in Nat
        OBVIOUS
      <3>3. h[x] \in Image(s)
        BY <2>1
      <3> HIDE DEF Image
      <3> QED
        BY <3>1, <3>2, <3>3, SumRemove
    <2>4. Image(s) \ {h[x]} = Image(s \ {x})
      BY <2>1
    <2>5. SumFunctionOnSet(f, Image(s \ {x})) = SumFunctionOnSet(g, s \ {x})
      BY <1>2, <2>1
    <2>6. f[h[x]] = g[x]
      BY <2>1
    <2> HIDE DEF Image
    <2> QED
      BY <2>2, <2>3, <2>4, <2>5, <2>6
  <1>3. SUBSET S \subseteq Same
    <2> HIDE DEF Same
    <2> QED
      BY <1>1, <1>2, SubsetInduction
  <1> QED
    BY <1>3

(* What is outside a part of the set, if it is all zeros, adds nothing to the sum of
   the part. *)
LEMMA SumOfPart ==
    ASSUME NEW S, IsFiniteSet(S), NEW T \in SUBSET S, NEW f, NEW g,
           \A x \in T : f[x] = g[x] /\ g[x] \in Nat,
           \A x \in S : x \notin T => g[x] = 0
    PROVE  SumFunctionOnSet(f, T) = SumFunctionOnSet(g, S)
  <1> DEFINE Same == {s \in SUBSET S : SumFunctionOnSet(f, s \cap T) = SumFunctionOnSet(g, s)}
  <1>1. {} \in Same
    <2>1. {} \cap T = {}
      OBVIOUS
    <2> QED
      BY <2>1, SumEmpty
  <1>2. ASSUME NEW s \in SUBSET S, s # {}, \A x \in s : s \ {x} \in Same
        PROVE  s \in Same
    <2>1. PICK x : x \in s
      BY <1>2
    <2>2. IsFiniteSet(s) /\ IsFiniteSet(s \cap T) /\ s \cap T \in SUBSET S
      BY FS_Subset
    <2>3. SumFunctionOnSet(g, s) = g[x] + SumFunctionOnSet(g, s \ {x})
      <3>1. \A y \in s : g[y] \in Nat
        OBVIOUS
      <3> QED
        BY <2>1, <2>2, <3>1, SumRemove
    <2>4. SumFunctionOnSet(f, (s \ {x}) \cap T) = SumFunctionOnSet(g, s \ {x})
      BY <1>2, <2>1
    <2>5. SumFunctionOnSet(g, s \ {x}) \in Nat
      <3>1. IsFiniteSet(s \ {x}) /\ \A y \in s \ {x} : g[y] \in Nat
        BY <2>2, FS_Subset
      <3> QED
        BY <3>1, SumType
    <2>6. CASE x \in T
      <3>1. x \in s \cap T /\ (s \cap T) \ {x} = (s \ {x}) \cap T
        BY <2>1, <2>6
      <3>2. \A y \in s \cap T : f[y] \in Nat
        OBVIOUS
      <3>3. SumFunctionOnSet(f, s \cap T) = f[x] + SumFunctionOnSet(f, (s \cap T) \ {x})
        BY <2>2, <3>1, <3>2, SumRemove
      <3>4. f[x] = g[x]
        BY <2>6
      <3> QED
        BY <2>3, <2>4, <3>1, <3>3, <3>4
    <2>7. CASE x \notin T
      <3>1. s \cap T = (s \ {x}) \cap T
        BY <2>7
      <3>2. g[x] = 0
        BY <2>1, <2>7
      <3>3. SumFunctionOnSet(g, s) = SumFunctionOnSet(g, s \ {x})
        BY <2>3, <2>5, <3>2
      <3> QED
        BY <2>4, <3>1, <3>3
    <2> QED
      BY <2>6, <2>7
  <1>3. SUBSET S \subseteq Same
    <2> HIDE DEF Same
    <2> QED
      BY <1>1, <1>2, SubsetInduction
  <1>4. S \in Same /\ S \cap T = T
    BY <1>3
  <1> QED
    BY <1>4
=============================================================================
