----------------------- MODULE ReserveAccounting_proofs -----------------------
(***************************************************************************)
(* Theorems about a reserve over time, for all users, amounts, units,      *)
(* strategies and lengths of time: rates are defined, nothing unsigned is  *)
(* driven below zero, settling interest never reverts, no index ever       *)
(* falls, totals are sums, and a transaction moves one account alone.      *)
(***************************************************************************)
EXTENDS ReserveScenarios, Amounts_proofs

-----------------------------------------------------------------------------
(* Interest and rates: factors of interest are at least one and grow with
   time, and the rates of every reserve are defined, however little or much of
   it is lent out. *)

LEMMA Units ==
    /\ RAY \in Nat \ {0} /\ WAD \in Nat \ {0} /\ PERCENTAGE_FACTOR \in Nat \ {0}
    /\ SECONDS_PER_YEAR \in Nat \ {0}
  BY UnitAssumption, StrategyAssumption

(* One is neutral. *)
LEMMA RayMulOne ==
    ASSUME NEW b \in Nat
    PROVE  RayMul(RAY, b) = b
  <1> DEFINE h == RAY \div 2
  <1>1. h \in Nat /\ h < RAY
    BY Units, HalfBounds
  <1>2. RAY * b \in Nat
    BY Units, SMT
  <1>3. (RAY * b + h) \div RAY = b
    BY <1>1, <1>2, Units, DivUnique
  <1> QED
    BY <1>3 DEF RayMul

LEMMA RayMulZero ==
    ASSUME NEW b \in Nat
    PROVE  RayMul(0, b) = 0
  <1> DEFINE h == RAY \div 2
  <1>1. h \in Nat /\ h < RAY
    BY Units, HalfBounds
  <1>2. 0 * b + h = h
    BY <1>1, SMT
  <1>3. RAY * 0 = 0
    BY Units, SMT
  <1>4. h \div RAY = 0
    BY <1>1, <1>3, Units, DivUnique
  <1> QED
    BY <1>2, <1>4 DEF RayMul

(* A part of a whole is at most one. *)
LEMMA RayDivOfPart ==
    ASSUME NEW a \in Nat, NEW b \in Nat \ {0}, a <= b
    PROVE  RayDiv(a, b) \in 0 .. RAY
  <1> DEFINE h == b \div 2
  <1>1. h \in Nat /\ h < b
    BY HalfBounds
  <1>2. a * RAY \in Nat /\ b * RAY \in Nat /\ a * RAY <= b * RAY
    BY Units, TimesMonotone
  <1>3. (a * RAY + h) \div b <= (b * RAY + h) \div b
    <2>1. a * RAY + h \in Nat /\ b * RAY + h \in Nat /\ a * RAY + h <= b * RAY + h
      BY <1>1, <1>2
    <2> QED
      BY <2>1, DivMonotone
  <1>4. (b * RAY + h) \div b = RAY
    <2>1. b * RAY + h \in Nat
      BY <1>1, <1>2
    <2> QED
      BY <1>1, <1>2, <2>1, Units, DivUnique
  <1>5. RayDiv(a, b) \in Nat
    BY RayDivType
  <1> QED
    BY <1>3, <1>4, <1>5, Units DEF RayDiv

LEMMA WadToRayType ==
    ASSUME NEW a \in Nat
    PROVE  WadToRay(a) \in Nat /\ (a # 0 => WadToRay(a) # 0)
  <1> DEFINE k == RAY \div WAD
  <1>1. RAY = WAD * k /\ k \in Nat
    BY Units, StrategyAssumption, SMT
  <1>2. k # 0
    BY <1>1, Units, SMT
  <1>3. a * k \in Nat /\ (a # 0 => a * k # 0)
    BY <1>1, <1>2, SMT
  <1> QED
    BY <1>3 DEF WadToRay

-----------------------------------------------------------------------------
(* Interest. *)

LEMMA LinearInterestType ==
    ASSUME NEW rate \in Nat, NEW e \in Nat
    PROVE  LinearInterest(rate, e) \in Nat /\ LinearInterest(rate, e) >= RAY
  <1>1. rate * e \in Nat
    BY SMT
  <1>2. (rate * e) \div SECONDS_PER_YEAR \in Nat
    BY <1>1, Units, DivBounds
  <1> QED
    BY <1>2, Units DEF LinearInterest

LEMMA LinearInterestMonotone ==
    ASSUME NEW rate \in Nat, NEW e \in Nat, NEW f \in Nat, e <= f
    PROVE  LinearInterest(rate, e) <= LinearInterest(rate, f)
  <1>1. rate * e \in Nat /\ rate * f \in Nat /\ rate * e <= rate * f
    BY TimesMonotone
  <1>2. /\ (rate * e) \div SECONDS_PER_YEAR \in Nat
        /\ (rate * f) \div SECONDS_PER_YEAR \in Nat
        /\ (rate * e) \div SECONDS_PER_YEAR <= (rate * f) \div SECONDS_PER_YEAR
    BY <1>1, Units, DivMonotone
  <1> QED
    BY <1>2, Units DEF LinearInterest

LEMMA LinearInterestAtOnce ==
    ASSUME NEW rate \in Nat
    PROVE  LinearInterest(rate, 0) = RAY
  <1>1. rate * 0 = 0 /\ 0 \div SECONDS_PER_YEAR = 0
    BY Units, SMT
  <1> QED
    BY <1>1, Units DEF LinearInterest

LEMMA LinearInterestOfNothing ==
    ASSUME NEW e \in Nat
    PROVE  LinearInterest(0, e) = RAY
  <1>1. 0 * e = 0 /\ 0 \div SECONDS_PER_YEAR = 0
    BY Units, SMT
  <1> QED
    BY <1>1, Units DEF LinearInterest

(* The number of pairs and triples of seconds, twice and six times. *)
Pairs(e) == e * (e - 1)
Triples(e) == IF e > 2 THEN Pairs(e) * (e - 2) ELSE 0

LEMMA PairsAndTriples ==
    ASSUME NEW e \in Nat, NEW f \in Nat, e <= f
    PROVE  /\ Pairs(e) \in Nat /\ Pairs(f) \in Nat /\ Pairs(e) <= Pairs(f)
           /\ Triples(e) \in Nat /\ Triples(f) \in Nat /\ Triples(e) <= Triples(f)
  <1>1. \A n \in Nat : Pairs(n) \in Nat
    <2> SUFFICES ASSUME NEW n \in Nat PROVE Pairs(n) \in Nat
      OBVIOUS
    <2>1. CASE n = 0
      BY <2>1, SMT DEF Pairs
    <2>2. CASE n # 0
      <3>1. n - 1 \in Nat
        BY <2>2
      <3> QED
        BY <3>1, SMT DEF Pairs
    <2> QED
      BY <2>1, <2>2
  <1>2. \A n \in Nat : Triples(n) \in Nat
    <2> SUFFICES ASSUME NEW n \in Nat, n > 2 PROVE Pairs(n) * (n - 2) \in Nat
      BY DEF Triples
    <2>1. n - 2 \in Nat /\ Pairs(n) \in Nat
      BY <1>1
    <2> QED
      BY <2>1, SMT
  <1>3. Pairs(e) <= Pairs(f)
    <2>1. CASE e = 0
      <3>1. Pairs(e) = 0
        BY <2>1, SMT DEF Pairs
      <3> QED
        BY <3>1, <1>1
    <2>2. CASE e # 0
      <3>1. e - 1 \in Nat /\ f - 1 \in Nat /\ e - 1 <= f - 1
        BY <2>2
      <3> QED
        BY <3>1, TimesMonotone DEF Pairs
    <2> QED
      BY <2>1, <2>2
  <1>4. Triples(e) <= Triples(f)
    <2>1. CASE e <= 2
      BY <2>1, <1>2 DEF Triples
    <2>2. CASE e > 2
      <3>1. e - 2 \in Nat /\ f - 2 \in Nat /\ e - 2 <= f - 2 /\ f > 2
        BY <2>2
      <3>2. Pairs(e) * (e - 2) <= Pairs(f) * (f - 2)
        BY <3>1, <1>1, <1>3, TimesMonotone
      <3> QED
        BY <2>2, <3>1, <3>2 DEF Triples
    <2> QED
      BY <2>1, <2>2
  <1> QED
    BY <1>1, <1>2, <1>3, <1>4

(* The two coefficients of the binomial, in ray. *)
Squared(rate) == RayMul(rate, rate) \div (SECONDS_PER_YEAR * SECONDS_PER_YEAR)
Cubed(rate) == RayMul(Squared(rate), rate) \div SECONDS_PER_YEAR

LEMMA Coefficients ==
    ASSUME NEW rate \in Nat
    PROVE  Squared(rate) \in Nat /\ Cubed(rate) \in Nat
  <1>1. SECONDS_PER_YEAR * SECONDS_PER_YEAR \in Nat \ {0}
    BY Units, SMT
  <1>2. Squared(rate) \in Nat
    BY <1>1, RayMulType, DivBounds DEF Squared
  <1> QED
    BY <1>2, Units, RayMulType, DivBounds DEF Cubed

LEMMA Binomial ==
    ASSUME NEW rate \in Nat, NEW e \in Nat
    PROVE  CompoundedInterest(rate, e) =
               RAY + (rate * e) \div SECONDS_PER_YEAR
                   + (Pairs(e) * Squared(rate)) \div 2 + (Triples(e) * Cubed(rate)) \div 6
  BY DEF CompoundedInterest, Pairs, Triples, Squared, Cubed

(* Compound interest is at least one, and the longer the time the more. *)
LEMMA CompoundedInterestMonotone ==
    ASSUME NEW rate \in Nat, NEW e \in Nat, NEW f \in Nat, e <= f
    PROVE  /\ CompoundedInterest(rate, e) \in Nat /\ CompoundedInterest(rate, f) \in Nat
           /\ RAY <= CompoundedInterest(rate, e)
           /\ CompoundedInterest(rate, e) <= CompoundedInterest(rate, f)
  <1> DEFINE s == Squared(rate)
             c == Cubed(rate)
             One(n) == (rate * n) \div SECONDS_PER_YEAR
             Two(n) == (Pairs(n) * s) \div 2
             Three(n) == (Triples(n) * c) \div 6
  <1>1. s \in Nat /\ c \in Nat
    BY Coefficients
  <1>2. One(e) \in Nat /\ One(f) \in Nat /\ One(e) <= One(f)
    <2>1. rate * e \in Nat /\ rate * f \in Nat /\ rate * e <= rate * f
      BY TimesMonotone
    <2> QED
      BY <2>1, Units, DivMonotone
  <1>3. Two(e) \in Nat /\ Two(f) \in Nat /\ Two(e) <= Two(f)
    <2>0. Pairs(e) \in Nat /\ Pairs(f) \in Nat /\ Pairs(e) <= Pairs(f)
      BY PairsAndTriples
    <2>1. Pairs(e) * s \in Nat /\ Pairs(f) * s \in Nat /\ Pairs(e) * s <= Pairs(f) * s
      <3> HIDE DEF s
      <3> QED
        BY <1>1, <2>0, TimesMonotone
    <2> QED
      BY <2>1, DivMonotone
  <1>4. Three(e) \in Nat /\ Three(f) \in Nat /\ Three(e) <= Three(f)
    <2>1. /\ Triples(e) * c \in Nat /\ Triples(f) * c \in Nat
          /\ Triples(e) * c <= Triples(f) * c
      <3>1. Triples(e) \in Nat /\ Triples(f) \in Nat /\ Triples(e) <= Triples(f)
        BY PairsAndTriples
      <3> HIDE DEF c
      <3> QED
        BY <1>1, <3>1, TimesMonotone
    <2> QED
      BY <2>1, DivMonotone
  <1>5. /\ CompoundedInterest(rate, e) = RAY + One(e) + Two(e) + Three(e)
        /\ CompoundedInterest(rate, f) = RAY + One(f) + Two(f) + Three(f)
    BY Binomial
  <1> HIDE DEF s, c, One, Two, Three
  <1> QED
    BY <1>2, <1>3, <1>4, <1>5, Units

LEMMA CompoundedInterestType ==
    ASSUME NEW rate \in Nat, NEW e \in Nat
    PROVE  CompoundedInterest(rate, e) \in Nat /\ CompoundedInterest(rate, e) >= RAY
  <1>1. e <= e
    OBVIOUS
  <1>2. CompoundedInterest(rate, e) \in Nat /\ RAY <= CompoundedInterest(rate, e)
    BY <1>1, CompoundedInterestMonotone
  <1> QED
    BY <1>2, Units

LEMMA CompoundedInterestAtOnce ==
    ASSUME NEW rate \in Nat
    PROVE  CompoundedInterest(rate, 0) = RAY
  <1>1. Pairs(0) = 0 /\ Triples(0) = 0
    BY SMT DEF Pairs, Triples
  <1>2. /\ (rate * 0) \div SECONDS_PER_YEAR = 0
        /\ (0 * Squared(rate)) \div 2 = 0
        /\ (0 * Cubed(rate)) \div 6 = 0
    <2>1. \A n \in Nat \ {0} : 0 \div n = 0
      BY SMT
    <2>2. \A n \in Nat : 0 * n = 0 /\ n * 0 = 0
      BY SMT
    <2> QED
      BY <2>1, <2>2, Coefficients, Units
  <1>3. CompoundedInterest(rate, 0) =
            RAY + (rate * 0) \div SECONDS_PER_YEAR
                + (Pairs(0) * Squared(rate)) \div 2 + (Triples(0) * Cubed(rate)) \div 6
    BY Binomial
  <1> QED
    BY <1>1, <1>2, <1>3, Units

-----------------------------------------------------------------------------
(* Rates. *)

LEMMA SlopedType ==
    ASSUME NEW slope1 \in Nat, NEW slope2 \in Nat, NEW usage \in 0 .. RAY
    PROVE  Sloped(slope1, slope2, usage) \in Nat
  <1> DEFINE optimal == Strategy.optimalUsageRatio
  <1>1. optimal \in Nat \ {0} /\ usage \in Nat
    BY Units, StrategyAssumption
  <1>2. CASE usage > optimal
    <2>1. usage - optimal \in Nat /\ RAY - optimal \in Nat \ {0}
      BY <1>1, <1>2, Units
    <2>2. RayMul(slope2, RayDiv(usage - optimal, RAY - optimal)) \in Nat
      BY <2>1, RayDivType, RayMulType
    <2> QED
      BY <1>2, <2>2 DEF Sloped
  <1>3. CASE ~ (usage > optimal)
    <2>1. RayDiv(RayMul(slope1, usage), optimal) \in Nat
      BY <1>1, RayMulType, RayDivType
    <2> QED
      BY <1>3, <2>1 DEF Sloped
  <1> QED
    BY <1>2, <1>3

LEMMA ExcessStablePremiumType ==
    ASSUME NEW ratio \in 0 .. RAY
    PROVE  ExcessStablePremium(ratio) \in Nat
  <1> DEFINE optimal == Strategy.optimalStableToTotalDebtRatio
  <1>1. optimal \in Nat /\ Strategy.stableRateExcessOffset \in Nat /\ ratio \in Nat
    BY Units, StrategyAssumption
  <1>2. CASE ratio > optimal
    <2>1. ratio - optimal \in Nat /\ RAY - optimal \in Nat \ {0}
      BY <1>1, <1>2, Units
    <2>2. RayMul(Strategy.stableRateExcessOffset, RayDiv(ratio - optimal, RAY - optimal)) \in Nat
      BY <1>1, <2>1, RayDivType, RayMulType
    <2> QED
      BY <1>2, <2>2 DEF ExcessStablePremium
  <1>3. CASE ~ (ratio > optimal)
    BY <1>3 DEF ExcessStablePremium
  <1> QED
    BY <1>2, <1>3

LEMMA OverallBorrowRateType ==
    ASSUME NEW stable \in Nat, NEW variable \in Nat, NEW rate \in Nat, NEW average \in Nat
    PROVE  OverallBorrowRate(stable, variable, rate, average) \in Nat
  <1>1. CASE stable + variable = 0
    BY <1>1 DEF OverallBorrowRate
  <1>2. CASE stable + variable # 0
    <2>1. WadToRay(stable + variable) \in Nat \ {0}
      BY <1>2, WadToRayType
    <2>2. RayMul(WadToRay(variable), rate) \in Nat /\ RayMul(WadToRay(stable), average) \in Nat
      BY WadToRayType, RayMulType
    <2>3. RayDiv(RayMul(WadToRay(variable), rate) + RayMul(WadToRay(stable), average),
                 WadToRay(stable + variable)) \in Nat
      BY <2>1, <2>2, RayDivType
    <2> QED
      BY <1>2, <2>3 DEF OverallBorrowRate
  <1> QED
    BY <1>1, <1>2

(* The rates of a reserve are defined whatever its totals are: usage is at most one, so
   no slope is extrapolated and nothing is divided by zero or driven below it. *)
THEOREM RatesAreDefined ==
    ASSUME NEW unbacked \in Nat, NEW available \in Nat, NEW stable \in Nat,
           NEW variable \in Nat, NEW average \in Nat, NEW factor \in 0 .. PERCENTAGE_FACTOR
    PROVE  CalculateInterestRates(unbacked, available, stable, variable, average, factor)
               \in [liquidityRate : Nat, stableBorrowRate : Nat, variableBorrowRate : Nat]
  <1> DEFINE debt == stable + variable
             borrowUsage == IF debt = 0 THEN 0 ELSE RayDiv(debt, available + debt)
             supplyUsage == IF debt = 0 THEN 0 ELSE RayDiv(debt, available + debt + unbacked)
             stableRatio == IF debt = 0 THEN 0 ELSE RayDiv(stable, debt)
             variableRate == Strategy.baseVariableBorrowRate
                 + Sloped(Strategy.variableRateSlope1, Strategy.variableRateSlope2, borrowUsage)
             stableRate == BaseStableBorrowRate
                 + Sloped(Strategy.stableRateSlope1, Strategy.stableRateSlope2, borrowUsage)
                 + ExcessStablePremium(stableRatio)
             overall == OverallBorrowRate(stable, variable, variableRate, average)
             income == PercentMul(RayMul(overall, supplyUsage), PERCENTAGE_FACTOR - factor)
  <1>1. /\ borrowUsage \in 0 .. RAY /\ supplyUsage \in 0 .. RAY /\ stableRatio \in 0 .. RAY
    <2>1. CASE debt = 0
      BY <2>1, Units
    <2>2. CASE debt # 0
      <3>1. /\ debt \in Nat \ {0} /\ available + debt \in Nat \ {0}
            /\ available + debt + unbacked \in Nat \ {0}
        BY <2>2
      <3>2. /\ RayDiv(debt, available + debt) \in 0 .. RAY
            /\ RayDiv(debt, available + debt + unbacked) \in 0 .. RAY
            /\ RayDiv(stable, debt) \in 0 .. RAY
        BY <3>1, RayDivOfPart
      <3> QED
        BY <2>2, <3>2
    <2> QED
      BY <2>1, <2>2
  <1>2. /\ Strategy.baseVariableBorrowRate \in Nat
        /\ Strategy.variableRateSlope1 \in Nat /\ Strategy.variableRateSlope2 \in Nat
        /\ Strategy.stableRateSlope1 \in Nat /\ Strategy.stableRateSlope2 \in Nat
        /\ Strategy.baseStableRateOffset \in Nat
    BY StrategyAssumption
  <1> HIDE DEF borrowUsage, supplyUsage, stableRatio
  <1>3. variableRate \in Nat
    <2>1. Sloped(Strategy.variableRateSlope1, Strategy.variableRateSlope2, borrowUsage) \in Nat
      BY <1>1, <1>2, SlopedType
    <2> QED
      BY <1>2, <2>1
  <1>4. stableRate \in Nat
    <2>1. BaseStableBorrowRate \in Nat
      BY <1>2 DEF BaseStableBorrowRate
    <2>2. Sloped(Strategy.stableRateSlope1, Strategy.stableRateSlope2, borrowUsage) \in Nat
      BY <1>1, <1>2, SlopedType
    <2>3. ExcessStablePremium(stableRatio) \in Nat
      BY <1>1, ExcessStablePremiumType
    <2> QED
      BY <2>1, <2>2, <2>3
  <1> HIDE DEF variableRate, stableRate
  <1>5. overall \in Nat
    BY <1>3, OverallBorrowRateType
  <1> HIDE DEF overall
  <1>6. income \in Nat
    <2>1. PERCENTAGE_FACTOR - factor \in Nat /\ supplyUsage \in Nat
      BY <1>1, Units
    <2> QED
      BY <1>5, <2>1, RayMulType, PercentMulType
  <1> HIDE DEF income
  <1>7. CalculateInterestRates(unbacked, available, stable, variable, average, factor)
            = [liquidityRate |-> income, stableBorrowRate |-> stableRate,
               variableBorrowRate |-> variableRate]
    BY DEF CalculateInterestRates, income, overall, stableRate, variableRate, borrowUsage,
           supplyUsage, stableRatio
  <1> QED
    BY <1>3, <1>4, <1>6, <1>7

-----------------------------------------------------------------------------
(* The inductive invariant.  The types of rates and indexes need the accrued interest
   to be no less than zero, that needs the order of the dates, and the dates keep their
   order because every transaction that dates the stable total settles the reserve. *)
Ledger == TypeOK /\ Dated

LEMMA Shapes ==
    ASSUME Ledger
    PROVE  /\ reserve \in ReserveRecords /\ now \in Nat /\ steps \in Nat /\ liquidity \in Nat
           /\ reserve.liquidityIndex \in Nat \ {0} /\ reserve.variableBorrowIndex \in Nat \ {0}
           /\ reserve.liquidityRate \in Nat /\ reserve.stableBorrowRate \in Nat
           /\ reserve.variableBorrowRate \in Nat /\ reserve.lastUpdate \in Nat
           /\ reserve.accruedToTreasury \in Nat /\ reserve.unbacked \in Nat
           /\ reserve.reserveFactor \in 0 .. PERCENTAGE_FACTOR
           /\ reserve.lastUpdate <= now /\ now - reserve.lastUpdate \in Nat
           /\ reserve.liquidityIndex >= RAY /\ reserve.variableBorrowIndex >= RAY
           /\ scaledSupply \in Nat /\ scaledTotalDebt \in Nat
           /\ stableTotal \in Loan /\ stableTotal.principal \in Nat /\ stableTotal.rate \in Nat
           /\ stableTotal.timestamp \in Nat /\ stableTotal.timestamp <= reserve.lastUpdate
           /\ stableTotal.timestamp <= now
           /\ \A u \in Users : /\ stableDebt[u] \in Loan /\ stableDebt[u].timestamp <= now
                               /\ scaledDebt[u] \in Nat
           /\ \A a \in Accounts : scaledBalance[a] \in Nat
  BY Units DEF Ledger, TypeOK, Dated, ReserveRecords, Loan

-----------------------------------------------------------------------------
(* Views of the reserve. *)

LEMMA GrownType ==
    ASSUME now \in Nat, NEW debt \in Loan, debt.timestamp <= now
    PROVE  Grown(debt) \in Nat
  <1>1. debt.principal \in Nat /\ debt.rate \in Nat /\ now - debt.timestamp \in Nat
    BY DEF Loan
  <1>2. CompoundedInterest(debt.rate, now - debt.timestamp) \in Nat
    BY <1>1, CompoundedInterestType
  <1> QED
    BY <1>1, <1>2, RayMulType DEF Grown

LEMMA IncomeGrows ==
    ASSUME Ledger
    PROVE  /\ NormalizedIncome \in Nat \ {0} /\ NormalizedIncome >= reserve.liquidityIndex
           /\ NormalizedIncome >= RAY
           /\ reserve.lastUpdate = now => NormalizedIncome = reserve.liquidityIndex
           /\ reserve.liquidityRate = 0 => NormalizedIncome = reserve.liquidityIndex
  <1> DEFINE e == now - reserve.lastUpdate
             factor == LinearInterest(reserve.liquidityRate, e)
  <1>1. factor \in Nat /\ factor >= RAY
    BY Shapes, LinearInterestType
  <1>2. reserve.lastUpdate = now \/ reserve.liquidityRate = 0 => factor = RAY
    BY Shapes, LinearInterestAtOnce, LinearInterestOfNothing
  <1>3. NormalizedIncome = RayMul(factor, reserve.liquidityIndex)
    BY DEF NormalizedIncome
  <1> HIDE DEF factor
  <1>4. NormalizedIncome \in Nat /\ NormalizedIncome >= reserve.liquidityIndex
    BY <1>1, <1>3, Shapes, RayMulGrows
  <1>5. RayMul(RAY, reserve.liquidityIndex) = reserve.liquidityIndex
    BY Shapes, RayMulOne
  <1> QED
    BY <1>2, <1>3, <1>4, <1>5, Shapes, Units

LEMMA DebtGrows ==
    ASSUME Ledger
    PROVE  /\ NormalizedDebt \in Nat \ {0} /\ NormalizedDebt >= reserve.variableBorrowIndex
           /\ NormalizedDebt >= RAY
           /\ reserve.lastUpdate = now => NormalizedDebt = reserve.variableBorrowIndex
  <1> DEFINE e == now - reserve.lastUpdate
             factor == CompoundedInterest(reserve.variableBorrowRate, e)
  <1>1. factor \in Nat /\ factor >= RAY
    BY Shapes, CompoundedInterestType
  <1>2. reserve.lastUpdate = now => factor = RAY
    BY Shapes, CompoundedInterestAtOnce
  <1>3. NormalizedDebt = RayMul(factor, reserve.variableBorrowIndex)
    BY DEF NormalizedDebt
  <1> HIDE DEF factor
  <1>4. NormalizedDebt \in Nat /\ NormalizedDebt >= reserve.variableBorrowIndex
    BY <1>1, <1>3, Shapes, RayMulGrows
  <1>5. RayMul(RAY, reserve.variableBorrowIndex) = reserve.variableBorrowIndex
    BY Shapes, RayMulOne
  <1> QED
    BY <1>2, <1>3, <1>4, <1>5, Shapes, Units

LEMMA NextDebtIndex ==
    ASSUME Ledger
    PROVE  /\ NextVariableBorrowIndex \in Nat \ {0}
           /\ NextVariableBorrowIndex >= reserve.variableBorrowIndex
           /\ scaledTotalDebt # 0 => NextVariableBorrowIndex = NormalizedDebt
  BY Shapes, DebtGrows DEF NextVariableBorrowIndex

(* Each kind of debt is worth at least as much now as at the last update: the variable
   debt because its index grows, the stable total because its last change is no later
   than that update. *)
LEMMA AccruedIsNatural ==
    ASSUME Ledger
    PROVE  TotalDebtAccrued(NextVariableBorrowIndex) \in Nat
  <1> DEFINE p == stableTotal.principal
             before == CompoundedInterest(stableTotal.rate,
                                          reserve.lastUpdate - stableTotal.timestamp)
             after == CompoundedInterest(stableTotal.rate, now - stableTotal.timestamp)
             variableBefore == RayMul(scaledTotalDebt, reserve.variableBorrowIndex)
             variableAfter == RayMul(scaledTotalDebt, NextVariableBorrowIndex)
             stableBefore == RayMul(p, before)
  <1>1. variableBefore \in Nat /\ variableAfter \in Nat /\ variableBefore <= variableAfter
    <2>1. /\ scaledTotalDebt \in Nat /\ scaledTotalDebt <= scaledTotalDebt
          /\ reserve.variableBorrowIndex \in Nat /\ NextVariableBorrowIndex \in Nat
          /\ reserve.variableBorrowIndex <= NextVariableBorrowIndex
      BY Shapes, NextDebtIndex
    <2> QED
      BY <2>1, RayMulType, RayMulMonotone
  <1>2. stableBefore \in Nat /\ Grown(stableTotal) \in Nat /\ stableBefore <= Grown(stableTotal)
    <2>1. /\ reserve.lastUpdate - stableTotal.timestamp \in Nat
          /\ now - stableTotal.timestamp \in Nat
          /\ reserve.lastUpdate - stableTotal.timestamp <= now - stableTotal.timestamp
      BY Shapes
    <2>2. before \in Nat /\ after \in Nat /\ before <= after
      BY <2>1, Shapes, CompoundedInterestMonotone
    <2>3. p \in Nat
      BY Shapes
    <2> HIDE DEF before, after, p
    <2>4. stableBefore \in Nat /\ RayMul(p, after) \in Nat /\ stableBefore <= RayMul(p, after)
      BY <2>2, <2>3, RayMulType, RayMulMonotone
    <2>5. CASE p = 0
      <3>1. stableBefore = 0 /\ Grown(stableTotal) = 0
        BY <2>2, <2>5, RayMulZero DEF Grown, p
      <3> QED
        BY <3>1
    <2>6. CASE p # 0
      <3>1. Grown(stableTotal) = RayMul(p, after)
        BY <2>6 DEF Grown, p, after
      <3> QED
        BY <2>4, <3>1
    <2> QED
      BY <2>5, <2>6
  <1>3. TotalDebtAccrued(NextVariableBorrowIndex)
            = variableAfter + Grown(stableTotal) - variableBefore - stableBefore
    BY DEF TotalDebtAccrued
  <1> HIDE DEF variableAfter, variableBefore, stableBefore
  <1> QED
    BY <1>1, <1>2, <1>3

(* The reserve after updateState. *)
LEMMA UpdatedReserve ==
    ASSUME Ledger
    PROVE  /\ Updated \in ReserveRecords /\ Updated.lastUpdate = now
           /\ Updated.liquidityIndex = NormalizedIncome
           /\ Updated.variableBorrowIndex >= reserve.variableBorrowIndex
           /\ Updated.variableBorrowIndex \in Nat \ {0}
           /\ scaledTotalDebt # 0 => Updated.variableBorrowIndex = NormalizedDebt
           /\ Updated.unbacked = reserve.unbacked /\ Updated.accruedToTreasury \in Nat
           /\ Updated.reserveFactor = reserve.reserveFactor
           /\ Updated.stableBorrowRate = reserve.stableBorrowRate
  <1>1. CASE reserve.lastUpdate = now
    BY <1>1, Shapes, IncomeGrows, DebtGrows DEF Updated
  <1>2. CASE reserve.lastUpdate # now
    <2> DEFINE share == RayDiv(TreasuryShare, NextLiquidityIndex)
    <2>1. NextLiquidityIndex = NormalizedIncome
      BY IncomeGrows DEF NextLiquidityIndex
    <2>2. share \in Nat
      <3>1. TreasuryShare \in Nat
        <4>1. reserve.reserveFactor \in Nat
          BY Shapes, Units
        <4> QED
          BY <4>1, AccruedIsNatural, PercentMulType DEF TreasuryShare
      <3> QED
        BY <2>1, <3>1, IncomeGrows, RayDivType
    <2> DEFINE accrued == reserve.accruedToTreasury + share
    <2>3. Updated = [reserve EXCEPT !.liquidityIndex = NormalizedIncome,
                                    !.variableBorrowIndex = NextVariableBorrowIndex,
                                    !.accruedToTreasury = accrued,
                                    !.lastUpdate = now]
      BY <1>2, <2>1 DEF Updated
    <2>4. /\ reserve \in ReserveRecords /\ now \in Nat /\ accrued \in Nat
          /\ NormalizedIncome \in Nat /\ NextVariableBorrowIndex \in Nat \ {0}
          /\ NextVariableBorrowIndex >= reserve.variableBorrowIndex
          /\ scaledTotalDebt # 0 => NextVariableBorrowIndex = NormalizedDebt
      BY <2>2, Shapes, IncomeGrows, NextDebtIndex
    <2> HIDE DEF accrued, share
    <2>5. /\ Updated.lastUpdate = now /\ Updated.liquidityIndex = NormalizedIncome
          /\ Updated.variableBorrowIndex = NextVariableBorrowIndex
          /\ Updated.unbacked = reserve.unbacked
          /\ Updated.accruedToTreasury = accrued
          /\ Updated.reserveFactor = reserve.reserveFactor
          /\ Updated.stableBorrowRate = reserve.stableBorrowRate
      BY <2>3, <2>4 DEF ReserveRecords
    <2>6. Updated \in ReserveRecords
      BY <2>3, <2>4 DEF ReserveRecords
    <2> QED
      BY <2>4, <2>5, <2>6
  <1> QED
    BY <1>1, <1>2

LEMMA DebtOfType ==
    ASSUME Ledger, NEW u \in Users
    PROVE  /\ Grown(stableDebt[u]) \in Nat /\ VariableDebtOf(u) \in Nat
           /\ BalanceOf(u) \in Nat /\ Grown(stableTotal) \in Nat
           /\ DebtOf(u, "stable") = Grown(stableDebt[u])
           /\ \A mode \in Modes : DebtOf(u, mode) \in Nat
  <1>1. Grown(stableDebt[u]) \in Nat /\ Grown(stableTotal) \in Nat
    BY Shapes, GrownType
  <1>2. VariableDebtOf(u) \in Nat
    BY Shapes, DebtGrows, RayMulType DEF VariableDebtOf
  <1>3. BalanceOf(u) \in Nat
    BY Shapes, IncomeGrows, RayMulType DEF BalanceOf, Accounts
  <1> QED
    BY <1>1, <1>2, <1>3 DEF DebtOf, Modes

-----------------------------------------------------------------------------
(* Stable loans and their total. *)

LEMMA AveragedType ==
    ASSUME NEW r1 \in Nat, NEW a1 \in Nat, NEW r2 \in Nat, NEW a2 \in Nat, a1 + a2 # 0
    PROVE  Averaged(r1, a1, r2, a2) \in Nat
  <1>1. WadToRay(a1) \in Nat /\ WadToRay(a2) \in Nat /\ WadToRay(a1 + a2) \in Nat \ {0}
    BY WadToRayType
  <1>2. RayMul(r1, WadToRay(a1)) \in Nat /\ RayMul(r2, WadToRay(a2)) \in Nat
    BY <1>1, RayMulType
  <1> QED
    BY <1>1, <1>2, RayDivType DEF Averaged

LEMMA WithLoanType ==
    ASSUME Ledger, NEW debt \in Loan, debt.timestamp <= now,
           NEW amount \in Nat \ {0}, NEW rate \in Nat
    PROVE  /\ WithLoan(debt, amount, rate) \in Loan
           /\ WithLoan(debt, amount, rate).timestamp = now
           /\ WithLoan(debt, amount, rate).principal \in Nat
           /\ WithLoan(debt, amount, rate).rate \in Nat
  <1>1. Grown(debt) \in Nat /\ now \in Nat /\ debt.rate \in Nat
    BY Shapes, GrownType DEF Loan
  <1>2. Averaged(debt.rate, Grown(debt), rate, amount) \in Nat
    <2>1. Grown(debt) + amount # 0
      BY <1>1
    <2> QED
      BY <1>1, <2>1, AveragedType
  <1> QED
    BY <1>1, <1>2 DEF WithLoan, Loan

LEMMA LessPaidType ==
    ASSUME Ledger, NEW debt \in Loan, debt.timestamp <= now,
           NEW amount \in Nat, amount <= Grown(debt)
    PROVE  LessPaid(debt, amount) \in Loan /\ LessPaid(debt, amount).timestamp <= now
  <1>1. Grown(debt) - amount \in Nat /\ now \in Nat
    BY Shapes, GrownType
  <1>2. CASE amount = Grown(debt)
    BY <1>1, <1>2 DEF LessPaid, NoStableDebt, Loan
  <1>3. CASE amount # Grown(debt)
    <2> DEFINE left == Grown(debt) - amount
    <2>1. LessPaid(debt, amount) = [debt EXCEPT !.principal = left, !.timestamp = now]
      BY <1>3 DEF LessPaid
    <2>2. left \in Nat /\ now \in Nat /\ now <= now
      BY <1>1
    <2> HIDE DEF left
    <2>3. [debt EXCEPT !.principal = left, !.timestamp = now] \in Loan
      BY <2>2 DEF Loan
    <2>4. [debt EXCEPT !.principal = left, !.timestamp = now].timestamp = now
      BY DEF Loan
    <2> QED
      BY <2>1, <2>2, <2>3, <2>4
  <1> QED
    BY <1>2, <1>3

LEMMA TotalLessPaidType ==
    ASSUME Ledger, NEW amount \in Nat, NEW rate \in Nat
    PROVE  /\ TotalLessPaid(amount, rate) \in Loan
           /\ TotalLessPaid(amount, rate).timestamp = now
           /\ TotalLessPaid(amount, rate).principal \in Nat
           /\ TotalLessPaid(amount, rate).rate \in Nat
           /\ ReturnedSupply(amount) \in Nat
  <1> DEFINE left == Grown(stableTotal) - amount
             weight == TotalWeight(amount, rate)
  <1>1. Grown(stableTotal) \in Nat /\ now \in Nat
    BY Shapes, GrownType
  <1>2. ReturnedSupply(amount) \in Nat
    BY <1>1 DEF ReturnedSupply
  <1>3. weight \in Int
    <2>1. /\ RayMul(stableTotal.rate, WadToRay(Grown(stableTotal))) \in Nat
          /\ RayMul(rate, WadToRay(amount)) \in Nat
      BY <1>1, Shapes, WadToRayType, RayMulType
    <2> QED
      BY <2>1 DEF TotalWeight
  <1>4. CASE left <= 0 \/ weight <= 0
    <2>1. TotalLessPaid(amount, rate) = [NoStableDebt EXCEPT !.timestamp = now]
      BY <1>4 DEF TotalLessPaid
    <2> QED
      BY <1>1, <1>2, <2>1 DEF NoStableDebt, Loan
  <1>5. CASE ~ (left <= 0 \/ weight <= 0)
    <2>1. left \in Nat \ {0} /\ weight \in Nat
      BY <1>1, <1>3, <1>5
    <2>2. RayDiv(weight, WadToRay(left)) \in Nat
      <3> HIDE DEF left, weight
      <3> QED
        BY <2>1, WadToRayType, RayDivType
    <2>3. TotalLessPaid(amount, rate) =
              [principal |-> left, rate |-> RayDiv(weight, WadToRay(left)), timestamp |-> now]
      BY <1>5 DEF TotalLessPaid
    <2> HIDE DEF left, weight
    <2> QED
      BY <1>1, <1>2, <2>1, <2>2, <2>3 DEF Loan
  <1> QED
    BY <1>4, <1>5

-----------------------------------------------------------------------------
(* The parts of a transaction. *)

(* The reserve is settled up to now, and no index has fallen. *)
Settles ==
    /\ now' = now /\ steps' \in Nat /\ liquidity' \in Nat
    /\ reserve' \in ReserveRecords /\ reserve'.lastUpdate = now
    /\ reserve'.liquidityIndex >= NormalizedIncome
    /\ reserve'.variableBorrowIndex >= RAY
    /\ scaledTotalDebt # 0 => reserve'.variableBorrowIndex = NormalizedDebt

BalancesOK == scaledBalance \in [Accounts -> Nat] /\ scaledSupply \in Nat

VariableOK == scaledDebt \in [Users -> Nat] /\ scaledTotalDebt \in Nat

StableOK ==
    /\ stableDebt \in [Users -> Loan] /\ stableTotal \in Loan
    /\ \A u \in Users : stableDebt[u].timestamp <= now
    /\ stableTotal.timestamp <= now

TokensOK == BalancesOK /\ VariableOK /\ StableOK

LEMMA LedgerTokens ==
    ASSUME Ledger
    PROVE  TokensOK
  BY Shapes DEF Ledger, TypeOK, TokensOK, BalancesOK, VariableOK, StableOK

LEMMA BalancesStay ==
    ASSUME Ledger, UNCHANGED rsTokens
    PROVE  BalancesOK'
  BY LedgerTokens DEF TokensOK, BalancesOK, rsTokens

LEMMA VariableDebtsStay ==
    ASSUME Ledger, UNCHANGED variableDebts
    PROVE  VariableOK'
  BY LedgerTokens DEF TokensOK, VariableOK, variableDebts

LEMMA StableDebtsStay ==
    ASSUME Ledger, UNCHANGED stableDebts, now' = now
    PROVE  StableOK'
  BY LedgerTokens DEF TokensOK, StableOK, stableDebts

LEMMA MintRSTokensType ==
    ASSUME Ledger, NEW a \in Accounts, NEW scaled \in Nat, MintRSTokens(a, scaled)
    PROVE  BalancesOK'
  BY LedgerTokens DEF TokensOK, BalancesOK, MintRSTokens

LEMMA BurnRSTokensType ==
    ASSUME Ledger, NEW a \in Accounts, NEW scaled \in Nat, BurnRSTokens(a, scaled)
    PROVE  BalancesOK'
  <1>1. scaledBalance[a] \in Nat /\ scaledBalance[a] - scaled \in Nat /\ scaledSupply - scaled \in Nat
    BY LedgerTokens DEF TokensOK, BalancesOK, BurnRSTokens
  <1> QED
    BY <1>1, LedgerTokens DEF TokensOK, BalancesOK, BurnRSTokens

LEMMA MintDebtType ==
    ASSUME Ledger, NEW u \in Users, NEW scaled \in Nat, MintDebt(u, scaled)
    PROVE  VariableOK'
  BY LedgerTokens DEF TokensOK, VariableOK, MintDebt

LEMMA BurnDebtType ==
    ASSUME Ledger, NEW u \in Users, NEW scaled \in Nat, BurnDebt(u, scaled)
    PROVE  VariableOK'
  <1>1. scaledDebt[u] \in Nat /\ scaledDebt[u] - scaled \in Nat /\ scaledTotalDebt - scaled \in Nat
    BY LedgerTokens DEF TokensOK, VariableOK, BurnDebt
  <1> QED
    BY <1>1, LedgerTokens DEF TokensOK, VariableOK, BurnDebt

(* One user's stable debt and the total change into loans dated no later than now. *)
LEMMA StableDebtsChange ==
    ASSUME Ledger, NEW u \in Users, NEW debt \in Loan, debt.timestamp <= now,
           NEW total \in Loan, total.timestamp <= now, now' = now,
           stableDebt' = [stableDebt EXCEPT ![u] = debt], stableTotal' = total
    PROVE  StableOK'
  BY LedgerTokens DEF TokensOK, StableOK

LEMMA WithRatesType ==
    ASSUME NEW r \in ReserveRecords, NEW available \in Nat, NEW stable \in Nat,
           NEW average \in Nat, NEW scaled \in Nat
    PROVE  /\ WithRates(r, available, stable, average, scaled) \in ReserveRecords
           /\ WithRates(r, available, stable, average, scaled).lastUpdate = r.lastUpdate
           /\ WithRates(r, available, stable, average, scaled).liquidityIndex = r.liquidityIndex
           /\ WithRates(r, available, stable, average, scaled).variableBorrowIndex
                  = r.variableBorrowIndex
  <1> DEFINE variable == RayMul(scaled, r.variableBorrowIndex)
             rates == CalculateInterestRates(r.unbacked, available, stable, variable, average,
                                             r.reserveFactor)
  <1>1. r.unbacked \in Nat /\ r.variableBorrowIndex \in Nat
        /\ r.reserveFactor \in 0 .. PERCENTAGE_FACTOR
    BY DEF ReserveRecords
  <1>2. variable \in Nat
    BY <1>1, RayMulType
  <1> HIDE DEF variable
  <1>3. rates \in [liquidityRate : Nat, stableBorrowRate : Nat, variableBorrowRate : Nat]
    BY <1>1, <1>2, RatesAreDefined
  <1>4. WithRates(r, available, stable, average, scaled) =
            [r EXCEPT !.liquidityRate = rates.liquidityRate,
                      !.stableBorrowRate = rates.stableBorrowRate,
                      !.variableBorrowRate = rates.variableBorrowRate]
    BY DEF WithRates, variable
  <1> HIDE DEF rates
  <1> QED
    BY <1>3, <1>4 DEF ReserveRecords

LEMMA CommitSettles ==
    ASSUME Ledger,
           NEW r \in ReserveRecords, r.lastUpdate = now, r.liquidityIndex >= NormalizedIncome,
           r.variableBorrowIndex = Updated.variableBorrowIndex,
           NEW available \in Nat, NEW stable \in Nat, NEW average \in Nat,
           scaledTotalDebt' \in Nat, liquidity' \in Nat,
           CommitRates(r, available, stable, average)
    PROVE  Settles
  <1>1. /\ now' = now /\ steps' = steps + 1
        /\ reserve' = WithRates(r, available, stable, average, scaledTotalDebt')
    BY DEF CommitRates
  <1>2. /\ reserve' \in ReserveRecords /\ reserve'.lastUpdate = r.lastUpdate
        /\ reserve'.liquidityIndex = r.liquidityIndex
        /\ reserve'.variableBorrowIndex = r.variableBorrowIndex
    <2> DEFINE scaled == scaledTotalDebt'
    <2>1. scaled \in Nat
      OBVIOUS
    <2> HIDE DEF scaled
    <2>2. /\ WithRates(r, available, stable, average, scaled) \in ReserveRecords
          /\ WithRates(r, available, stable, average, scaled).lastUpdate = r.lastUpdate
          /\ WithRates(r, available, stable, average, scaled).liquidityIndex = r.liquidityIndex
          /\ WithRates(r, available, stable, average, scaled).variableBorrowIndex
                 = r.variableBorrowIndex
      BY ONLY <2>1, r \in ReserveRecords, available \in Nat, stable \in Nat, average \in Nat,
              WithRatesType
    <2> QED
      BY <1>1, <2>2 DEF scaled
  <1>3. /\ r.variableBorrowIndex >= RAY
        /\ scaledTotalDebt # 0 => r.variableBorrowIndex = NormalizedDebt
    BY UpdatedReserve, Shapes, DebtGrows, Units
  <1> QED
    BY <1>1, <1>2, <1>3, Shapes DEF Settles

(* ... in the reserve as updated. *)
LEMMA UpdatedSettles ==
    ASSUME Ledger, NEW available \in Nat, NEW stable \in Nat, NEW average \in Nat,
           scaledTotalDebt' \in Nat, Commit(Updated, available, stable, average)
    PROVE  Settles
  BY UpdatedReserve, IncomeGrows, CommitSettles DEF Commit

(* ... where no debt changed. *)
LEMMA RatesSettle ==
    ASSUME Ledger,
           NEW r \in ReserveRecords, r.lastUpdate = now, r.liquidityIndex >= NormalizedIncome,
           r.variableBorrowIndex = Updated.variableBorrowIndex,
           NEW available \in Nat, liquidity' \in Nat,
           UNCHANGED variableDebts, UNCHANGED stableDebts,
           CommitRates(r, available, Grown(stableTotal), stableTotal.rate)
    PROVE  Settles /\ VariableOK' /\ StableOK'
  <1>2. VariableOK'
    BY VariableDebtsStay
  <1>3. now' = now
    BY DEF CommitRates
  <1>4. StableOK'
    BY <1>3, StableDebtsStay
  <1>5. Grown(stableTotal) \in Nat /\ stableTotal.rate \in Nat
    BY Shapes, GrownType
  <1>6. scaledTotalDebt' \in Nat
    BY <1>2 DEF VariableOK
  <1>7. Settles
    BY <1>5, <1>6, CommitSettles
  <1> QED
    BY <1>2, <1>4, <1>7

LEMMA CommitLiquiditySettles ==
    ASSUME Ledger,
           NEW r \in ReserveRecords, r.lastUpdate = now, r.liquidityIndex >= NormalizedIncome,
           r.variableBorrowIndex = Updated.variableBorrowIndex,
           NEW available \in Nat, CommitLiquidity(r, available)
    PROVE  Settles /\ VariableOK' /\ StableOK'
  <1>1. /\ UNCHANGED variableDebts /\ UNCHANGED stableDebts
        /\ CommitRates(r, available, Grown(stableTotal), stableTotal.rate)
        /\ liquidity' \in Nat
    BY DEF CommitLiquidity, Commit
  <1> QED
    BY <1>1, RatesSettle

(* What a settled transaction with sound tokens leaves. *)
LEMMA SettlingKeepsLedger ==
    ASSUME Ledger, Settles, TokensOK'
    PROVE  Ledger'
  <1>1. TypeOK'
    BY Shapes DEF Settles, TokensOK, BalancesOK, VariableOK, StableOK, TypeOK
  <1>2. reserve'.liquidityIndex >= RAY
    BY IncomeGrows, Units DEF Settles, ReserveRecords
  <1>3. Dated'
    BY <1>2, Shapes DEF Settles, TokensOK, StableOK, Dated
  <1> QED
    BY <1>1, <1>3 DEF Ledger

IndexesRise ==
    /\ NormalizedIncome' >= NormalizedIncome
    /\ scaledTotalDebt # 0 => NormalizedDebt' >= NormalizedDebt

(* At the time of the last update a unit is worth its index. *)
LEMMA SettledViews ==
    ASSUME Ledger, Settles
    PROVE  /\ NormalizedIncome' = reserve'.liquidityIndex
           /\ NormalizedDebt' = reserve'.variableBorrowIndex
  <1>1. /\ reserve'.liquidityIndex \in Nat /\ reserve'.variableBorrowIndex \in Nat
        /\ reserve'.liquidityRate \in Nat /\ reserve'.variableBorrowRate \in Nat
        /\ now' - reserve'.lastUpdate = 0
    BY Shapes DEF Settles, ReserveRecords
  <1>2. NormalizedIncome' = reserve'.liquidityIndex
    <2>1. NormalizedIncome' = RayMul(LinearInterest(reserve'.liquidityRate,
                                                    now' - reserve'.lastUpdate),
                                     reserve'.liquidityIndex)
      BY DEF NormalizedIncome
    <2>2. LinearInterest(reserve'.liquidityRate, 0) = RAY
      BY <1>1, LinearInterestAtOnce
    <2> QED
      BY <1>1, <2>1, <2>2, RayMulOne
  <1>3. NormalizedDebt' = reserve'.variableBorrowIndex
    <2>1. NormalizedDebt' = RayMul(CompoundedInterest(reserve'.variableBorrowRate,
                                                      now' - reserve'.lastUpdate),
                                   reserve'.variableBorrowIndex)
      BY DEF NormalizedDebt
    <2>2. CompoundedInterest(reserve'.variableBorrowRate, 0) = RAY
      BY <1>1, CompoundedInterestAtOnce
    <2> QED
      BY <1>1, <2>1, <2>2, RayMulOne
  <1> QED
    BY <1>2, <1>3

LEMMA SettlingRaisesIndexes ==
    ASSUME Ledger, Settles
    PROVE  IndexesRise
  BY SettledViews, DebtGrows DEF Settles, IndexesRise

-----------------------------------------------------------------------------
(* The transactions. *)

Kept == Settles /\ TokensOK'

LEMMA Inputs ==
    /\ \A amount \in Amounts : amount \in Nat \ {0} /\ amount \in Nat
    /\ \A amount \in Requests : amount \in Nat
    /\ \A fee \in Fees : fee \in Nat
    /\ \A u \in Users : u \in Accounts
    /\ Treasury \in Accounts
    /\ "stable" \in Modes /\ "variable" \in Modes
  BY AccountingAssumption DEF Requests, Accounts, Modes

LEMMA ScaledType ==
    ASSUME Ledger, NEW amount \in Nat
    PROVE  /\ Scaled(amount, Updated.liquidityIndex) \in Nat
           /\ Scaled(amount, Updated.variableBorrowIndex) \in Nat
           /\ Scaled(amount, NormalizedIncome) \in Nat
  <1>1. Updated.liquidityIndex \in Nat \ {0} /\ Updated.variableBorrowIndex \in Nat \ {0}
        /\ NormalizedIncome \in Nat \ {0}
    BY UpdatedReserve, IncomeGrows
  <1> QED
    BY <1>1, RayDivType DEF Scaled

LEMMA SupplyKeeps ==
    ASSUME Ledger, NEW u \in Users, NEW amount \in Amounts, Supply(u, amount)
    PROVE  Kept
  <1>1. amount \in Nat /\ u \in Accounts /\ liquidity + amount \in Nat
    BY Inputs, Shapes
  <1>2. MintRSTokens(u, Scaled(amount, Updated.liquidityIndex))
        /\ CommitLiquidity(Updated, liquidity + amount)
    BY DEF Supply
  <1>3. BalancesOK'
    BY <1>1, <1>2, ScaledType, MintRSTokensType
  <1>4. Settles /\ VariableOK' /\ StableOK'
    BY <1>1, <1>2, UpdatedReserve, IncomeGrows, CommitLiquiditySettles
  <1> QED
    BY <1>3, <1>4 DEF Kept, TokensOK

LEMMA WithdrawKeeps ==
    ASSUME Ledger, NEW u \in Users, NEW requested \in Requests, NEW forgo \in BOOLEAN,
           Withdraw(u, requested, forgo)
    PROVE  Kept
  <1> DEFINE balance == RayMul(scaledBalance[u], Updated.liquidityIndex)
             amount == IF requested = MaxUint THEN balance ELSE requested
  <1>1. balance \in Nat /\ requested \in Nat /\ u \in Accounts
    BY Inputs, Shapes, UpdatedReserve, IncomeGrows, RayMulType
  <1>2. amount \in Nat
    BY <1>1
  <1>3. /\ amount <= liquidity
        /\ BurnRSTokens(u, Scaled(amount, Updated.liquidityIndex))
        /\ UNCHANGED variableDebts /\ UNCHANGED stableDebts
        /\ CommitRates(Updated, liquidity - amount, Grown(stableTotal), stableTotal.rate)
        /\ liquidity' = liquidity - (IF forgo THEN 0 ELSE amount)
    BY DEF Withdraw
  <1> HIDE DEF amount
  <1>4. liquidity - amount \in Nat /\ liquidity' \in Nat
    BY <1>2, <1>3, Shapes
  <1>5. BalancesOK'
    BY <1>1, <1>2, <1>3, ScaledType, BurnRSTokensType
  <1>6. Settles /\ VariableOK' /\ StableOK'
    BY <1>3, <1>4, UpdatedReserve, IncomeGrows, RatesSettle
  <1> QED
    BY <1>5, <1>6 DEF Kept, TokensOK

LEMMA MintVariableKeeps ==
    ASSUME Ledger, NEW u \in Users, NEW amount \in Nat, NEW added \in Int,
           liquidity + added \in Nat, MintVariable(Updated, u, amount, added)
    PROVE  Settles /\ VariableOK' /\ StableOK'
  <1>1. /\ MintDebt(u, Scaled(amount, Updated.variableBorrowIndex))
        /\ Commit(Updated, liquidity + added, Grown(stableTotal), stableTotal.rate)
        /\ UNCHANGED stableDebts
    BY DEF MintVariable
  <1>2. VariableOK'
    BY <1>1, ScaledType, MintDebtType
  <1>3. Grown(stableTotal) \in Nat /\ stableTotal.rate \in Nat /\ scaledTotalDebt' \in Nat
    BY <1>2, Shapes, GrownType DEF VariableOK
  <1>4. Settles
    BY <1>1, <1>3, UpdatedSettles
  <1>5. StableOK'
    BY <1>1, <1>4, StableDebtsStay DEF Settles
  <1> QED
    BY <1>2, <1>4, <1>5

LEMMA BurnVariableKeeps ==
    ASSUME Ledger, NEW u \in Users, NEW amount \in Nat, NEW added \in Int,
           liquidity + added \in Nat, BurnVariable(Updated, u, amount, added)
    PROVE  Settles /\ VariableOK' /\ StableOK'
  <1>1. /\ BurnDebt(u, Scaled(amount, Updated.variableBorrowIndex))
        /\ Commit(Updated, liquidity + added, Grown(stableTotal), stableTotal.rate)
        /\ UNCHANGED stableDebts
    BY DEF BurnVariable
  <1>2. VariableOK'
    BY <1>1, ScaledType, BurnDebtType
  <1>3. Grown(stableTotal) \in Nat /\ stableTotal.rate \in Nat /\ scaledTotalDebt' \in Nat
    BY <1>2, Shapes, GrownType DEF VariableOK
  <1>4. Settles
    BY <1>1, <1>3, UpdatedSettles
  <1>5. StableOK'
    BY <1>1, <1>4, StableDebtsStay DEF Settles
  <1> QED
    BY <1>2, <1>4, <1>5

LEMMA MintStableKeeps ==
    ASSUME Ledger, NEW u \in Users, NEW amount \in Nat \ {0}, NEW added \in Int,
           liquidity + added \in Nat, MintStable(Updated, u, amount, added)
    PROVE  Settles /\ VariableOK' /\ StableOK'
  <1> DEFINE rate == Updated.stableBorrowRate
             debt == WithLoan(stableDebt[u], amount, rate)
             total == WithLoan(stableTotal, amount, rate)
  <1>1. rate \in Nat
    BY UpdatedReserve, Shapes
  <1>2. /\ stableDebt' = [stableDebt EXCEPT ![u] = debt] /\ stableTotal' = total
        /\ UNCHANGED variableDebts
        /\ Commit(Updated, liquidity + added, total.principal, total.rate)
    BY DEF MintStable
  <1> HIDE DEF rate
  <1>3. debt \in Loan /\ debt.timestamp = now
    BY <1>1, Shapes, WithLoanType
  <1>4. total \in Loan /\ total.timestamp = now /\ total.principal \in Nat /\ total.rate \in Nat
    BY <1>1, Shapes, WithLoanType
  <1> HIDE DEF debt, total
  <1>5. VariableOK'
    BY <1>2, VariableDebtsStay
  <1>6. Settles
    BY <1>2, <1>4, <1>5, UpdatedSettles DEF VariableOK
  <1>7. now' = now /\ now <= now
    BY <1>6, Shapes DEF Settles
  <1>8. StableOK'
    BY <1>2, <1>3, <1>4, <1>7, StableDebtsChange
  <1> QED
    BY <1>5, <1>6, <1>8

LEMMA BurnStableKeeps ==
    ASSUME Ledger, NEW u \in Users, NEW amount \in Nat, amount <= Grown(stableDebt[u]),
           NEW added \in Int, liquidity + added \in Nat,
           BurnStable(Updated, u, amount, added)
    PROVE  Settles /\ VariableOK' /\ StableOK'
  <1> DEFINE debt == LessPaid(stableDebt[u], amount)
             total == TotalLessPaid(amount, stableDebt[u].rate)
  <1>1. stableDebt[u] \in Loan /\ stableDebt[u].timestamp <= now /\ stableDebt[u].rate \in Nat
    BY Shapes DEF Loan
  <1>2. /\ stableDebt' = [stableDebt EXCEPT ![u] = debt] /\ stableTotal' = total
        /\ UNCHANGED variableDebts
        /\ Commit(Updated, liquidity + added, ReturnedSupply(amount), total.rate)
    BY DEF BurnStable
  <1>3. debt \in Loan /\ debt.timestamp <= now
    BY <1>1, LessPaidType
  <1>4. /\ total \in Loan /\ total.timestamp = now /\ total.rate \in Nat
        /\ ReturnedSupply(amount) \in Nat
    BY <1>1, TotalLessPaidType
  <1> HIDE DEF debt, total
  <1>5. VariableOK'
    BY <1>2, VariableDebtsStay
  <1>6. Settles
    BY <1>2, <1>4, <1>5, UpdatedSettles DEF VariableOK
  <1>7. now' = now /\ now <= now
    BY <1>6, Shapes DEF Settles
  <1>8. StableOK'
    BY <1>2, <1>3, <1>4, <1>7, StableDebtsChange
  <1> QED
    BY <1>5, <1>6, <1>8

LEMMA BorrowKeeps ==
    ASSUME Ledger, NEW u \in Users, NEW amount \in Amounts, NEW mode \in Modes,
           Borrow(u, amount, mode)
    PROVE  Kept
  <1>1. /\ amount \in Nat \ {0} /\ amount \in Nat /\ -amount \in Int
        /\ amount <= liquidity /\ liquidity + (-amount) \in Nat
    BY Inputs, Shapes DEF Borrow
  <1>2. BalancesOK'
    BY BalancesStay DEF Borrow
  <1>3. \/ MintVariable(Updated, u, amount, -amount)
        \/ MintStable(Updated, u, amount, -amount)
    BY DEF Borrow
  <1>4. Settles /\ VariableOK' /\ StableOK'
    BY <1>1, <1>3, MintVariableKeeps, MintStableKeeps
  <1> QED
    BY <1>2, <1>4 DEF Kept, TokensOK

LEMMA AtMostType ==
    ASSUME NEW a \in Nat, NEW b \in Nat
    PROVE  AtMost(a, b) \in Nat /\ AtMost(a, b) <= b /\ AtMost(a, b) <= a
  BY DEF AtMost

(* What is paid is no more than the debt, in either mode of repayment. *)
LEMMA PaymentKeeps ==
    ASSUME Ledger, NEW u \in Users, NEW mode \in Modes, NEW paid \in Nat,
           paid <= DebtOf(u, mode), NEW added \in Nat,
           IF mode = "stable" THEN BurnStable(Updated, u, paid, added)
           ELSE BurnVariable(Updated, u, paid, added)
    PROVE  Settles /\ VariableOK' /\ StableOK'
  <1>1. added \in Int /\ liquidity + added \in Nat
    BY Shapes
  <1>2. CASE mode = "stable"
    <2>1. paid <= Grown(stableDebt[u])
      BY <1>2, DebtOfType
    <2> QED
      BY <1>1, <1>2, <2>1, BurnStableKeeps
  <1>3. CASE mode # "stable"
    BY <1>1, <1>3, BurnVariableKeeps
  <1> QED
    BY <1>2, <1>3

LEMMA RepayKeeps ==
    ASSUME Ledger, NEW u \in Users, NEW requested \in Requests, NEW mode \in Modes,
           Repay(u, requested, mode)
    PROVE  Kept
  <1> DEFINE paid == AtMost(requested, DebtOf(u, mode))
  <1>1. paid \in Nat /\ paid <= DebtOf(u, mode)
    BY Inputs, DebtOfType, AtMostType
  <1>2. /\ UNCHANGED rsTokens
        /\ IF mode = "stable" THEN BurnStable(Updated, u, paid, paid)
           ELSE BurnVariable(Updated, u, paid, paid)
    BY DEF Repay
  <1> HIDE DEF paid
  <1>3. BalancesOK'
    BY <1>2, BalancesStay
  <1>4. Settles /\ VariableOK' /\ StableOK'
    BY <1>1, <1>2, PaymentKeeps
  <1> QED
    BY <1>3, <1>4 DEF Kept, TokensOK

LEMMA RepayWithRSTokensKeeps ==
    ASSUME Ledger, NEW u \in Users, NEW requested \in Requests, NEW mode \in Modes,
           RepayWithRSTokens(u, requested, mode)
    PROVE  Kept
  <1> DEFINE offered == IF requested = MaxUint THEN BalanceOf(u) ELSE requested
             paid == AtMost(offered, DebtOf(u, mode))
  <1>1. offered \in Nat
    BY Inputs, DebtOfType
  <1>2. paid \in Nat /\ paid <= DebtOf(u, mode)
    <2> HIDE DEF offered
    <2> QED
      BY <1>1, DebtOfType, AtMostType
  <1>3. /\ BurnRSTokens(u, Scaled(paid, Updated.liquidityIndex))
        /\ IF mode = "stable" THEN BurnStable(Updated, u, paid, 0)
           ELSE BurnVariable(Updated, u, paid, 0)
    BY DEF RepayWithRSTokens
  <1> HIDE DEF paid
  <1>4. BalancesOK'
    BY <1>2, <1>3, Inputs, ScaledType, BurnRSTokensType
  <1>5. Settles /\ VariableOK' /\ StableOK'
    BY <1>2, <1>3, PaymentKeeps
  <1> QED
    BY <1>4, <1>5 DEF Kept, TokensOK

LEMMA SwapBorrowRateModeKeeps ==
    ASSUME Ledger, NEW u \in Users, NEW mode \in Modes, SwapBorrowRateMode(u, mode)
    PROVE  Kept
  <1> DEFINE owed == DebtOf(u, mode)
             scaled == Scaled(owed, Updated.variableBorrowIndex)
             paid == TotalLessPaid(owed, stableDebt[u].rate)
             lent == WithLoan(stableTotal, owed, reserve.stableBorrowRate)
             left == LessPaid(stableDebt[u], owed)
             debt == WithLoan(stableDebt[u], owed, reserve.stableBorrowRate)
  <1>1. owed \in Nat
    BY DebtOfType
  <1>2. scaled \in Nat
    BY <1>1, ScaledType
  <1>3. /\ owed # 0 /\ UNCHANGED rsTokens
        /\ \/ /\ mode = "stable"
              /\ stableDebt' = [stableDebt EXCEPT ![u] = left]
              /\ stableTotal' = paid
              /\ MintDebt(u, scaled)
              /\ Commit(Updated, liquidity, ReturnedSupply(owed), paid.rate)
           \/ /\ mode = "variable"
              /\ BurnDebt(u, scaled)
              /\ stableDebt' = [stableDebt EXCEPT ![u] = debt]
              /\ stableTotal' = lent
              /\ Commit(Updated, liquidity, lent.principal, lent.rate)
    BY DEF SwapBorrowRateMode
  <1>4. /\ stableDebt[u] \in Loan /\ stableDebt[u].timestamp <= now /\ stableDebt[u].rate \in Nat
        /\ stableTotal \in Loan /\ stableTotal.timestamp <= now
        /\ reserve.stableBorrowRate \in Nat /\ liquidity \in Nat /\ now <= now
    BY Shapes DEF Loan
  <1>5. BalancesOK'
    BY <1>3, BalancesStay
  <1>6. CASE mode = "stable"
    <2>1. /\ stableDebt' = [stableDebt EXCEPT ![u] = left] /\ stableTotal' = paid
          /\ MintDebt(u, scaled)
          /\ Commit(Updated, liquidity, ReturnedSupply(owed), paid.rate)
      BY <1>3, <1>6
    <2>2. left \in Loan /\ left.timestamp <= now
      <3>1. owed <= Grown(stableDebt[u])
        BY <1>6, DebtOfType
      <3> HIDE DEF owed
      <3> QED
        BY <1>1, <1>4, <3>1, LessPaidType
    <2>3. paid \in Loan /\ paid.timestamp = now /\ paid.rate \in Nat /\ ReturnedSupply(owed) \in Nat
      BY <1>1, <1>4, TotalLessPaidType
    <2> HIDE DEF left, paid, scaled, owed
    <2>4. VariableOK'
      BY <1>2, <2>1, MintDebtType
    <2>5. Settles
      BY <1>4, <2>1, <2>3, <2>4, UpdatedSettles DEF VariableOK
    <2>6. StableOK'
      BY <1>4, <2>1, <2>2, <2>3, <2>5, StableDebtsChange DEF Settles
    <2> QED
      BY <1>5, <2>4, <2>5, <2>6 DEF Kept, TokensOK
  <1>7. CASE mode = "variable"
    <2>1. /\ stableDebt' = [stableDebt EXCEPT ![u] = debt] /\ stableTotal' = lent
          /\ BurnDebt(u, scaled) /\ Commit(Updated, liquidity, lent.principal, lent.rate)
      BY <1>3, <1>7
    <2>2. owed \in Nat \ {0}
      BY <1>1, <1>3
    <2>3. debt \in Loan /\ debt.timestamp = now
      BY <1>4, <2>2, WithLoanType
    <2>4. lent \in Loan /\ lent.timestamp = now /\ lent.principal \in Nat /\ lent.rate \in Nat
      BY <1>4, <2>2, WithLoanType
    <2> HIDE DEF debt, lent, scaled, owed
    <2>5. VariableOK'
      BY <1>2, <2>1, BurnDebtType
    <2>6. Settles
      BY <1>4, <2>1, <2>4, <2>5, UpdatedSettles DEF VariableOK
    <2>7. StableOK'
      BY <1>4, <2>1, <2>3, <2>4, <2>6, StableDebtsChange DEF Settles
    <2> QED
      BY <1>5, <2>5, <2>6, <2>7 DEF Kept, TokensOK
  <1> QED
    BY <1>6, <1>7 DEF Modes

LEMMA RebalanceStableBorrowRateKeeps ==
    ASSUME Ledger, NEW u \in Users, RebalanceStableBorrowRate(u)
    PROVE  Kept
  <1> DEFINE owed == Grown(stableDebt[u])
             without == TotalLessPaid(owed, stableDebt[u].rate)
             rate == reserve.stableBorrowRate
             totalRate == Averaged(without.rate, without.principal, rate, owed)
             debtRate == Averaged(0, 0, rate, owed)
             total == [principal |-> without.principal + owed, rate |-> totalRate,
                       timestamp |-> now]
             debt == [principal |-> owed, timestamp |-> now, rate |-> debtRate]
  <1>1. /\ owed # 0 /\ UNCHANGED rsTokens /\ UNCHANGED variableDebts
        /\ stableDebt' = [stableDebt EXCEPT ![u] = debt] /\ stableTotal' = total
        /\ Commit(Updated, liquidity, total.principal, total.rate)
    BY DEF RebalanceStableBorrowRate
  <1>2. owed \in Nat /\ rate \in Nat /\ now \in Nat /\ liquidity \in Nat /\ stableDebt[u].rate \in Nat
    BY Shapes, DebtOfType DEF Loan
  <1>3. without.principal \in Nat /\ without.rate \in Nat
    BY <1>2, TotalLessPaidType
  <1> HIDE DEF owed, without, rate
  <1>4. totalRate \in Nat /\ debtRate \in Nat
    <2>1. without.principal + owed # 0 /\ 0 + owed # 0
      BY <1>1, <1>2, <1>3
    <2> QED
      BY <1>2, <1>3, <2>1, AveragedType
  <1> HIDE DEF totalRate, debtRate
  <1>5. /\ total \in Loan /\ total.timestamp <= now /\ total.principal \in Nat /\ total.rate \in Nat
        /\ debt \in Loan /\ debt.timestamp <= now
    BY <1>2, <1>3, <1>4 DEF Loan
  <1> HIDE DEF total, debt
  <1>6. VariableOK'
    BY <1>1, VariableDebtsStay
  <1>7. Settles
    BY <1>1, <1>2, <1>5, <1>6, UpdatedSettles DEF VariableOK
  <1>8. StableOK'
    BY <1>1, <1>5, <1>7, StableDebtsChange DEF Settles
  <1>9. BalancesOK'
    BY <1>1, BalancesStay
  <1> QED
    BY <1>6, <1>7, <1>8, <1>9 DEF Kept, TokensOK

LEMMA MintUnbackedKeeps ==
    ASSUME Ledger, NEW u \in Users, NEW amount \in Amounts, MintUnbacked(u, amount)
    PROVE  Kept
  <1> DEFINE minted == Updated.unbacked + amount
             r == [Updated EXCEPT !.unbacked = minted]
  <1>1. /\ MintRSTokens(u, Scaled(amount, Updated.liquidityIndex))
        /\ CommitLiquidity(r, liquidity)
    BY DEF MintUnbacked
  <1>2. amount \in Nat /\ u \in Accounts /\ minted \in Nat /\ liquidity \in Nat
    BY Inputs, Shapes, UpdatedReserve
  <1> HIDE DEF minted
  <1>3. /\ r \in ReserveRecords /\ r.lastUpdate = now /\ r.liquidityIndex = NormalizedIncome
        /\ r.variableBorrowIndex = Updated.variableBorrowIndex
    BY <1>2, UpdatedReserve DEF ReserveRecords
  <1> HIDE DEF r
  <1>4. BalancesOK'
    BY <1>1, <1>2, ScaledType, MintRSTokensType
  <1>5. Settles /\ VariableOK' /\ StableOK'
    BY <1>1, <1>2, <1>3, IncomeGrows, CommitLiquiditySettles
  <1> QED
    BY <1>4, <1>5 DEF Kept, TokensOK

(* A fee raises the index, by its share of what the suppliers have. *)
LEMMA CumulatedIndex ==
    ASSUME NEW index \in Nat, NEW total \in Nat \ {0}, NEW amount \in Nat
    PROVE  /\ CumulateToLiquidityIndex(index, total, amount) \in Nat
           /\ CumulateToLiquidityIndex(index, total, amount) >= index
  <1> DEFINE part == RayDiv(WadToRay(amount), WadToRay(total))
  <1>1. part \in Nat
    BY WadToRayType, RayDivType
  <1> HIDE DEF part
  <1>2. part + RAY \in Nat /\ part + RAY >= RAY
    BY <1>1, Units
  <1>3. CumulateToLiquidityIndex(index, total, amount) = RayMul(part + RAY, index)
    BY DEF CumulateToLiquidityIndex, part
  <1> QED
    BY <1>2, <1>3, RayMulGrows

LEMMA BackUnbackedKeeps ==
    ASSUME Ledger, NEW amount \in Amounts, NEW fee \in Fees, BackUnbacked(amount, fee)
    PROVE  Kept
  <1> DEFINE backing == AtMost(amount, reserve.unbacked)
             toProtocol == PercentMul(fee, BridgeProtocolFee)
             total == RayMul(scaledSupply, Updated.liquidityIndex)
                          + RayMul(Updated.accruedToTreasury, Updated.liquidityIndex)
             index == CumulateToLiquidityIndex(Updated.liquidityIndex, total, fee - toProtocol)
             accrued == Updated.accruedToTreasury + RayDiv(toProtocol, index)
             unbacked == Updated.unbacked - backing
             r == [Updated EXCEPT !.liquidityIndex = index, !.accruedToTreasury = accrued,
                                  !.unbacked = unbacked]
  <1>1. /\ total # 0 /\ UNCHANGED rsTokens
        /\ CommitLiquidity(r, liquidity + backing + fee)
    BY DEF BackUnbacked
  <1>2. /\ amount \in Nat /\ fee \in Nat /\ reserve.unbacked \in Nat /\ liquidity \in Nat
        /\ scaledSupply \in Nat /\ Updated.accruedToTreasury \in Nat
        /\ Updated.liquidityIndex \in Nat /\ Updated.liquidityIndex = NormalizedIncome
        /\ NormalizedIncome \in Nat \ {0} /\ Updated.unbacked = reserve.unbacked
        /\ BridgeProtocolFee \in Nat /\ BridgeProtocolFee <= PERCENTAGE_FACTOR
        /\ Updated \in ReserveRecords /\ Updated.lastUpdate = now
    BY Inputs, Shapes, UpdatedReserve, IncomeGrows, Units, AccountingAssumption
  <1>3. backing \in Nat /\ backing <= reserve.unbacked
    BY <1>2, AtMostType
  <1> HIDE DEF backing
  <1>4. unbacked \in Nat /\ liquidity + backing + fee \in Nat
    BY <1>2, <1>3
  <1>5. toProtocol \in Nat /\ fee - toProtocol \in Nat
    <2>1. toProtocol \in Nat /\ toProtocol <= fee
      BY <1>2, PercentMulType, PercentMulBound
    <2> QED
      BY <1>2, <2>1
  <1>6. total \in Nat \ {0}
    <2>1. /\ RayMul(scaledSupply, Updated.liquidityIndex) \in Nat
          /\ RayMul(Updated.accruedToTreasury, Updated.liquidityIndex) \in Nat
      BY <1>2, RayMulType
    <2> QED
      BY <1>1, <2>1
  <1> HIDE DEF toProtocol, total, unbacked
  <1>7. index \in Nat \ {0} /\ index >= NormalizedIncome
    <2>1. index \in Nat /\ index >= Updated.liquidityIndex
      BY <1>2, <1>5, <1>6, CumulatedIndex
    <2> QED
      BY <1>2, <2>1
  <1> HIDE DEF index
  <1>8. accrued \in Nat
    <2>1. RayDiv(toProtocol, index) \in Nat
      BY <1>5, <1>7, RayDivType
    <2> QED
      BY <1>2, <2>1
  <1> HIDE DEF accrued
  <1>9. /\ r \in ReserveRecords /\ r.lastUpdate = now /\ r.liquidityIndex >= NormalizedIncome
        /\ r.variableBorrowIndex = Updated.variableBorrowIndex
    BY <1>2, <1>4, <1>7, <1>8 DEF ReserveRecords
  <1> HIDE DEF r
  <1>10. Settles /\ VariableOK' /\ StableOK'
    BY <1>1, <1>4, <1>9, CommitLiquiditySettles
  <1>11. BalancesOK'
    BY <1>1, BalancesStay
  <1> QED
    BY <1>10, <1>11 DEF Kept, TokensOK

-----------------------------------------------------------------------------
(* The steps that settle nothing. *)

LEMMA MintToTreasuryKeeps ==
    ASSUME Ledger, MintToTreasury
    PROVE  Ledger' /\ IndexesRise
  <1> DEFINE minted == RayMul(reserve.accruedToTreasury, NormalizedIncome)
  <1>1. minted \in Nat
    BY Shapes, IncomeGrows, RayMulType
  <1>2. /\ reserve' = [reserve EXCEPT !.accruedToTreasury = 0]
        /\ MintRSTokens(Treasury, Scaled(minted, NormalizedIncome))
        /\ steps' = steps + 1 /\ now' = now /\ liquidity' = liquidity
        /\ UNCHANGED variableDebts /\ UNCHANGED stableDebts
    BY DEF MintToTreasury
  <1> HIDE DEF minted
  <1>3. BalancesOK'
    BY <1>1, <1>2, Inputs, ScaledType, MintRSTokensType
  <1>4. VariableOK' /\ StableOK'
    BY <1>2, VariableDebtsStay, StableDebtsStay
  <1>5. /\ reserve' \in ReserveRecords /\ reserve'.lastUpdate = reserve.lastUpdate
        /\ reserve'.liquidityIndex = reserve.liquidityIndex
        /\ reserve'.variableBorrowIndex = reserve.variableBorrowIndex
        /\ reserve'.liquidityRate = reserve.liquidityRate
        /\ reserve'.variableBorrowRate = reserve.variableBorrowRate
    BY <1>2, Shapes DEF ReserveRecords
  <1>6. Ledger'
    <2>1. TypeOK'
      BY <1>2, <1>3, <1>4, <1>5, Shapes DEF TypeOK, BalancesOK, VariableOK, StableOK
    <2>2. Dated'
      BY <1>2, <1>5, Shapes DEF Dated, stableDebts
    <2> QED
      BY <2>1, <2>2 DEF Ledger
  <1>7. NormalizedIncome' = NormalizedIncome /\ NormalizedDebt' = NormalizedDebt
    BY <1>2, <1>5 DEF NormalizedIncome, NormalizedDebt
  <1> QED
    BY <1>6, <1>7, IncomeGrows, DebtGrows DEF IndexesRise

LEMMA SetReserveFactorKeeps ==
    ASSUME Ledger, NEW factor \in Factors, SetReserveFactor(factor)
    PROVE  Ledger' /\ IndexesRise
  <1>1. factor \in 0 .. PERCENTAGE_FACTOR
    BY AccountingAssumption, Units DEF SetReserveFactor
  <1>2. /\ reserve' = [reserve EXCEPT !.reserveFactor = factor]
        /\ steps' = steps + 1 /\ now' = now /\ liquidity' = liquidity /\ UNCHANGED tokens
    BY DEF SetReserveFactor
  <1>3. /\ reserve' \in ReserveRecords /\ reserve'.lastUpdate = reserve.lastUpdate
        /\ reserve'.liquidityIndex = reserve.liquidityIndex
        /\ reserve'.variableBorrowIndex = reserve.variableBorrowIndex
        /\ reserve'.liquidityRate = reserve.liquidityRate
        /\ reserve'.variableBorrowRate = reserve.variableBorrowRate
    BY <1>1, <1>2, Shapes DEF ReserveRecords
  <1>4. Ledger'
    <2>1. TypeOK'
      BY <1>2, <1>3, Shapes DEF Ledger, TypeOK, tokens, rsTokens, variableDebts, stableDebts
    <2>2. Dated'
      BY <1>2, <1>3, Shapes DEF Dated, tokens, stableDebts
    <2> QED
      BY <2>1, <2>2 DEF Ledger
  <1>5. NormalizedIncome' = NormalizedIncome /\ NormalizedDebt' = NormalizedDebt
    BY <1>2, <1>3 DEF NormalizedIncome, NormalizedDebt
  <1> QED
    BY <1>4, <1>5, IncomeGrows, DebtGrows DEF IndexesRise

LEMMA TickKeeps ==
    ASSUME Ledger, Tick
    PROVE  Ledger' /\ IndexesRise
  <1>1. /\ now' = now + 1 /\ reserve' = reserve /\ liquidity' = liquidity /\ steps' = steps
        /\ UNCHANGED tokens
    BY DEF Tick
  <1>2. Ledger'
    <2>1. TypeOK'
      BY <1>1, Shapes DEF Ledger, TypeOK, tokens, rsTokens, variableDebts, stableDebts
    <2>2. \A u \in Users : stableDebt[u].timestamp \in Nat /\ stableDebt[u].timestamp <= now + 1
      <3> SUFFICES ASSUME NEW u \in Users
                   PROVE  stableDebt[u].timestamp \in Nat /\ stableDebt[u].timestamp <= now + 1
        OBVIOUS
      <3>1. stableDebt[u].timestamp \in Nat /\ stableDebt[u].timestamp <= now /\ now \in Nat
        BY Shapes DEF Loan
      <3> QED
        BY <3>1
    <2>3. Dated'
      BY <1>1, <2>2, Shapes DEF Dated, tokens, stableDebts
    <2> QED
      BY <2>1, <2>3 DEF Ledger
  <1> DEFINE e == now - reserve.lastUpdate
             f == now + 1 - reserve.lastUpdate
  <1>3. e \in Nat /\ f \in Nat /\ e <= f
    BY Shapes
  <1>4. NormalizedIncome' >= NormalizedIncome
    <2> DEFINE before == LinearInterest(reserve.liquidityRate, e)
               after == LinearInterest(reserve.liquidityRate, f)
    <2>1. before \in Nat /\ after \in Nat /\ before <= after
      BY <1>3, Shapes, LinearInterestType, LinearInterestMonotone
    <2>2. /\ NormalizedIncome = RayMul(before, reserve.liquidityIndex)
          /\ NormalizedIncome' = RayMul(after, reserve.liquidityIndex)
      <3>1. NormalizedIncome' = RayMul(LinearInterest(reserve'.liquidityRate,
                                                      now' - reserve'.lastUpdate),
                                       reserve'.liquidityIndex)
        BY DEF NormalizedIncome
      <3>2. now' - reserve'.lastUpdate = f
        BY <1>1, Shapes
      <3> QED
        BY <1>1, <3>1, <3>2 DEF NormalizedIncome
    <2>3. reserve.liquidityIndex \in Nat /\ reserve.liquidityIndex <= reserve.liquidityIndex
      BY Shapes
    <2> HIDE DEF before, after
    <2>4. /\ RayMul(before, reserve.liquidityIndex) <= RayMul(after, reserve.liquidityIndex)
          /\ RayMul(before, reserve.liquidityIndex) \in Nat
          /\ RayMul(after, reserve.liquidityIndex) \in Nat
      BY <2>1, <2>3, RayMulMonotone, RayMulType
    <2> QED
      BY <2>2, <2>4
  <1>5. NormalizedDebt' >= NormalizedDebt
    <2> DEFINE before == CompoundedInterest(reserve.variableBorrowRate, e)
               after == CompoundedInterest(reserve.variableBorrowRate, f)
    <2>1. before \in Nat /\ after \in Nat /\ before <= after
      BY <1>3, Shapes, CompoundedInterestMonotone
    <2>2. /\ NormalizedDebt = RayMul(before, reserve.variableBorrowIndex)
          /\ NormalizedDebt' = RayMul(after, reserve.variableBorrowIndex)
      <3>1. NormalizedDebt' = RayMul(CompoundedInterest(reserve'.variableBorrowRate,
                                                        now' - reserve'.lastUpdate),
                                     reserve'.variableBorrowIndex)
        BY DEF NormalizedDebt
      <3>2. now' - reserve'.lastUpdate = f
        BY <1>1, Shapes
      <3> QED
        BY <1>1, <3>1, <3>2 DEF NormalizedDebt
    <2>3. /\ reserve.variableBorrowIndex \in Nat
          /\ reserve.variableBorrowIndex <= reserve.variableBorrowIndex
      BY Shapes
    <2> HIDE DEF before, after
    <2>4. /\ RayMul(before, reserve.variableBorrowIndex) <= RayMul(after, reserve.variableBorrowIndex)
          /\ RayMul(before, reserve.variableBorrowIndex) \in Nat
          /\ RayMul(after, reserve.variableBorrowIndex) \in Nat
      BY <2>1, <2>3, RayMulMonotone, RayMulType
    <2> QED
      BY <2>2, <2>4
  <1> QED
    BY <1>2, <1>4, <1>5 DEF IndexesRise

-----------------------------------------------------------------------------
(* The theorems. *)

LEMMA LedgerInit == Init => Ledger
  <1> SUFFICES ASSUME Init PROVE Ledger
    OBVIOUS
  <1>1. /\ InitialSupply \in Nat /\ InitialFactor \in 0 .. PERCENTAGE_FACTOR
        /\ 0 \in Nat /\ 1 \in Nat
    BY AccountingAssumption
  <1>2. NewReserve \in ReserveRecords /\ NewReserve.lastUpdate = 1
        /\ NewReserve.liquidityIndex = RAY /\ NewReserve.variableBorrowIndex = RAY
    BY <1>1, Units DEF NewReserve, ReserveRecords
  <1>3. reserve = WithRates(NewReserve, InitialSupply, 0, 0, 0)
    BY DEF Init
  <1>4. /\ reserve \in ReserveRecords /\ reserve.lastUpdate = 1
        /\ reserve.liquidityIndex = RAY /\ reserve.variableBorrowIndex = RAY
    <2>1. PICK fresh : fresh = NewReserve
      OBVIOUS
    <2>2. PICK none : none = 0
      OBVIOUS
    <2>3. /\ fresh \in ReserveRecords /\ fresh.lastUpdate = 1
          /\ fresh.liquidityIndex = RAY /\ fresh.variableBorrowIndex = RAY
          /\ none \in Nat /\ InitialSupply \in Nat
      BY <1>1, <1>2, <2>1, <2>2
    <2>4. /\ WithRates(fresh, InitialSupply, none, none, none) \in ReserveRecords
          /\ WithRates(fresh, InitialSupply, none, none, none).lastUpdate = fresh.lastUpdate
          /\ WithRates(fresh, InitialSupply, none, none, none).liquidityIndex
                = fresh.liquidityIndex
          /\ WithRates(fresh, InitialSupply, none, none, none).variableBorrowIndex
                = fresh.variableBorrowIndex
      BY ONLY <2>3, WithRatesType, ZenonT(30)
    <2>5. reserve = WithRates(fresh, InitialSupply, none, none, none)
      BY <1>3, <2>1, <2>2
    <2> QED
      BY <2>3, <2>4, <2>5
  <1>5. NoStableDebt \in Loan /\ NoStableDebt.timestamp = 0
    BY DEF NoStableDebt, Loan
  <1>6. TypeOK
    BY <1>1, <1>4, <1>5 DEF Init, TypeOK
  <1>7. Dated
    BY <1>4, <1>5, Units DEF Init, Dated
  <1> QED
    BY <1>6, <1>7 DEF Ledger

LEMMA LedgerNext ==
    ASSUME Ledger, [Next]_accountingVars
    PROVE  Ledger' /\ IndexesRise
  <1>1. ASSUME Kept PROVE Ledger' /\ IndexesRise
    BY <1>1, SettlingKeepsLedger, SettlingRaisesIndexes DEF Kept
  <1>2. ASSUME NEW u \in Users, UserStep(u) PROVE Kept
    BY <1>2, SupplyKeeps, WithdrawKeeps, BorrowKeeps, RepayKeeps, RepayWithRSTokensKeeps,
       SwapBorrowRateModeKeeps, RebalanceStableBorrowRateKeeps, MintUnbackedKeeps DEF UserStep
  <1>3. CASE UNCHANGED accountingVars
    <2>1. /\ now' = now /\ reserve' = reserve /\ liquidity' = liquidity /\ steps' = steps
          /\ UNCHANGED tokens
      BY <1>3 DEF accountingVars
    <2>2. Ledger'
      BY <2>1 DEF Ledger, TypeOK, Dated, tokens, rsTokens, variableDebts, stableDebts
    <2>3. NormalizedIncome' = NormalizedIncome /\ NormalizedDebt' = NormalizedDebt
      BY <2>1 DEF NormalizedIncome, NormalizedDebt
    <2> QED
      BY <2>2, <2>3, IncomeGrows, DebtGrows DEF IndexesRise
  <1>4. CASE Next
    BY <1>1, <1>2, <1>4, BackUnbackedKeeps, MintToTreasuryKeeps, SetReserveFactorKeeps, TickKeeps
       DEF Next
  <1> QED
    BY <1>3, <1>4

LEMMA LedgerAlways == Spec => []Ledger
  <1>1. Ledger /\ [Next]_accountingVars => Ledger'
    BY LedgerNext
  <1> QED
    BY LedgerInit, <1>1, PTL DEF Spec

(* No transaction drives a balance, a debt, a total, an index or what a bridge owes below
   zero, whatever the amounts and the time between transactions. *)
THEOREM AccountingTypeCorrect == Spec => []TypeOK
  <1>1. Ledger => TypeOK
    BY DEF Ledger
  <1> QED
    BY <1>1, LedgerAlways, PTL

(* Settling the interest of a reserve, which every transaction does first, never reverts:
   _accrueToTreasury's unsigned differences are naturals. *)
THEOREM AccrualIsSafe == Spec => []AccrualNeverReverts
  <1>1. Ledger => AccrualNeverReverts
    <2> SUFFICES ASSUME Ledger PROVE AccrualNeverReverts
      OBVIOUS
    <2>1. TotalDebtAccrued(NextVariableBorrowIndex) >= 0
      BY AccruedIsNatural
    <2> QED
      BY <2>1, Shapes DEF AccrualNeverReverts
  <1> QED
    BY <1>1, LedgerAlways, PTL

(* What a unit supplied or owed has grown to never shrinks, so that the unsigned difference
   to the balance at an account's last index, in every mint and burn, is defined. *)
THEOREM IndexesRiseAlways == Spec => IndexesNeverFall
  <1>1. Ledger /\ [Next]_accountingVars => [IndexesRise]_accountingVars
    BY LedgerNext
  <1>2. [IndexesRise]_accountingVars =>
            [/\ NormalizedIncome' >= NormalizedIncome
             /\ scaledTotalDebt # 0 => NormalizedDebt' >= NormalizedDebt]_accountingVars
    BY DEF IndexesRise
  <1> QED
    BY <1>1, <1>2, LedgerAlways, PTL DEF Spec, IndexesNeverFall

-----------------------------------------------------------------------------
(* What a transaction moves: shares, variable and stable debt of one account each. *)

SharesMove(a) ==
    \/ UNCHANGED rsTokens
    \/ \E scaled \in Nat : MintRSTokens(a, scaled) \/ BurnRSTokens(a, scaled)

DebtMoves(u) ==
    \/ UNCHANGED variableDebts
    \/ u \in Users /\ \E scaled \in Nat : MintDebt(u, scaled) \/ BurnDebt(u, scaled)

StableMoves(u) ==
    \/ UNCHANGED stableDebts
    \/ \E debt : stableDebt' = [stableDebt EXCEPT ![u] = debt]

Moves(a) == SharesMove(a) /\ DebtMoves(a) /\ StableMoves(a)

LEMMA SharesMinted ==
    ASSUME Ledger, NEW a, NEW amount \in Nat,
           MintRSTokens(a, Scaled(amount, Updated.liquidityIndex))
    PROVE  SharesMove(a)
  BY ScaledType DEF SharesMove

LEMMA SharesBurnt ==
    ASSUME Ledger, NEW a \in Accounts, NEW scaled, BurnRSTokens(a, scaled)
    PROVE  SharesMove(a)
  <1>1. scaledBalance[a] \in Nat /\ scaled \in 1 .. scaledBalance[a]
    BY Shapes DEF BurnRSTokens
  <1>2. scaled \in Nat
    BY <1>1
  <1> QED
    BY <1>2 DEF SharesMove

LEMMA DebtBurnt ==
    ASSUME Ledger, NEW u \in Users, NEW scaled, BurnDebt(u, scaled)
    PROVE  DebtMoves(u)
  <1>1. scaledDebt[u] \in Nat /\ scaled \in 1 .. scaledDebt[u]
    BY Shapes DEF BurnDebt
  <1>2. scaled \in Nat
    BY <1>1
  <1> QED
    BY <1>2 DEF DebtMoves

LEMMA UserMoves ==
    ASSUME Ledger, NEW u \in Users, UserStep(u)
    PROVE  Moves(u)
  <1>1. u \in Accounts
    BY Inputs
  <1>2. ASSUME NEW amount \in Amounts, Supply(u, amount) PROVE Moves(u)
    BY <1>2, Inputs, SharesMinted DEF Supply, CommitLiquidity, Moves, DebtMoves, StableMoves
  <1>3. ASSUME NEW amount \in Requests, NEW forgo, Withdraw(u, amount, forgo) PROVE Moves(u)
    BY <1>1, <1>3, SharesBurnt DEF Withdraw, Moves, DebtMoves, StableMoves
  <1>4. ASSUME NEW amount \in Amounts, NEW mode \in Modes, Borrow(u, amount, mode)
        PROVE  Moves(u)
    <2>1. SharesMove(u)
      BY <1>4 DEF Borrow, SharesMove
    <2>2. ASSUME MintVariable(Updated, u, amount, -amount) PROVE Moves(u)
      BY <2>1, <2>2, Inputs, ScaledType DEF MintVariable, Moves, DebtMoves, StableMoves
    <2>3. ASSUME MintStable(Updated, u, amount, -amount) PROVE Moves(u)
      BY <2>1, <2>3 DEF MintStable, Moves, DebtMoves, StableMoves
    <2> QED
      BY <1>4, <2>2, <2>3 DEF Borrow
  <1>5. ASSUME NEW paid, NEW added, NEW mode,
               IF mode = "stable" THEN BurnStable(Updated, u, paid, added)
               ELSE BurnVariable(Updated, u, paid, added)
        PROVE  DebtMoves(u) /\ StableMoves(u)
    <2>1. ASSUME BurnStable(Updated, u, paid, added) PROVE DebtMoves(u) /\ StableMoves(u)
      BY <2>1 DEF BurnStable, DebtMoves, StableMoves
    <2>2. ASSUME BurnVariable(Updated, u, paid, added) PROVE DebtMoves(u) /\ StableMoves(u)
      BY <2>2, DebtBurnt DEF BurnVariable, StableMoves
    <2> QED
      BY <1>5, <2>1, <2>2
  <1>6. ASSUME NEW amount \in Requests, NEW mode \in Modes, Repay(u, amount, mode)
        PROVE  Moves(u)
    BY <1>5, <1>6 DEF Repay, Moves, SharesMove
  <1>7. ASSUME NEW amount \in Requests, NEW mode \in Modes, RepayWithRSTokens(u, amount, mode)
        PROVE  Moves(u)
    BY <1>1, <1>5, <1>7, SharesBurnt DEF RepayWithRSTokens, Moves
  <1>8. ASSUME NEW mode \in Modes, SwapBorrowRateMode(u, mode) PROVE Moves(u)
    <2>1. DebtOf(u, mode) \in Nat
      BY <1>8, DebtOfType
    <2>2. DebtMoves(u)
      BY <1>8, <2>1, ScaledType, DebtBurnt DEF SwapBorrowRateMode, DebtMoves
    <2>3. StableMoves(u)
      BY <1>8 DEF SwapBorrowRateMode, StableMoves
    <2> QED
      BY <1>8, <2>2, <2>3 DEF SwapBorrowRateMode, Moves, SharesMove
  <1>9. ASSUME RebalanceStableBorrowRate(u) PROVE Moves(u)
    BY <1>9 DEF RebalanceStableBorrowRate, Moves, SharesMove, DebtMoves, StableMoves
  <1>10. ASSUME NEW amount \in Amounts, MintUnbacked(u, amount) PROVE Moves(u)
    BY <1>10, Inputs, SharesMinted DEF MintUnbacked, CommitLiquidity, Moves, DebtMoves, StableMoves
  <1> QED
    BY <1>2, <1>3, <1>4, <1>6, <1>7, <1>8, <1>9, <1>10 DEF UserStep

LEMMA StepMoves ==
    ASSUME Ledger, [Next]_accountingVars
    PROVE  \E a \in Accounts : Moves(a)
  <1>1. Treasury \in Accounts /\ \A u \in Users : u \in Accounts
    BY Inputs
  <1>2. ASSUME UNCHANGED tokens PROVE Moves(Treasury)
    BY <1>2 DEF tokens, Moves, SharesMove, DebtMoves, StableMoves
  <1>3. ASSUME NEW amount \in Amounts, NEW fee \in Fees, BackUnbacked(amount, fee)
        PROVE  Moves(Treasury)
    BY <1>2, <1>3 DEF BackUnbacked, CommitLiquidity, tokens
  <1>4. ASSUME MintToTreasury PROVE Moves(Treasury)
    <2> DEFINE minted == RayMul(reserve.accruedToTreasury, NormalizedIncome)
    <2>1. minted \in Nat
      BY Shapes, IncomeGrows, RayMulType
    <2>2. Scaled(minted, NormalizedIncome) \in Nat
      BY <2>1, ScaledType
    <2> QED
      BY <1>4, <2>2 DEF MintToTreasury, Moves, SharesMove, DebtMoves, StableMoves
  <1>5. ASSUME NEW factor \in Factors, SetReserveFactor(factor) PROVE Moves(Treasury)
    BY <1>2, <1>5 DEF SetReserveFactor
  <1>6. ASSUME Tick PROVE Moves(Treasury)
    BY <1>2, <1>6 DEF Tick
  <1>7. ASSUME UNCHANGED accountingVars PROVE Moves(Treasury)
    BY <1>2, <1>7 DEF accountingVars
  <1> QED
    BY <1>1, <1>3, <1>4, <1>5, <1>6, <1>7, UserMoves DEF Next

-----------------------------------------------------------------------------
(* The totals of the scaled balances. *)

TotalsAddUp ==
    /\ scaledSupply = SumFunctionOnSet(scaledBalance, Accounts)
    /\ scaledTotalDebt = SumFunctionOnSet(scaledDebt, Users)

LEMMA FiniteAccounts == IsFiniteSet(Users) /\ IsFiniteSet(Accounts)
  BY AccountingAssumption, FS_AddElement DEF Accounts

(* One part of a sum and the sum itself grow or shrink by the same. *)
LEMMA SumMoves ==
    ASSUME NEW S, IsFiniteSet(S), NEW x \in S, NEW e \in [S -> Nat], NEW f,
           NEW total \in Nat, total = SumFunctionOnSet(e, S), NEW after,
           NEW change \in Int, e[x] + change \in Nat, f = [e EXCEPT ![x] = e[x] + change],
           after = total + change
    PROVE  after = SumFunctionOnSet(f, S)
  <1>1. f \in [S -> Nat] /\ f[x] = e[x] + change /\ \A y \in S : y # x => f[y] = e[y]
    OBVIOUS
  <1>2. SumFunctionOnSet(f, S) = total - e[x] + f[x]
    BY ONLY <1>1, SumChange, IsFiniteSet(S), x \in S, e \in [S -> Nat],
            total = SumFunctionOnSet(e, S)
  <1>3. e[x] \in Nat
    OBVIOUS
  <1> QED
    BY <1>1, <1>2, <1>3

LEMMA TotalsStep ==
    ASSUME Ledger, TotalsAddUp, NEW a \in Accounts, Moves(a)
    PROVE  TotalsAddUp'
  <1>1. scaledSupply' = SumFunctionOnSet(scaledBalance', Accounts)
    <2>1. /\ scaledBalance \in [Accounts -> Nat] /\ scaledSupply \in Nat /\ IsFiniteSet(Accounts)
          /\ scaledSupply = SumFunctionOnSet(scaledBalance, Accounts)
          /\ scaledBalance[a] \in Nat
      BY FiniteAccounts, Shapes DEF TotalsAddUp, Ledger, TypeOK
    <2>2. CASE UNCHANGED rsTokens
      BY <2>1, <2>2 DEF rsTokens
    <2>3. ASSUME NEW scaled \in Nat, MintRSTokens(a, scaled)
          PROVE  scaledSupply' = SumFunctionOnSet(scaledBalance', Accounts)
      <3>1. /\ scaledBalance' = [scaledBalance EXCEPT ![a] = scaledBalance[a] + scaled]
            /\ scaledSupply' = scaledSupply + scaled
            /\ scaled \in Int /\ scaledBalance[a] + scaled \in Nat
        BY <2>1, <2>3 DEF MintRSTokens
      <3> QED
        BY ONLY <2>1, <3>1, SumMoves, ZenonT(60), a \in Accounts
    <2>4. ASSUME NEW scaled \in Nat, BurnRSTokens(a, scaled)
          PROVE  scaledSupply' = SumFunctionOnSet(scaledBalance', Accounts)
      <3> DEFINE change == -scaled
      <3>1. /\ scaledBalance' = [scaledBalance EXCEPT ![a] = scaledBalance[a] + change]
            /\ scaledSupply' = scaledSupply + change
            /\ change \in Int /\ scaledBalance[a] + change \in Nat
        <4>1. /\ scaledBalance' = [scaledBalance EXCEPT ![a] = scaledBalance[a] - scaled]
              /\ scaledSupply' = scaledSupply - scaled /\ scaled \in 1 .. scaledBalance[a]
              /\ scaledBalance[a] \in Nat
          BY <2>1, <2>4 DEF BurnRSTokens
        <4>2. scaledBalance[a] + change = scaledBalance[a] - scaled /\ scaledSupply + change = scaledSupply - scaled
          BY <2>1, <4>1
        <4>3. change \in Int /\ scaledBalance[a] + change \in Nat
          BY <4>1
        <4> HIDE DEF change
        <4> QED
          BY <4>1, <4>2, <4>3
      <3> HIDE DEF change
      <3> QED
        BY ONLY <2>1, <3>1, SumMoves, ZenonT(60), a \in Accounts
    <2> QED
      BY <2>2, <2>3, <2>4 DEF Moves, SharesMove
  <1>2. scaledTotalDebt' = SumFunctionOnSet(scaledDebt', Users)
    <2>1. /\ scaledDebt \in [Users -> Nat] /\ scaledTotalDebt \in Nat /\ IsFiniteSet(Users)
          /\ scaledTotalDebt = SumFunctionOnSet(scaledDebt, Users)
      BY FiniteAccounts, Shapes DEF TotalsAddUp, Ledger, TypeOK
    <2>2. CASE UNCHANGED variableDebts
      BY <2>1, <2>2 DEF variableDebts
    <2>3. ASSUME a \in Users, NEW scaled \in Nat, MintDebt(a, scaled)
          PROVE  scaledTotalDebt' = SumFunctionOnSet(scaledDebt', Users)
      <3>1. /\ scaledDebt' = [scaledDebt EXCEPT ![a] = scaledDebt[a] + scaled]
            /\ scaledTotalDebt' = scaledTotalDebt + scaled
            /\ scaled \in Int /\ scaledDebt[a] + scaled \in Nat
        BY <2>1, <2>3 DEF MintDebt
      <3> QED
        BY ONLY <2>1, <2>3, <3>1, SumMoves, ZenonT(60)
    <2>4. ASSUME a \in Users, NEW scaled \in Nat, BurnDebt(a, scaled)
          PROVE  scaledTotalDebt' = SumFunctionOnSet(scaledDebt', Users)
      <3> DEFINE change == -scaled
      <3>1. /\ scaledDebt' = [scaledDebt EXCEPT ![a] = scaledDebt[a] + change]
            /\ scaledTotalDebt' = scaledTotalDebt + change
            /\ change \in Int /\ scaledDebt[a] + change \in Nat
        <4>1. /\ scaledDebt' = [scaledDebt EXCEPT ![a] = scaledDebt[a] - scaled]
              /\ scaledTotalDebt' = scaledTotalDebt - scaled /\ scaled \in 1 .. scaledDebt[a]
              /\ scaledDebt[a] \in Nat
          BY <2>1, <2>4 DEF BurnDebt
        <4>2. scaledDebt[a] + change = scaledDebt[a] - scaled /\ scaledTotalDebt + change = scaledTotalDebt - scaled
          BY <2>1, <4>1
        <4>3. change \in Int /\ scaledDebt[a] + change \in Nat
          BY <4>1
        <4> HIDE DEF change
        <4> QED
          BY <4>1, <4>2, <4>3
      <3> HIDE DEF change
      <3> QED
        BY ONLY <2>1, <2>4, <3>1, SumMoves, ZenonT(60)
    <2> QED
      BY <2>2, <2>3, <2>4 DEF Moves, DebtMoves
  <1> QED
    BY <1>1, <1>2 DEF TotalsAddUp

LEMMA TotalsInit == Init => TotalsAddUp
  <1> SUFFICES ASSUME Init PROVE TotalsAddUp
    OBVIOUS
  <1>1. IsFiniteSet(Users) /\ IsFiniteSet(Accounts) /\ Treasury \in Accounts
    BY FiniteAccounts, Inputs
  <1>2. scaledTotalDebt = SumFunctionOnSet(scaledDebt, Users)
    BY <1>1, SumOfZeros DEF Init
  <1>3. scaledSupply = SumFunctionOnSet(scaledBalance, Accounts)
    <2> DEFINE zeros == [b \in Accounts |-> 0]
    <2>1. zeros \in [Accounts -> Nat] /\ zeros[Treasury] = 0 /\ \A b \in Accounts : zeros[b] = 0
      BY <1>1
    <2>2. /\ scaledBalance = [zeros EXCEPT ![Treasury] = zeros[Treasury] + InitialSupply]
          /\ scaledSupply = 0 + InitialSupply
          /\ InitialSupply \in Int /\ zeros[Treasury] + InitialSupply \in Nat
      BY <1>1, AccountingAssumption DEF Init
    <2> HIDE DEF zeros
    <2>3. 0 = SumFunctionOnSet(zeros, Accounts)
      BY <1>1, <2>1, SumOfZeros
    <2>4. PICK none \in Nat : none = 0
      OBVIOUS
    <2>5. scaledSupply = none + InitialSupply /\ none = SumFunctionOnSet(zeros, Accounts)
      BY <2>2, <2>3, <2>4
    <2> QED
      BY ONLY <1>1, <2>1, <2>2, <2>4, <2>5, SumMoves, ZenonT(60)
  <1> QED
    BY <1>2, <1>3 DEF TotalsAddUp

(* The total supplies of RSTokens and variable debt tokens, from which every rate and the
   treasury's share are computed, are the sums of the accounts' scaled balances. *)
THEOREM TotalsAreSums == Spec => []TotalsAddUp
  <1>1. Ledger /\ TotalsAddUp /\ [Next]_accountingVars => TotalsAddUp'
    BY StepMoves, TotalsStep
  <1> QED
    BY <1>1, TotalsInit, LedgerAlways, PTL DEF Spec

(* ... so that where there is no variable debt nobody owes any. *)
LEMMA NoTotalNoDebt ==
    ASSUME Ledger, TotalsAddUp, scaledTotalDebt = 0, NEW u \in Users
    PROVE  scaledDebt[u] = 0
  <1>1. scaledDebt[u] \in Nat /\ scaledDebt \in [Users -> Nat]
    BY Shapes DEF Ledger, TypeOK
  <1>2. scaledDebt[u] <= 0
    BY <1>1, FiniteAccounts, SumBound DEF TotalsAddUp
  <1> QED
    BY <1>1, <1>2

-----------------------------------------------------------------------------
(* The views of the accounts that a transaction is not for. *)

(* A transaction that shares out no fee leaves what a unit is worth as it is, except for
   variable debt that nobody owes. *)
LEMMA ViewsStay ==
    ASSUME Ledger, [Next]_accountingVars, now' = now,
           reserve'.liquidityIndex = Updated.liquidityIndex
    PROVE  /\ NormalizedIncome' = NormalizedIncome
           /\ scaledTotalDebt # 0 => NormalizedDebt' = NormalizedDebt
  <1>1. ASSUME Kept
        PROVE  /\ NormalizedIncome' = NormalizedIncome
               /\ scaledTotalDebt # 0 => NormalizedDebt' = NormalizedDebt
    BY <1>1, SettledViews, UpdatedReserve DEF Kept, Settles
  <1>2. ASSUME NEW u \in Users, UserStep(u) PROVE Kept
    BY <1>2, SupplyKeeps, WithdrawKeeps, BorrowKeeps, RepayKeeps, RepayWithRSTokensKeeps,
       SwapBorrowRateModeKeeps, RebalanceStableBorrowRateKeeps, MintUnbackedKeeps DEF UserStep
  <1>3. ASSUME /\ reserve'.liquidityIndex = reserve.liquidityIndex
               /\ reserve'.variableBorrowIndex = reserve.variableBorrowIndex
               /\ reserve'.liquidityRate = reserve.liquidityRate
               /\ reserve'.variableBorrowRate = reserve.variableBorrowRate
               /\ reserve'.lastUpdate = reserve.lastUpdate
        PROVE  NormalizedIncome' = NormalizedIncome /\ NormalizedDebt' = NormalizedDebt
    BY <1>3 DEF NormalizedIncome, NormalizedDebt
  <1>4. CASE MintToTreasury
    BY <1>3, <1>4, Shapes DEF MintToTreasury, ReserveRecords
  <1>5. ASSUME NEW factor \in Factors, SetReserveFactor(factor)
        PROVE  NormalizedIncome' = NormalizedIncome /\ NormalizedDebt' = NormalizedDebt
    BY <1>3, <1>5, Shapes DEF SetReserveFactor, ReserveRecords
  <1>6. ~Tick
    BY Shapes DEF Tick
  <1>7. CASE UNCHANGED accountingVars
    BY <1>3, <1>7 DEF accountingVars
  <1> QED
    BY <1>1, <1>2, <1>4, <1>5, <1>6, <1>7, BackUnbackedKeeps DEF Next

NothingOwed == \A u \in Users : scaledDebt[u] = 0 => VariableDebtOf(u) = 0

LEMMA NoDebtNothingOwed == Ledger => NothingOwed
  <1> SUFFICES ASSUME Ledger, NEW u \in Users, scaledDebt[u] = 0
               PROVE  VariableDebtOf(u) = 0
    BY DEF NothingOwed
  <1> QED
    BY DebtGrows, RayMulZero DEF VariableDebtOf

LEMMA OthersStay ==
    ASSUME Ledger, TotalsAddUp, NothingOwed, NothingOwed', [Next]_accountingVars, now' = now,
           reserve'.liquidityIndex = Updated.liquidityIndex, NEW a \in Accounts, Moves(a)
    PROVE  /\ \A b \in Accounts \ {a} : BalanceOf(b)' = BalanceOf(b)
           /\ \A v \in Users \ {a} : /\ VariableDebtOf(v)' = VariableDebtOf(v)
                                     /\ Grown(stableDebt[v])' = Grown(stableDebt[v])
  <1>1. ASSUME NEW b \in Accounts \ {a} PROVE BalanceOf(b)' = BalanceOf(b)
    <2>1. scaledBalance'[b] = scaledBalance[b]
      <3>1. scaledBalance \in [Accounts -> Nat]
        BY DEF Ledger, TypeOK
      <3> QED
        BY <3>1 DEF Moves, SharesMove, rsTokens, MintRSTokens, BurnRSTokens
    <2> QED
      BY <2>1, ViewsStay DEF BalanceOf
  <1>2. ASSUME NEW v \in Users \ {a} PROVE VariableDebtOf(v)' = VariableDebtOf(v)
    <2>1. scaledDebt'[v] = scaledDebt[v]
      <3>1. scaledDebt \in [Users -> Nat]
        BY DEF Ledger, TypeOK
      <3> QED
        BY <3>1 DEF Moves, DebtMoves, variableDebts, MintDebt, BurnDebt
    <2>2. CASE scaledTotalDebt # 0
      BY <2>1, <2>2, ViewsStay DEF VariableDebtOf
    <2>3. CASE scaledTotalDebt = 0
      <3>1. scaledDebt[v] = 0
        BY <2>3, NoTotalNoDebt
      <3> QED
        BY <2>1, <3>1 DEF NothingOwed
    <2> QED
      BY <2>2, <2>3
  <1>3. ASSUME NEW v \in Users \ {a} PROVE Grown(stableDebt[v])' = Grown(stableDebt[v])
    <2>1. stableDebt'[v] = stableDebt[v]
      <3>1. stableDebt \in [Users -> Loan]
        BY DEF Ledger, TypeOK
      <3> QED
        BY <3>1 DEF Moves, StableMoves, stableDebts
    <2> QED
      BY <2>1 DEF Grown
  <1> QED
    BY <1>1, <1>2, <1>3

OnesOwn ==
    now' = now /\ reserve'.liquidityIndex = Updated.liquidityIndex =>
        \E a \in Accounts :
            /\ \A b \in Accounts \ {a} : BalanceOf(b)' = BalanceOf(b)
            /\ \A v \in Users \ {a} : /\ VariableDebtOf(v)' = VariableDebtOf(v)
                                     /\ Grown(stableDebt[v])' = Grown(stableDebt[v])

(* Nobody's balance or debt moves by somebody else's transaction, though it settles
   everybody's interest, sets all rates anew, and may move the stable total. *)
THEOREM TransactionsAreOnesOwn == Spec => OthersAreUntouched
  <1>1. Ledger /\ TotalsAddUp /\ NothingOwed /\ NothingOwed' /\ [Next]_accountingVars
            => [OnesOwn]_accountingVars
    BY StepMoves, OthersStay DEF OnesOwn
  <1>2. Spec => []NothingOwed
    BY NoDebtNothingOwed, LedgerAlways, PTL
  <1>3. Spec => [][OnesOwn]_accountingVars
    BY <1>1, <1>2, TotalsAreSums, LedgerAlways, PTL DEF Spec
  <1> QED
    BY <1>3 DEF OthersAreUntouched, OnesOwn

-----------------------------------------------------------------------------
(* The scenarios take the steps of the reserve and no others, so that what is
   proved of ReserveAccounting holds of what the test suite is compared with. *)

LEMMA UserScenarioIsStep ==
    ASSUME NEW u \in Users, UserScenario(u)
    PROVE  UserStep(u)
  <1>2. ASSUME NEW amount \in Amounts, Deposit(u, amount) PROVE UserStep(u)
    BY <1>2 DEF Deposit, UserStep
  <1>3. ASSUME NEW amount \in Amounts, FastWithdraw(u, amount) PROVE UserStep(u)
    BY <1>3 DEF FastWithdraw, UserStep
  <1>4. ASSUME NEW amount \in Amounts, NEW mode \in Modes, BorrowAs(u, amount, mode)
        PROVE  UserStep(u)
    BY <1>4 DEF BorrowAs, UserStep
  <1>5. ASSUME NEW amount \in Requests, NEW forgo \in BOOLEAN, WithdrawAs(u, amount, forgo)
        PROVE  UserStep(u)
    BY <1>5 DEF WithdrawAs, UserStep
  <1>6. ASSUME NEW amount \in Requests, NEW mode \in Modes, RepayAs(u, amount, mode)
        PROVE  UserStep(u)
    BY <1>6 DEF RepayAs, UserStep
  <1>7. ASSUME NEW amount \in Requests, NEW mode \in Modes, RepayWithRSTokens(u, amount, mode)
        PROVE  UserStep(u)
    BY <1>7 DEF UserStep
  <1>8. ASSUME NEW mode \in Modes, SwapBorrowRateModeAs(u, mode) PROVE UserStep(u)
    BY <1>8 DEF SwapBorrowRateModeAs, UserStep
  <1>9. ASSUME RebalanceStableBorrowRateAs(u) PROVE UserStep(u)
    BY <1>9 DEF RebalanceStableBorrowRateAs, UserStep
  <1> QED
    BY <1>2, <1>3, <1>4, <1>5, <1>6, <1>7, <1>8, <1>9 DEF UserScenario

LEMMA ScenarioIsStep == ScenarioNext => Next
  <1>1. ASSUME NEW amount \in Amounts, NEW fee \in Fees, BackFastWithdraw(amount, fee)
        PROVE  BackUnbacked(amount, fee)
    BY <1>1 DEF BackFastWithdraw
  <1> QED
    BY <1>1, UserScenarioIsStep DEF ScenarioNext, Next

(* Every behaviour of the scenarios is one of the reserve: a transaction that is compared
   with the test suite's computation is one that the contracts make. *)
THEOREM ScenariosAreBehaviours == ScenarioSpec => Spec
  <1>1. ScenarioInit => Init
    BY DEF ScenarioInit
  <1>2. [ScenarioNext]_scenarioVars => [Next]_accountingVars
    BY ScenarioIsStep DEF scenarioVars
  <1> QED
    BY <1>1, <1>2, PTL DEF ScenarioSpec, Spec
=============================================================================
