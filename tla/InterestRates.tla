----------------------------- MODULE InterestRates -----------------------------
(***************************************************************************)
(* What a reserve's debts cost and its supplies earn: MathUtils, which     *)
(* accumulates a rate over time, and DefaultReserveInterestRateStrategy,   *)
(* which sets the rates from how much of the reserve is lent out and at    *)
(* which mix of rate modes.  Amounts are weighted in ray: the strategy     *)
(* divides wads that wadToRay has scaled up.                               *)
(***************************************************************************)
EXTENDS WadRayMath

CONSTANTS SECONDS_PER_YEAR,
          Strategy   \* the immutable parameters of the strategy, in ray

ASSUME StrategyAssumption ==
    /\ SECONDS_PER_YEAR \in Nat \ {0}
    /\ RAY % WAD = 0
    /\ Strategy \in [optimalUsageRatio : 1 .. RAY,
                     optimalStableToTotalDebtRatio : 0 .. RAY,
                     baseVariableBorrowRate : Nat, variableRateSlope1 : Nat,
                     variableRateSlope2 : Nat, baseStableRateOffset : Nat,
                     stableRateSlope1 : Nat, stableRateSlope2 : Nat,
                     stableRateExcessOffset : Nat]

WadToRay(a) == a * (RAY \div WAD)

LinearInterest(rate, elapsed) == RAY + (rate * elapsed) \div SECONDS_PER_YEAR

(* The binomial of the compound interest, cut after its third term. *)
CompoundedInterest(rate, elapsed) ==
    LET pairs == elapsed * (elapsed - 1)
        triples == IF elapsed > 2 THEN pairs * (elapsed - 2) ELSE 0
        squared == RayMul(rate, rate) \div (SECONDS_PER_YEAR * SECONDS_PER_YEAR)
        cubed == RayMul(squared, rate) \div SECONDS_PER_YEAR
    IN  RAY + (rate * elapsed) \div SECONDS_PER_YEAR
            + (pairs * squared) \div 2 + (triples * cubed) \div 6

-----------------------------------------------------------------------------
BaseStableBorrowRate == Strategy.variableRateSlope1 + Strategy.baseStableRateOffset

(* How a rate grows with the borrow usage: up to the optimal ratio along the
   first slope, and along the second beyond it. *)
Sloped(slope1, slope2, usage) ==
    LET optimal == Strategy.optimalUsageRatio
    IN  IF usage > optimal
        THEN slope1 + RayMul(slope2, RayDiv(usage - optimal, RAY - optimal))
        ELSE RayDiv(RayMul(slope1, usage), optimal)

(* A premium for stable loans when they make up too much of the debt. *)
ExcessStablePremium(ratio) ==
    LET optimal == Strategy.optimalStableToTotalDebtRatio
    IN  IF ratio > optimal
        THEN RayMul(Strategy.stableRateExcessOffset, RayDiv(ratio - optimal, RAY - optimal))
        ELSE 0

OverallBorrowRate(stable, variable, variableRate, averageStableRate) ==
    IF stable + variable = 0 THEN 0
    ELSE RayDiv(RayMul(WadToRay(variable), variableRate)
                    + RayMul(WadToRay(stable), averageStableRate),
                WadToRay(stable + variable))


(* The rates of a reserve with the given totals after the transaction. *)
CalculateInterestRates(unbacked, available, stable, variable, averageStableRate, factor) ==
    LET debt == stable + variable
        borrowUsage == IF debt = 0 THEN 0 ELSE RayDiv(debt, available + debt)
        supplyUsage == IF debt = 0 THEN 0 ELSE RayDiv(debt, available + debt + unbacked)
        stableRatio == IF debt = 0 THEN 0 ELSE RayDiv(stable, debt)
        variableRate == Strategy.baseVariableBorrowRate
            + Sloped(Strategy.variableRateSlope1, Strategy.variableRateSlope2, borrowUsage)
    IN  [liquidityRate |->
             PercentMul(RayMul(OverallBorrowRate(stable, variable, variableRate, averageStableRate),
                               supplyUsage),
                        PERCENTAGE_FACTOR - factor),
         stableBorrowRate |->
             BaseStableBorrowRate
                 + Sloped(Strategy.stableRateSlope1, Strategy.stableRateSlope2, borrowUsage)
                 + ExcessStablePremium(stableRatio),
         variableBorrowRate |-> variableRate]
=============================================================================
