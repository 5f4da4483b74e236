---------------------------- MODULE MCLendingPool ----------------------------
(***************************************************************************)
(* Small instances of LendingPool: reserve configurations, prices and      *)
(* liquidity for TLC.                                                      *)
(***************************************************************************)
EXTENDS PoolProperties, TLC

CONSTANTS alice, bob, A, B, C, K

Plain == [ltv |-> 50, liquidationThreshold |-> 80, liquidationBonus |-> 110,
          liquidationProtocolFee |-> 0, debtUnit |-> 1, debtCeiling |-> 0,
          active |-> TRUE, paused |-> FALSE, frozen |-> FALSE,
          borrowingEnabled |-> TRUE, stableRateBorrowing |-> FALSE,
          borrowableInIsolation |-> TRUE, siloed |-> FALSE, flashLoanEnabled |-> TRUE,
          supplyCap |-> 0, borrowCap |-> 0, eModeCategory |-> 0]

NoCategories == [c \in {} |-> 0]
NoSources == {}
Symmetry == Permutations(Users)
OnePrice == [s \in Reserves \cup PriceSources |-> 1]
SteadyPrices == [s \in Reserves \cup PriceSources |-> {}]

NoHoldingLimit == [r \in Reserves |-> MaxUint]
NoInterest == [r \in Reserves |-> RAY]

(* Two ordinary reserves.  A is collateral in units of little value, whose
   price may fall to where half the debt may be liquidated, and to where all of
   it may be and the collateral no longer covers it.  B is borrowed. *)
CoreConfig == [r \in Reserves |->
    IF r = A THEN [Plain EXCEPT !.borrowingEnabled = FALSE, !.liquidationThreshold = 82,
                                !.liquidationProtocolFee = 50]
    ELSE [Plain EXCEPT !.stableRateBorrowing = TRUE]]
CoreAmounts == [r \in Reserves |-> IF r = A THEN {12} ELSE {1}]
CoreBalances == [r \in Reserves |-> IF r = A THEN 12 ELSE 1]
CorePrices == [s \in Reserves |-> IF s = A THEN 7 ELSE 20]
CoreMoves == [s \in Reserves |-> IF s = A THEN {3, 4, 7} ELSE {}]
CoreHoldings == [r \in Reserves |-> IF r = A THEN MaxUint ELSE 3]
CoreLiquidity == [r \in Reserves |-> IF r = A THEN 0 ELSE 2]

(* The same reserves where B earns interest: its indexes grow in thirds of a
   ray, so that amounts round up and down when they are scaled. *)
InterestPrices == [s \in Reserves |-> IF s = A THEN 10 ELSE 20]
InterestAmounts == [r \in Reserves |-> IF r = A THEN {8} ELSE {1, 2}]
InterestIndexes == [r \in Reserves |-> IF r = A THEN RAY ELSE 5]
InterestBalances == [r \in Reserves |-> IF r = A THEN 8 ELSE 0]
InterestLiquidity == [r \in Reserves |-> IF r = A THEN 0 ELSE 3]
InterestHoldings == [r \in Reserves |-> IF r = A THEN MaxUint ELSE 5]
InterestMoves == [s \in Reserves |-> IF s = A THEN {4, 10} ELSE {}]

(* K is an isolated asset with a debt ceiling of three units; B is borrowable
   in isolation, at both rates, and an ordinary collateral too.  Bob may supply
   K as collateral on behalf of others. *)
IsolationConfig == [r \in Reserves |->
    IF r = K THEN [Plain EXCEPT !.debtCeiling = 3, !.borrowingEnabled = FALSE]
    ELSE [Plain EXCEPT !.stableRateBorrowing = TRUE]]
IsolationAmounts == [r \in Reserves |-> IF r = K THEN {4} ELSE {1, 2}]
IsolationBalances == [r \in Reserves |-> IF r = K THEN 4 ELSE 2]
IsolationLiquidity == [r \in Reserves |-> IF r = K THEN 0 ELSE 3]
IsolationMoves == [s \in Reserves |-> IF s = K THEN {} ELSE {1, 3}]

(* A and B are of one eMode category, whose thresholds are higher; A is the
   collateral.  C is a siloed asset outside of it. *)
EModeConfig == [r \in Reserves |->
    CASE r = A -> [Plain EXCEPT !.eModeCategory = 1, !.borrowingEnabled = FALSE]
      [] r = B -> [Plain EXCEPT !.eModeCategory = 1, !.ltv = 0]
      [] r = C -> [Plain EXCEPT !.siloed = TRUE]]
EModeCategories == [c \in Categories |->
    [ltv |-> 90, liquidationThreshold |-> 95, liquidationBonus |-> 102, priceSource |-> NoSource]]
EModePricing == [s \in Reserves \cup PriceSources |-> IF s = A THEN 2 ELSE 1]
EModeAmounts == [r \in Reserves |-> IF r = A THEN {2} ELSE {1}]
EModeBalances == [r \in Reserves |-> IF r = A THEN 4 ELSE 1]
EModeLiquidity == [r \in Reserves |-> IF r = A THEN 0 ELSE 4]
=============================================================================
