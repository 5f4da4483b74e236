----------------------------- MODULE AccountData -----------------------------
(***************************************************************************)
(* The storage of the Pool that user positions live in, and every reading  *)
(* of it: the per-user configuration bitmap (UserConfiguration), the       *)
(* account data of GenericLogic (collateral, debt, average LTV, health     *)
(* factor) and the validations of ValidationLogic that several operations  *)
(* share.  LendingPool adds the operations.                                *)
(*                                                                         *)
(* Amounts are whole base units of an asset, prices are base currency per  *)
(* unit (an asset unit of 10^decimals is 1), indexes are rays.  The        *)
(* reserve factor is 0, so nothing accrues to the treasury.                *)
(***************************************************************************)
EXTENDS WadRayMath, FiniteSets, FiniteSetsExt

CONSTANTS Users,          \* accounts that supply, borrow and liquidate
          Treasury,       \* the account that receives liquidation fees
          Reserves,       \* listed assets; a reserve also names its RSToken
          PriceSources,   \* price sources that only eMode categories use
          NoSource,       \* "no custom price source": address(0)
          Categories,     \* eMode category ids other than 0
          MaxUint         \* type(uint256).max

ASSUME NamesAssumption == /\ Treasury \notin Users
                          /\ 0 \notin Categories
                          /\ NoSource \notin PriceSources
                          /\ IsFiniteSet(Users) /\ IsFiniteSet(Reserves)
                          /\ MaxUint \in Nat

VARIABLES
    config,             \* per reserve: its ReserveConfigurationMap, a record
    categories,         \* per category: ltv, liquidationThreshold, liquidationBonus, priceSource
    price,              \* per reserve and price source: the oracle's answer
    sentinelUp,         \* PriceOracleSentinel: sequencer up, grace period over
    liquidityIndex,     \* per reserve: normalized income
    variableIndex,      \* per reserve: normalized variable debt
    availableLiquidity, \* per reserve: underlying held by the RSToken
    scaledBalance,      \* per reserve and account: scaled RSToken balance
    scaledDebt,         \* per reserve and user: scaled variable debt
    stableDebt,         \* per reserve and user: stable debt with its interest
    usingAsCollateral,  \* per user: the reserves whose collateral bit is set
    borrowing,          \* per user: the reserves whose borrowing bit is set
    eMode,              \* per user: eMode category, 0 for none
    isolationModeTotalDebt  \* per reserve: debt borrowed against it in isolation

market   == <<price, sentinelUp, liquidityIndex, variableIndex>>
settings == <<config, categories>>
debts    == <<scaledDebt, stableDebt>>
flags    == <<usingAsCollateral, borrowing>>
vars     == <<settings, market, availableLiquidity, scaledBalance, debts,
              flags, eMode, isolationModeTotalDebt>>

Accounts == Users \cup {Treasury}

(* The sum of value(x) over the finite set S. *)
SumOver(value(_), S) == SumFunctionOnSet([x \in S |-> value(x)], S)

-----------------------------------------------------------------------------
(* ReserveConfigurationMap and EModeCategory.  debtUnit is the number of base
   units of the asset that count as one unit of a debt ceiling. *)
ReserveConfiguration ==
    [ltv : 0 .. PERCENTAGE_FACTOR, liquidationThreshold : 0 .. PERCENTAGE_FACTOR,
     liquidationBonus : Nat, liquidationProtocolFee : 0 .. PERCENTAGE_FACTOR,
     active : BOOLEAN, paused : BOOLEAN, frozen : BOOLEAN,
     borrowingEnabled : BOOLEAN, stableRateBorrowing : BOOLEAN,
     borrowableInIsolation : BOOLEAN, siloed : BOOLEAN, flashLoanEnabled : BOOLEAN,
     supplyCap : Nat, borrowCap : Nat, debtCeiling : Nat, debtUnit : Nat \ {0},
     eModeCategory : Categories \cup {0}]

EModeCategory ==
    [ltv : Nat, liquidationThreshold : Nat, liquidationBonus : Nat,
     priceSource : PriceSources \cup {NoSource}]

(* What PoolConfigurator requires of an asset or a category that is collateral. *)
Collateralizable(s) ==
    s.liquidationThreshold # 0 => s.liquidationBonus > PERCENTAGE_FACTOR

-----------------------------------------------------------------------------
(* Token balances: RSToken, VariableDebtToken and StableDebtToken.balanceOf *)

Balance(a, r) == RayMul(scaledBalance[r][a], liquidityIndex[r])

VariableDebt(u, r) == RayMul(scaledDebt[r][u], variableIndex[r])

Debt(u, r) == VariableDebt(u, r) + stableDebt[r][u]

TotalSupplyScaled(r) == SumOver(LAMBDA a : scaledBalance[r][a], Accounts)

TotalScaledDebt(r) == SumOver(LAMBDA u : scaledDebt[r][u], Users)

TotalStableDebt(r) == SumOver(LAMBDA u : stableDebt[r][u], Users)

-----------------------------------------------------------------------------
(* UserConfiguration: predicates over the bitmap, here two sets of reserves. *)

(* The single collateral of a user in isolation mode, as a set: empty for a
   user who is not isolated.  `collateral` is the user's collateral bits. *)
IsolationCollateral(collateral) ==
    {r \in collateral : collateral = {r} /\ config[r].debtCeiling # 0}

IsolationModeActive(u) == IsolationCollateral(usingAsCollateral[u]) # {}

(* The single siloed asset a user borrows, as a set. *)
SiloedBorrowing(u) == {r \in borrowing[u] : borrowing[u] = {r} /\ config[r].siloed}

-----------------------------------------------------------------------------
(* GenericLogic.calculateUserAccountData, for user u in eMode category c. *)

IsInEModeCategory(r, c) == c # 0 /\ config[r].eModeCategory = c

EModePrice(c) ==
    IF c = 0 \/ categories[c].priceSource = NoSource THEN 0
    ELSE price[categories[c].priceSource]

AssetPrice(r, c) ==
    IF IsInEModeCategory(r, c) /\ EModePrice(c) # 0 THEN EModePrice(c) ELSE price[r]

(* The averages are weighted by value; a collateral of zero LTV adds nothing to
   the LTV.  No collateral makes both averages 0. *)
UserAccountData(u, c) ==
    LET counted == {r \in usingAsCollateral[u] : config[r].liquidationThreshold # 0}
        value == [r \in counted |-> Balance(u, r) * AssetPrice(r, c)]
        ltv(r) == IF config[r].ltv # 0 /\ IsInEModeCategory(r, c) THEN categories[c].ltv
                  ELSE config[r].ltv
        threshold(r) == IF IsInEModeCategory(r, c) THEN categories[c].liquidationThreshold
                        ELSE config[r].liquidationThreshold
        collateral == SumOver(LAMBDA r : value[r], counted)
        debt == SumOver(LAMBDA r : Debt(u, r) * AssetPrice(r, c), borrowing[u])
        Average(weight(_)) == IF collateral = 0 THEN 0
                              ELSE SumOver(LAMBDA r : value[r] * weight(r), counted) \div collateral
    IN  [totalCollateral |-> collateral,
         totalDebt |-> debt,
         averageLtv |-> Average(ltv),
         healthFactor |->
             IF debt = 0 THEN MaxUint
             ELSE WadDiv(PercentMul(collateral, Average(threshold)), debt),
         hasZeroLtvCollateral |-> \E r \in counted : config[r].ltv = 0]

HealthFactor(u, c) ==
    IF borrowing[u] = {} THEN MaxUint ELSE UserAccountData(u, c).healthFactor

-----------------------------------------------------------------------------
(* Validations shared by several operations. *)

Usable(r) == config[r].active /\ ~config[r].paused

IsHealthy(u, c) == HealthFactor(u, c) >= WAD

(* Mutant: the health factor is not validated. *)
ValidLtvAlone(u, r, c) == UserAccountData(u, c).hasZeroLtvCollateral => config[r].ltv = 0

(* Debt is healthy, and zero-LTV collateral is the first to be given up. *)
ValidHFAndLtv(u, r, c) ==
    /\ IsHealthy(u, c)
    /\ UserAccountData(u, c).hasZeroLtvCollateral => config[r].ltv = 0

ValidUseAsCollateral(u, r) ==
    /\ config[r].ltv # 0
    /\ \/ usingAsCollateral[u] = {}
       \/ ~IsolationModeActive(u) /\ config[r].debtCeiling = 0
=============================================================================
