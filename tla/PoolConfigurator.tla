--------------------------- MODULE PoolConfigurator ---------------------------
(***************************************************************************)
(* PoolConfigurator: what the risk, pool and emergency admins may change   *)
(* about a listed reserve or an eMode category, interleaved with the       *)
(* operations of LendingPool on the positions that rely on it.  The role   *)
(* modifiers are not modelled: every caller holds the role it needs.       *)
(***************************************************************************)
EXTENDS PoolProperties

CONSTANTS \* bounds of the model: the values admins choose from, per reserve
          Switches,           \* names of the flags they flip
          DebtCeilings,
          CollateralSettings, \* records of ltv, liquidationThreshold, liquidationBonus
          Assignments,        \* eMode categories
          Limits,             \* pairs of a limit's name and a value for it
          CategorySettings    \* and per category, its whole record

FlagNames == {"borrowingEnabled", "stableRateBorrowing", "flashLoanEnabled", "active",
              "frozen", "paused", "borrowableInIsolation", "siloed"}

LimitNames == {"supplyCap", "borrowCap", "liquidationProtocolFee"}

ASSUME AdminAssumption ==
    /\ \A r \in Reserves :
           /\ Switches[r] \subseteq FlagNames
           /\ DebtCeilings[r] \subseteq Nat
           /\ CollateralSettings[r] \subseteq
                  [ltv : Nat, liquidationThreshold : Nat, liquidationBonus : Nat]
           /\ Assignments[r] \subseteq Categories \cup {0}
           /\ Limits[r] \subseteq LimitNames \X Nat
    /\ \A c \in Categories : CategorySettings[c] \subseteq EModeCategory

(* The configuration was made by listing the reserves and by the setters below. *)
ASSUME ListingAssumption ==
    \A r \in Reserves :
        /\ InitialConfig[r].active
        /\ InitialConfig[r].stableRateBorrowing => InitialConfig[r].borrowingEnabled

(* The listed-reserve guard of Pool.setConfiguration holds for every reserve. *)
SetConfiguration(r, map) ==
    /\ config' = [config EXCEPT ![r] = map]
    /\ UNCHANGED <<categories, market, availableLiquidity, scaledBalance, debts, flags, eMode>>

-----------------------------------------------------------------------------
(* Mutants: the supply that is looked at is the liquidity at hand, or the debt
   of the users isolated in the asset. *)
NoIdleSupply(r) == availableLiquidity[r] = 0

NoIsolatedDebt(r) == isolationModeTotalDebt[r] = 0

NoSuppliers(r) == RayMul(TotalSupplyScaled(r), liquidityIndex[r]) = 0

(* Mutant: borrowers at variable rates are not seen. *)
NoStableBorrowers(r) == TotalStableDebt(r) = 0

NoBorrowers(r) == TotalStableDebt(r) + RayMul(TotalScaledDebt(r), variableIndex[r]) = 0

(* Mutant: borrowing is disabled and stable rates stay enabled. *)
MayDisableBorrowing(flag, r, value) ==
    /\ flag = "stableRateBorrowing" /\ value => config[r].borrowingEnabled
    /\ flag = "active" /\ ~value => NoSuppliers(r)
    /\ flag = "siloed" /\ value => NoBorrowers(r)

(* What a flag's setter requires before it stores `value`. *)
MaySet(flag, r, value) ==
    /\ flag = "borrowingEnabled" /\ ~value => ~config[r].stableRateBorrowing
    /\ flag = "stableRateBorrowing" /\ value => config[r].borrowingEnabled
    /\ flag = "active" /\ ~value => NoSuppliers(r)
    /\ flag = "siloed" /\ value => NoBorrowers(r)

(* setReserveBorrowing, setReserveStableRateBorrowing, setReserveFlashLoaning,
   setReserveActive, setReserveFreeze, setReservePause, setBorrowableInIsolation,
   setSiloedBorrowing *)
SetFlag(flag, r, value) ==
    /\ config[r][flag] # value
    /\ MaySet(flag, r, value)
    /\ SetConfiguration(r, [config[r] EXCEPT ![flag] = value])
    /\ UNCHANGED isolationModeTotalDebt

SetPoolPause(value) ==
    /\ config' = [r \in Reserves |-> [config[r] EXCEPT !.paused = value]]
    /\ UNCHANGED <<categories, market, availableLiquidity, scaledBalance, debts, flags, eMode,
                   isolationModeTotalDebt>>

(* setSupplyCap, setBorrowCap and setLiquidationProtocolFee *)
SetLimit(limit, r, value) ==
    /\ limit = "liquidationProtocolFee" => value <= PERCENTAGE_FACTOR
    /\ SetConfiguration(r, [config[r] EXCEPT ![limit] = value])
    /\ UNCHANGED isolationModeTotalDebt

(* Mutant: the debt of an isolation that ends is kept for the next. *)
SetDebtCeilingAlone(r, ceiling) ==
    /\ config[r].debtCeiling = 0 => NoSuppliers(r)
    /\ SetConfiguration(r, [config[r] EXCEPT !.debtCeiling = ceiling])
    /\ UNCHANGED isolationModeTotalDebt

(* Isolation starts only with nobody supplied, and ends by forgetting the debt. *)
SetDebtCeiling(r, ceiling) ==
    /\ config[r].debtCeiling = 0 => NoSuppliers(r)
    /\ SetConfiguration(r, [config[r] EXCEPT !.debtCeiling = ceiling])
    /\ isolationModeTotalDebt' =
           IF ceiling = 0 THEN [isolationModeTotalDebt EXCEPT ![r] = 0] ELSE isolationModeTotalDebt

-----------------------------------------------------------------------------
(* Mutant: threshold and bonus are each in range, their product is not checked. *)
OrderedParameters(s) ==
    s.ltv <= s.liquidationThreshold /\ s.liquidationBonus > PERCENTAGE_FACTOR

(* A loan at the LTV leaves enough collateral for the liquidation bonus. *)
SoundParameters(s) ==
    /\ s.ltv <= s.liquidationThreshold
    /\ s.liquidationBonus > PERCENTAGE_FACTOR
    /\ PercentMul(s.liquidationThreshold, s.liquidationBonus) <= PERCENTAGE_FACTOR

ConfigureReserveAsCollateral(r, s) ==
    /\ s.ltv <= s.liquidationThreshold
    /\ IF s.liquidationThreshold # 0 THEN SoundParameters(s)
       ELSE s.liquidationBonus = 0 /\ NoSuppliers(r)
    /\ SetConfiguration(r, [config[r] EXCEPT !.ltv = s.ltv,
                                            !.liquidationThreshold = s.liquidationThreshold,
                                            !.liquidationBonus = s.liquidationBonus])
    /\ UNCHANGED isolationModeTotalDebt

SetEModeCategory(c, s) ==
    /\ s.ltv # 0 /\ s.liquidationThreshold # 0
    /\ SoundParameters(s)
    /\ \A r \in Reserves : config[r].eModeCategory = c =>
           s.ltv > config[r].ltv /\ s.liquidationThreshold > config[r].liquidationThreshold
    /\ categories' = [categories EXCEPT ![c] = s]
    /\ UNCHANGED <<config, market, availableLiquidity, scaledBalance, debts, flags, eMode,
                   isolationModeTotalDebt>>

(* Nothing is asked of the users who borrow the asset in the category it leaves. *)
SetAssetEModeCategory(r, c) ==
    /\ c # 0 => categories[c].liquidationThreshold > config[r].liquidationThreshold
    /\ SetConfiguration(r, [config[r] EXCEPT !.eModeCategory = c])
    /\ UNCHANGED isolationModeTotalDebt

-----------------------------------------------------------------------------
AdminStep(r) ==
    \/ \E flag \in Switches[r], value \in BOOLEAN : SetFlag(flag, r, value)
    \/ \E ceiling \in DebtCeilings[r] : SetDebtCeiling(r, ceiling)
    \/ \E s \in CollateralSettings[r] : ConfigureReserveAsCollateral(r, s)
    \/ \E c \in Assignments[r] : SetAssetEModeCategory(r, c)
    \/ \E limit \in Limits[r] : SetLimit(limit[1], r, limit[2])

Administration ==
    \/ \E r \in Reserves : AdminStep(r)
    \/ /\ \A r \in Reserves : "paused" \in Switches[r]
       /\ \E value \in BOOLEAN : SetPoolPause(value)
    \/ \E c \in Categories : \E s \in CategorySettings[c] : SetEModeCategory(c, s)

ConfiguredNext == Next \/ Administration

ConfiguredSpec == Init /\ [][ConfiguredNext]_vars

-----------------------------------------------------------------------------
(* Where borrowing is disabled nobody comes to owe more at a stable rate, by a
   loan or by swapping the rate mode: the swap looks at the stable-rate flag
   alone, and relies on the setters for it to be off wherever borrowing is. *)
NoStableDebtWhereClosed ==
    [][UNCHANGED market =>
           \A r \in Reserves, u \in Users :
               ~config[r].borrowingEnabled => stableDebt'[r][u] <= stableDebt[r][u]]_vars

(* Deactivating a reserve checks its suppliers alone, and leaves nobody with a claim
   behind.  Nor does it leave a debt, which would have no way out because every
   operation on it is refused, except where suppliers have given claims up: lent out,
   what they gave up is a debt with no claim.  Stated for indexes that stay at one ray. *)
InactiveReserveIsEmpty ==
    \A r \in Reserves : ~config[r].active =>
        /\ TotalSupplyScaled(r) = 0
        /\ r \notin Forgoing => TotalScaledDebt(r) = 0 /\ TotalStableDebt(r) = 0

(* Until a paused reserve is unpaused no operation of a user, on it or, for a
   liquidation, on a pair of reserves of which it is one, moves what a user has or
   owes in it or pays out of it; only interest accrues.  The code still allows minting
   what has accrued to the treasury, and backing what a bridge has minted, which pays
   underlying in: no action here, and neither moves a user's scaled balance or debt. *)
PausedReserveIsStill ==
    [][\A r \in Reserves : config[r].paused /\ UNCHANGED market =>
           /\ availableLiquidity'[r] >= availableLiquidity[r]
           /\ \A u \in Users : UNCHANGED <<scaledBalance[r][u], scaledDebt[r][u],
                                           stableDebt[r][u]>>]_vars

(* What the collateral of u pays for when all of it is seized at its bonus;
   each collateral is given back the unit that rounding may cost it. *)
SeizureValue(u) ==
    SumOver(LAMBDA r : PercentDiv(Balance(u, r) * AssetPrice(r, eMode[u]), LiquidationBonus(u, r)) + 1,
        {r \in usingAsCollateral[u] : config[r].liquidationThreshold # 0})

TotalOwed(u) == SumOver(LAMBDA r : Debt(u, r), Reserves)

(* "It's guaranteed that at the moment a loan is taken there is enough
   collateral available to cover the liquidation bonus", whatever the admins
   did to thresholds, bonuses and categories before. *)
LoansCoverTheBonus ==
    [][UNCHANGED <<market, settings>> =>
           \A u \in Users : TotalOwed(u)' > TotalOwed(u) =>
               SeizureValue(u)' >= UserAccountData(u, eMode[u]).totalDebt']_vars

(* No transaction makes the supply or the debt of a reserve grow past the cap
   in force, in either rate mode; what a lowered cap finds above it may stay. *)
GrowthRespectsCaps ==
    [][\A r \in Reserves : UNCHANGED <<market, settings>> =>
           /\ config[r].supplyCap # 0 /\ TotalSupplyScaled(r)' > TotalSupplyScaled(r)
                  => TotalSupplyScaled(r)' <= config[r].supplyCap
           /\ config[r].borrowCap # 0
                  /\ TotalScaledDebt(r)' + TotalStableDebt(r)' > TotalScaledDebt(r) + TotalStableDebt(r)
                  => TotalScaledDebt(r)' + TotalStableDebt(r)' <= config[r].borrowCap]_vars
=============================================================================
