----------------------------- MODULE LendingPool -----------------------------
(***************************************************************************)
(* The operations of Pool on user positions: supply, withdraw, RSToken     *)
(* transfers, collateral switches, borrow, repay, rate-mode swaps,         *)
(* liquidation and eMode (SupplyLogic, BorrowLogic, LiquidationLogic,      *)
(* EModeLogic, IsolationModeLogic).  Each action is one transaction: a     *)
(* guard that fails is a revert, so the action is not enabled.             *)
(*                                                                         *)
(* Time and the outside world are the actions Accrue (the normalized       *)
(* indexes grow), SetPrice and SetSentinel.                                *)
(***************************************************************************)
EXTENDS AccountData

CONSTANTS IsolatedSuppliers,   \* callers with ISOLATED_COLLATERAL_SUPPLIER_ROLE
          MaxStableRateBorrowSizePercent,
          InitialConfig, InitialCategories, InitialPrice,
          InitialLiquidity,    \* per reserve: supplied on behalf of the treasury
          Forgoing,            \* reserves whose suppliers may give claims up
          \* bounds of the model
          Amounts,             \* per reserve: amounts a caller may name
          MaxBalance,          \* per reserve: largest scaled balance of a user
          MaxLiquidity,        \* per reserve: largest holding of underlying
          MaxFees,             \* largest liquidation fees the treasury may collect
          PriceMoves,          \* per reserve or source: prices the oracle may report
          MaxIndex,            \* per reserve: largest index
          SentinelMayFail      \* whether the sequencer may go down

ASSUME InitialAssumption ==
    /\ InitialConfig \in [Reserves -> ReserveConfiguration]
    /\ InitialCategories \in [Categories -> EModeCategory]
    /\ \A r \in Reserves : Collateralizable(InitialConfig[r])
    /\ \A c \in Categories : Collateralizable(InitialCategories[c])
    /\ InitialPrice \in [Reserves \cup PriceSources -> Nat \ {0}]
    /\ InitialLiquidity \in [Reserves -> Nat]

ASSUME RequestAssumption ==
    /\ \A r \in Reserves : Amounts[r] \subseteq Nat
    /\ \A s \in Reserves \cup PriceSources : PriceMoves[s] \subseteq Nat \ {0}
    /\ Forgoing \subseteq Reserves

Modes == {"stable", "variable"}

CLOSE_FACTOR_HF_THRESHOLD == (WAD * 95) \div 100   \* 0.95e18, also MINIMUM_HEALTH_FACTOR...
DEFAULT_LIQUIDATION_CLOSE_FACTOR == PERCENTAGE_FACTOR \div 2

Least(a, b) == IF a <= b THEN a ELSE b

(* Mutant: both balances of the code are read before either is written, so a
   transfer to oneself mints. *)
MoveReadingFirst(b, from, to, x) == [b EXCEPT ![from] = b[from] - x, ![to] = b[to] + x]

(* IncentivizedERC20._transfer on one token's balances. *)
Move(b, from, to, x) ==
    IF from = to THEN b ELSE [b EXCEPT ![from] = @ - x, ![to] = @ + x]

Init ==
    /\ config = InitialConfig /\ categories = InitialCategories
    /\ price = InitialPrice
    /\ sentinelUp = TRUE
    /\ liquidityIndex = [r \in Reserves |-> RAY]
    /\ variableIndex = [r \in Reserves |-> RAY]
    /\ availableLiquidity = InitialLiquidity
    /\ scaledBalance = [r \in Reserves |->
           [a \in Accounts |-> IF a = Treasury THEN InitialLiquidity[r] ELSE 0]]
    /\ scaledDebt = [r \in Reserves |-> [u \in Users |-> 0]]
    /\ stableDebt = [r \in Reserves |-> [u \in Users |-> 0]]
    /\ usingAsCollateral = [u \in Users |-> {}]
    /\ borrowing = [u \in Users |-> {}]
    /\ eMode = [u \in Users |-> 0]
    /\ isolationModeTotalDebt = [r \in Reserves |-> 0]

-----------------------------------------------------------------------------
(* SupplyLogic *)

(* An isolated asset becomes collateral as a side effect only for a caller
   that holds the role. *)
AutomaticUseAsCollateral(caller, u, r) ==
    /\ config[r].debtCeiling # 0 => caller \in IsolatedSuppliers
    /\ ValidUseAsCollateral(u, r)

ValidSupply(r, amount) ==
    /\ amount # 0
    /\ Usable(r) /\ ~config[r].frozen
    /\ config[r].supplyCap # 0 =>
           RayMul(TotalSupplyScaled(r), liquidityIndex[r]) + amount <= config[r].supplyCap

Supply(caller, u, r, amount) ==
    LET scaled == RayDiv(amount, liquidityIndex[r])
    IN  /\ ValidSupply(r, amount)
        /\ scaled # 0
        /\ scaledBalance' = [scaledBalance EXCEPT ![r][u] = @ + scaled]
        /\ availableLiquidity' = [availableLiquidity EXCEPT ![r] = @ + amount]
        /\ usingAsCollateral' =
               IF scaledBalance[r][u] = 0 /\ AutomaticUseAsCollateral(caller, u, r)
               THEN [usingAsCollateral EXCEPT ![u] = @ \cup {r}] ELSE usingAsCollateral
        /\ UNCHANGED <<settings, market, debts, borrowing, eMode, isolationModeTotalDebt>>

(* Where the receiver that u names is the RSToken itself, nobody checks it and
   nothing is paid: u gives up his claim.  The liquidity at hand must cover it all
   the same, because the rates are set for what it would leave. *)
Withdraw(u, r, amount, forgo) ==
    LET balance == Balance(u, r)
        withdrawn == IF amount = MaxUint THEN balance ELSE amount
        scaled == RayDiv(withdrawn, liquidityIndex[r])
    IN  /\ withdrawn # 0 /\ withdrawn <= balance
        /\ Usable(r)
        /\ scaled # 0 /\ scaled <= scaledBalance[r][u]
        /\ withdrawn <= availableLiquidity[r]
        /\ scaledBalance' = [scaledBalance EXCEPT ![r][u] = @ - scaled]
        /\ availableLiquidity' = [availableLiquidity EXCEPT
               ![r] = @ - (IF forgo THEN 0 ELSE withdrawn)]
        /\ usingAsCollateral' =
               IF withdrawn = balance THEN [usingAsCollateral EXCEPT ![u] = @ \ {r}]
               ELSE usingAsCollateral
        /\ UNCHANGED <<settings, market, debts, borrowing, eMode, isolationModeTotalDebt>>
        /\ r \in usingAsCollateral[u] /\ borrowing[u] # {} => ValidHFAndLtv(u, r, eMode[u])'

(* RSToken.transfer and its hook Pool.finalizeTransfer.  The hook's caller is
   the RSToken.  Its health check runs before it clears the sender's
   collateral bit; by then the balance behind the bit is gone, so the check
   does not depend on the bit. *)
Transfer(from, to, r, amount) ==
    LET scaled == RayDiv(amount, liquidityIndex[r])
        fromFlags == IF Balance(from, r) = amount
                     THEN usingAsCollateral[from] \ {r} ELSE usingAsCollateral[from]
        toFlags == IF Balance(to, r) = 0 /\ AutomaticUseAsCollateral(r, to, r)
                   THEN usingAsCollateral[to] \cup {r} ELSE usingAsCollateral[to]
    IN  /\ ~config[r].paused
        /\ from # to /\ amount # 0
        /\ scaled <= scaledBalance[r][from]
        /\ scaledBalance' = [scaledBalance EXCEPT ![r] = Move(@, from, to, scaled)]
        /\ usingAsCollateral' =
               [usingAsCollateral EXCEPT ![from] = fromFlags, ![to] = toFlags]
        /\ UNCHANGED <<settings, market, availableLiquidity, debts, borrowing, eMode,
                       isolationModeTotalDebt>>
        /\ r \in usingAsCollateral[from] /\ borrowing[from] # {}
               => ValidHFAndLtv(from, r, eMode[from])'

SetUserUseReserveAsCollateral(u, r, useAsCollateral) ==
    /\ Balance(u, r) # 0
    /\ Usable(r)
    /\ useAsCollateral # (r \in usingAsCollateral[u])
    /\ useAsCollateral => ValidUseAsCollateral(u, r)
    /\ usingAsCollateral' = [usingAsCollateral EXCEPT
           ![u] = IF useAsCollateral THEN @ \cup {r} ELSE @ \ {r}]
    /\ UNCHANGED <<settings, market, availableLiquidity, scaledBalance, debts, borrowing,
                   eMode, isolationModeTotalDebt>>
    /\ ~useAsCollateral => ValidHFAndLtv(u, r, eMode[u])'

-----------------------------------------------------------------------------
(* BorrowLogic *)

DebtOf(u, r, mode) == IF mode = "stable" THEN stableDebt[r][u] ELSE VariableDebt(u, r)

(* What a debt ceiling counts: amounts truncated to the ceiling's decimals. *)
CeilingAmount(r, amount) == amount \div config[r].debtUnit

BorrowPrice(r, c) == IF EModePrice(c) # 0 THEN EModePrice(c) ELSE price[r]

ValidStableBorrow(u, r, amount) ==
    /\ config[r].stableRateBorrowing
    /\ r \in usingAsCollateral[u] /\ config[r].ltv # 0 => amount > Balance(u, r)
    /\ amount <= PercentMul(availableLiquidity[r], MaxStableRateBorrowSizePercent)

(* Mutant: the sentinel is not asked. *)
OpenByFlags(r) == Usable(r) /\ ~config[r].frozen /\ config[r].borrowingEnabled

OpenToBorrowing(r) ==
    /\ Usable(r) /\ ~config[r].frozen /\ config[r].borrowingEnabled
    /\ sentinelUp

(* Mutant: the cap counts variable debt alone. *)
WithinVariableBorrowCap(r, amount) ==
    config[r].borrowCap # 0 =>
        RayMul(TotalScaledDebt(r), variableIndex[r]) + amount <= config[r].borrowCap

WithinBorrowCap(r, amount) ==
    config[r].borrowCap # 0 =>
        RayMul(TotalScaledDebt(r), variableIndex[r]) + TotalStableDebt(r) + amount
            <= config[r].borrowCap

(* Mutant: a user who borrows something else may add a siloed asset. *)
RespectsOwnSilo(u, r) == SiloedBorrowing(u) # {} => SiloedBorrowing(u) = {r}

RespectsSilo(u, r) ==
    borrowing[u] # {} =>
        IF SiloedBorrowing(u) # {} THEN SiloedBorrowing(u) = {r} ELSE ~config[r].siloed

ValidBorrow(u, c, r, amount, mode) ==
    /\ amount # 0
    /\ OpenToBorrowing(r)
    /\ WithinBorrowCap(r, amount)
    /\ \A k \in IsolationCollateral(usingAsCollateral[u]) :
           /\ config[r].borrowableInIsolation
           /\ isolationModeTotalDebt[k] + CeilingAmount(r, amount) <= config[k].debtCeiling
    /\ c # 0 => config[r].eModeCategory = c
    /\ LET account == UserAccountData(u, c)
       IN  /\ account.totalCollateral # 0 /\ account.averageLtv # 0
           /\ account.healthFactor > WAD
           /\ PercentDiv(account.totalDebt + BorrowPrice(r, c) * amount, account.averageLtv)
                  <= account.totalCollateral
    /\ mode = "stable" => ValidStableBorrow(u, r, amount)
    /\ RespectsSilo(u, r)

MintDebt(u, r, amount, mode) ==
    LET scaled == RayDiv(amount, variableIndex[r])
    IN  \/ /\ mode = "stable"
           /\ stableDebt' = [stableDebt EXCEPT ![r][u] = @ + amount]
           /\ UNCHANGED scaledDebt
        \/ /\ mode = "variable"
           /\ scaled # 0
           /\ scaledDebt' = [scaledDebt EXCEPT ![r][u] = @ + scaled]
           /\ UNCHANGED stableDebt

BurnDebt(u, r, amount, mode) ==
    LET scaled == RayDiv(amount, variableIndex[r])
    IN  \/ /\ mode = "stable"
           /\ amount <= stableDebt[r][u]
           /\ stableDebt' = [stableDebt EXCEPT ![r][u] = @ - amount]
           /\ UNCHANGED scaledDebt
        \/ /\ mode = "variable"
           /\ scaled # 0 /\ scaled <= scaledDebt[r][u]
           /\ scaledDebt' = [scaledDebt EXCEPT ![r][u] = @ - scaled]
           /\ UNCHANGED stableDebt

(* executeBorrow for a user of category c; a flash loan that opens debt has
   already released the underlying. *)
BorrowAs(u, c, r, amount, mode, releaseUnderlying) ==
    LET first == IF mode = "stable" THEN stableDebt[r][u] = 0 ELSE scaledDebt[r][u] = 0
        taken == IF releaseUnderlying THEN amount ELSE 0
    IN  /\ ValidBorrow(u, c, r, amount, mode)
        /\ taken <= availableLiquidity[r]
        /\ MintDebt(u, r, amount, mode)
        /\ borrowing' = IF first THEN [borrowing EXCEPT ![u] = @ \cup {r}] ELSE borrowing
        /\ isolationModeTotalDebt' = [k \in Reserves |->
               IF k \in IsolationCollateral(usingAsCollateral[u])
               THEN isolationModeTotalDebt[k] + CeilingAmount(r, amount)
               ELSE isolationModeTotalDebt[k]]
        /\ availableLiquidity' = [availableLiquidity EXCEPT ![r] = @ - taken]
        /\ UNCHANGED <<settings, market, scaledBalance, usingAsCollateral, eMode>>

Borrow(u, r, amount, mode) == BorrowAs(u, eMode[u], r, amount, mode, TRUE)

(* IsolationModeLogic.updateIsolatedDebtIfIsolated, for a user whose
   collateral bits are `collateral`. *)
IsolatedDebtAfterRepayment(collateral, r, repaid) ==
    [k \in Reserves |->
        IF k \in IsolationCollateral(collateral)
        THEN isolationModeTotalDebt[k]
                 - Least(isolationModeTotalDebt[k], CeilingAmount(r, repaid))
        ELSE isolationModeTotalDebt[k]]

(* executeRepay up to the payment.  Anybody may repay for u; "everything"
   (MaxUint) is accepted from u alone. *)
RepayDebt(u, r, payback, mode) ==
    /\ Usable(r)
    /\ DebtOf(u, r, mode) # 0
    /\ BurnDebt(u, r, payback, mode)
    /\ borrowing' = IF Debt(u, r) = payback
                    THEN [borrowing EXCEPT ![u] = @ \ {r}] ELSE borrowing
    /\ isolationModeTotalDebt' = IsolatedDebtAfterRepayment(usingAsCollateral[u], r, payback)

Repay(u, r, amount, mode) ==
    LET payback == Least(amount, DebtOf(u, r, mode))
    IN  /\ amount # 0
        /\ RepayDebt(u, r, payback, mode)
        /\ availableLiquidity' = [availableLiquidity EXCEPT ![r] = @ + payback]
        /\ UNCHANGED <<settings, market, scaledBalance, usingAsCollateral, eMode>>

(* Debt is paid by burning the borrower's own RSTokens: no underlying moves,
   no health check, and the collateral bit stays as it was. *)
RepayWithRSTokens(u, r, amount, mode) ==
    LET offered == IF amount = MaxUint THEN Balance(u, r) ELSE amount
        payback == Least(offered, DebtOf(u, r, mode))
        scaled == RayDiv(payback, liquidityIndex[r])
    IN  /\ amount # 0
        /\ RepayDebt(u, r, payback, mode)
        /\ scaled # 0 /\ scaled <= scaledBalance[r][u]
        /\ scaledBalance' = [scaledBalance EXCEPT ![r][u] = @ - scaled]
        /\ UNCHANGED <<settings, market, availableLiquidity, usingAsCollateral, eMode>>

ValidSwapRateMode(u, r, mode) ==
    /\ Usable(r) /\ ~config[r].frozen
    /\ DebtOf(u, r, mode) # 0
    /\ mode = "variable" =>
           /\ config[r].stableRateBorrowing
           /\ r \in usingAsCollateral[u] /\ config[r].ltv # 0 => Debt(u, r) > Balance(u, r)

(* The whole debt of one mode is burnt and minted in the other. *)
SwapBorrowRateMode(u, r, mode) ==
    /\ ValidSwapRateMode(u, r, mode)
    /\ IF mode = "stable"
       THEN /\ RayDiv(stableDebt[r][u], variableIndex[r]) # 0
            /\ stableDebt' = [stableDebt EXCEPT ![r][u] = 0]
            /\ scaledDebt' = [scaledDebt EXCEPT
                   ![r][u] = @ + RayDiv(stableDebt[r][u], variableIndex[r])]
       ELSE /\ stableDebt' = [stableDebt EXCEPT ![r][u] = @ + VariableDebt(u, r)]
            /\ scaledDebt' = [scaledDebt EXCEPT
                   ![r][u] = @ - RayDiv(VariableDebt(u, r), variableIndex[r])]
    /\ UNCHANGED <<settings, market, availableLiquidity, scaledBalance, flags, eMode,
                   isolationModeTotalDebt>>

-----------------------------------------------------------------------------
(* LiquidationLogic *)

MaxLiquidatableDebt(u, d) ==
    PercentMul(Debt(u, d),
               IF HealthFactor(u, eMode[u]) > CLOSE_FACTOR_HF_THRESHOLD
               THEN DEFAULT_LIQUIDATION_CLOSE_FACTOR ELSE PERCENTAGE_FACTOR)

LiquidationBonus(u, c) ==
    IF IsInEModeCategory(c, eMode[u]) THEN categories[eMode[u]].liquidationBonus
    ELSE config[c].liquidationBonus

(* _calculateAvailableCollateralToLiquidate: what u's collateral c can pay for
   `toCover` of its debt d, and the treasury's share of it. *)
LiquidationAmounts(u, c, d, toCover) ==
    LET collateralPrice == AssetPrice(c, eMode[u])
        debtPrice == BorrowPrice(d, eMode[u])
        bonus == LiquidationBonus(u, c)
        balance == Balance(u, c)
        wanted == PercentMul((debtPrice * toCover) \div collateralPrice, bonus)
        collateral == Least(wanted, balance)
        fee == PercentMul(collateral - PercentDiv(collateral, bonus),
                          config[c].liquidationProtocolFee)
    IN  [collateral |-> collateral - fee,
         fee |-> fee,
         debt |-> IF wanted > balance
                  THEN PercentDiv((collateralPrice * balance) \div debtPrice, bonus)
                  ELSE toCover]

(* Mutant: during the grace period any unhealthy position may be liquidated. *)
SentinelAllowsUnhealthy(healthFactor) == ~sentinelUp => healthFactor < WAD

SentinelAllows(healthFactor) == ~sentinelUp => healthFactor < CLOSE_FACTOR_HF_THRESHOLD

Liquidatable(u) ==
    LET healthFactor == HealthFactor(u, eMode[u])
    IN  healthFactor < WAD /\ SentinelAllows(healthFactor)

(* Mutant: only the reserve whose debt is repaid has to be usable. *)
ValidLiquidationOfUsableDebt(u, c, d) ==
    /\ Usable(d)
    /\ config[c].liquidationThreshold # 0 /\ c \in usingAsCollateral[u]
    /\ Debt(u, d) # 0
    /\ Liquidatable(u)

ValidLiquidation(u, c, d) ==
    /\ Usable(c) /\ Usable(d)
    /\ config[c].liquidationThreshold # 0 /\ c \in usingAsCollateral[u]
    /\ Debt(u, d) # 0
    /\ Liquidatable(u)

(* Mutant: stable debt is burnt for what the variable debt has covered already. *)
BurnBothDebts(u, d, amount) ==
    LET variable == Least(amount, VariableDebt(u, d))
        scaled == RayDiv(variable, variableIndex[d])
    IN  /\ amount = 0 \/ VariableDebt(u, d) # 0 => scaled # 0
        /\ scaled <= scaledDebt[d][u]
        /\ amount <= stableDebt[d][u]
        /\ scaledDebt' = [scaledDebt EXCEPT ![d][u] = @ - scaled]
        /\ stableDebt' = [stableDebt EXCEPT ![d][u] = @ - amount]

(* Variable debt is burnt first, stable debt for the rest. *)
BurnLiquidatedDebt(u, d, amount) ==
    LET variable == Least(amount, VariableDebt(u, d))
        scaled == RayDiv(variable, variableIndex[d])
    IN  /\ amount = 0 \/ VariableDebt(u, d) # 0 => scaled # 0
        /\ scaled <= scaledDebt[d][u]
        /\ amount - variable <= stableDebt[d][u]
        /\ scaledDebt' = [scaledDebt EXCEPT ![d][u] = @ - scaled]
        /\ stableDebt' = [stableDebt EXCEPT ![d][u] = @ - (amount - variable)]

(* Liquidator l covers up to `cover` of u's debt in d against collateral c. *)
LiquidationCall(l, u, c, d, cover, receiveRSToken) ==
    LET amounts == LiquidationAmounts(u, c, d, Least(cover, MaxLiquidatableDebt(u, d)))
        taken == RayDiv(amounts.collateral, liquidityIndex[c])
        afterTake == IF receiveRSToken THEN Move(scaledBalance[c], u, l, taken)
                     ELSE [scaledBalance[c] EXCEPT ![u] = @ - taken]
        feeTaken == Least(RayDiv(amounts.fee, liquidityIndex[c]), afterTake[u])
        paidOut == IF receiveRSToken THEN 0 ELSE amounts.collateral
        collateralOfU == IF amounts.collateral + amounts.fee = Balance(u, c)
                         THEN usingAsCollateral[u] \ {c} ELSE usingAsCollateral[u]
        collateralOfL == IF /\ receiveRSToken /\ Balance(l, c) = 0
                            /\ AutomaticUseAsCollateral(l, l, c)
                         THEN usingAsCollateral[l] \cup {c} ELSE usingAsCollateral[l]
    IN  /\ ValidLiquidation(u, c, d)
        /\ taken <= scaledBalance[c][u]
        /\ ~receiveRSToken => taken # 0 /\ paidOut <= availableLiquidity[c]
        /\ BurnLiquidatedDebt(u, d, amounts.debt)
        /\ borrowing' = IF Debt(u, d) = amounts.debt
                        THEN [borrowing EXCEPT ![u] = @ \ {d}] ELSE borrowing
        /\ usingAsCollateral' =
               [usingAsCollateral EXCEPT ![l] = collateralOfL, ![u] = collateralOfU]
        /\ isolationModeTotalDebt' =
               IsolatedDebtAfterRepayment(collateralOfU, d, amounts.debt)
        /\ scaledBalance' = [scaledBalance EXCEPT ![c] = Move(afterTake, u, Treasury, feeTaken)]
        /\ availableLiquidity' = [r \in Reserves |->
               availableLiquidity[r] - (IF r = c THEN paidOut ELSE 0)
                                     + (IF r = d THEN amounts.debt ELSE 0)]
        /\ UNCHANGED <<settings, market, eMode>>

-----------------------------------------------------------------------------
(* EModeLogic *)

(* Mutant: what the user borrows already is not looked at. *)
ValidCategory(u, c) == c # 0 => categories[c].liquidationThreshold # 0

ValidSetUserEMode(u, c) ==
    c # 0 =>
        /\ categories[c].liquidationThreshold # 0
        /\ \A r \in borrowing[u] : config[r].eModeCategory = c

(* Mutant: the health of the position is checked in the category it leaves. *)
SetUserEModeCheckingOld(u, c) ==
    /\ ValidSetUserEMode(u, c)
    /\ eMode[u] # 0 => IsHealthy(u, eMode[u])
    /\ eMode' = [eMode EXCEPT ![u] = c]
    /\ UNCHANGED <<settings, market, availableLiquidity, scaledBalance, debts, flags,
                   isolationModeTotalDebt>>

SetUserEMode(u, c) ==
    /\ ValidSetUserEMode(u, c)
    /\ eMode' = [eMode EXCEPT ![u] = c]
    /\ UNCHANGED <<settings, market, availableLiquidity, scaledBalance, debts, flags,
                   isolationModeTotalDebt>>
    /\ eMode[u] # 0 => IsHealthy(u, c)'

-----------------------------------------------------------------------------
(* The oracle, the sequencer, and time. *)

positions == <<availableLiquidity, scaledBalance, debts, flags, eMode, isolationModeTotalDebt>>

SetPrice(s, p) ==
    /\ p # price[s]
    /\ price' = [price EXCEPT ![s] = p]
    /\ UNCHANGED <<settings, sentinelUp, liquidityIndex, variableIndex, positions>>

SetSentinel ==
    /\ SentinelMayFail
    /\ sentinelUp' = ~sentinelUp
    /\ UNCHANGED <<settings, price, liquidityIndex, variableIndex, positions>>

(* Interest of a period: the income index grows by `earned`, the variable index by
   `charged`, each stable debt by the growth of its own.  Bound: stable debts grow
   only when an index does. *)
Accrue(r, earned, charged, growth) ==
    /\ earned + charged # 0
    /\ liquidityIndex[r] + earned <= MaxIndex[r] /\ variableIndex[r] + charged <= MaxIndex[r]
    /\ liquidityIndex' = [liquidityIndex EXCEPT ![r] = @ + earned]
    /\ variableIndex' = [variableIndex EXCEPT ![r] = @ + charged]
    /\ stableDebt' = [stableDebt EXCEPT ![r] = [u \in Users |->
           IF @[u] = 0 THEN 0 ELSE @[u] + growth[u]]]
    /\ UNCHANGED <<settings, price, sentinelUp, availableLiquidity, scaledBalance, scaledDebt,
                   flags, eMode, isolationModeTotalDebt>>

-----------------------------------------------------------------------------
Requests(r) == Amounts[r] \cup {MaxUint}

UserStep(u, r) ==
    \/ \E caller \in {u} \cup IsolatedSuppliers, amount \in Amounts[r] :
           /\ Supply(caller, u, r, amount)
           /\ scaledBalance'[r][u] <= MaxBalance[r]
           /\ availableLiquidity'[r] <= MaxLiquidity[r]
    \/ \E amount \in Requests(r), forgo \in BOOLEAN :
           /\ forgo => r \in Forgoing
           /\ Withdraw(u, r, amount, forgo)
    \/ \E to \in Users, amount \in Amounts[r] :
           /\ Transfer(u, to, r, amount)
           /\ scaledBalance'[r][to] <= MaxBalance[r]
    \/ \E use \in BOOLEAN : SetUserUseReserveAsCollateral(u, r, use)
    \/ \E amount \in Amounts[r], mode \in Modes : Borrow(u, r, amount, mode)
    \/ \E amount \in Requests(r), mode \in Modes :
           /\ Repay(u, r, amount, mode)
           /\ availableLiquidity'[r] <= MaxLiquidity[r]
    \/ \E amount \in Requests(r), mode \in Modes : RepayWithRSTokens(u, r, amount, mode)
    \/ \E mode \in Modes : SwapBorrowRateMode(u, r, mode)

Liquidate ==
    \E l, u \in Users, c, d \in Reserves, receive \in BOOLEAN : \E cover \in Requests(d) :
        /\ LiquidationCall(l, u, c, d, cover, receive)
        /\ l # u => scaledBalance'[c][l] <= MaxBalance[c]
        /\ scaledBalance'[c][Treasury] <= InitialLiquidity[c] + MaxFees
        /\ availableLiquidity'[d] <= MaxLiquidity[d]

Environment ==
    \/ \E s \in Reserves \cup PriceSources : \E p \in PriceMoves[s] : SetPrice(s, p)
    \/ SetSentinel
    \/ \E r \in Reserves, earned, charged \in {0, 1}, growth \in [Users -> {0, 1}] :
           Accrue(r, earned, charged, growth)

Next ==
    \/ \E u \in Users, r \in Reserves : UserStep(u, r)
    \/ \E u \in Users, c \in Categories \cup {0} : SetUserEMode(u, c)
    \/ Liquidate
    \/ Environment

Spec == Init /\ [][Next]_vars
=============================================================================
