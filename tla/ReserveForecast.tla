---------------------------- MODULE ReserveForecast ----------------------------
(***************************************************************************)
(* The reference the repository keeps for the interest of a reserve: its   *)
(* test suite computes, apart from the contracts, what a reserve and a     *)
(* user of it must look like after a transaction.  Data is what the        *)
(* protocol data provider reports; `before' is read when the transaction   *)
(* runs, at time `at', and so is what comes after it.                      *)
(*                                                                         *)
(* Numbers are signed here, and a quotient is truncated toward zero.       *)
(***************************************************************************)
EXTENDS InterestRates

CONSTANTS MaxUint,            \* MAX_UINT_AMOUNT: everything
          ConfiguredFactor    \* the reserve factor in the market's configuration

Quot(a, b) ==
    LET magnitude == (IF a < 0 THEN -a ELSE a) \div (IF b < 0 THEN -b ELSE b)
    IN  IF (a < 0) = (b < 0) THEN magnitude ELSE -magnitude

SignedRayMul(a, b) == Quot(RAY \div 2 + a * b, RAY)
SignedRayDiv(a, b) == Quot(Quot(b, 2) + a * RAY, b)
SignedPercentMul(a, bps) == Quot(PERCENTAGE_FACTOR \div 2 + a * bps, PERCENTAGE_FACTOR)

-----------------------------------------------------------------------------
(* Interest since a time, plain or compounded to the third term. *)
CalcLinearInterest(rate, at, since) == Quot(rate * (at - since), SECONDS_PER_YEAR) + RAY

CalcCompoundedInterest(rate, at, since) ==
    LET elapsed == at - since
        expMinusTwo == IF elapsed > 2 THEN elapsed - 2 ELSE 0
        basePowerTwo == Quot(SignedRayMul(rate, rate), SECONDS_PER_YEAR * SECONDS_PER_YEAR)
        basePowerThree == Quot(SignedRayMul(basePowerTwo, rate), SECONDS_PER_YEAR)
    IN  IF elapsed = 0 THEN RAY
        ELSE RAY + Quot(rate * elapsed, SECONDS_PER_YEAR)
                 + Quot(elapsed * (elapsed - 1) * basePowerTwo, 2)
                 + Quot(elapsed * (elapsed - 1) * expMinusTwo * basePowerThree, 6)

CalcExpectedReserveNormalizedIncome(data, at) ==
    IF data.liquidityRate = 0 THEN data.liquidityIndex
    ELSE SignedRayMul(CalcLinearInterest(data.liquidityRate, at, data.lastUpdateTimestamp),
                      data.liquidityIndex)

CalcExpectedReserveNormalizedDebt(data, at) ==
    IF data.variableBorrowRate = 0 THEN data.variableBorrowIndex
    ELSE SignedRayMul(
             CalcCompoundedInterest(data.variableBorrowRate, at, data.lastUpdateTimestamp),
             data.variableBorrowIndex)

CalcExpectedLiquidityIndex(data, at) ==
    IF data.supplyUsageRatio = 0 THEN data.liquidityIndex
    ELSE SignedRayMul(CalcLinearInterest(data.liquidityRate, at, data.lastUpdateTimestamp),
                      data.liquidityIndex)

CalcExpectedVariableBorrowIndex(data, at) ==
    IF data.totalVariableDebt = 0 THEN data.variableBorrowIndex
    ELSE SignedRayMul(
             CalcCompoundedInterest(data.variableBorrowRate, at, data.lastUpdateTimestamp),
             data.variableBorrowIndex)

-----------------------------------------------------------------------------
(* Balances of a user, and the total of the stable debts. *)
CalcExpectedRSTokenBalance(reserve, user, at) ==
    SignedRayMul(user.scaledRSTokenBalance, CalcExpectedReserveNormalizedIncome(reserve, at))

CalcExpectedScaledRSTokenBalance(user, index, added, taken) ==
    user.scaledRSTokenBalance + SignedRayDiv(added, index) - SignedRayDiv(taken, index)

CalcExpectedVariableDebtTokenBalance(reserve, user, at) ==
    SignedRayMul(user.scaledVariableDebt, CalcExpectedReserveNormalizedDebt(reserve, at))

CalcExpectedStableDebtTokenBalance(user, at) ==
    IF user.stableBorrowRate = 0 \/ at = user.stableRateLastUpdated
            \/ user.stableRateLastUpdated = 0
    THEN user.principalStableDebt
    ELSE SignedRayMul(user.principalStableDebt,
             CalcCompoundedInterest(user.stableBorrowRate, at, user.stableRateLastUpdated))

CalcExpectedTotalStableDebt(data, at) ==
    SignedRayMul(CalcCompoundedInterest(data.averageStableBorrowRate, at,
                                        data.totalStableDebtLastUpdated),
                 data.principalStableDebt)

CalcExpectedAverageStableBorrowRate(average, total, changed, rate) ==
    IF total + changed = 0 THEN 0
    ELSE Quot(average * total + rate * changed, total + changed)

(* For a rebalance; it adds amounts in wad to amounts in ray. *)
CalcExpectedAverageStableBorrowRateRebalance(average, total, changed, rate) ==
    LET borrowed == total + WadToRay(changed)
    IN  IF borrowed = 0 THEN 0
        ELSE SignedRayDiv(SignedRayMul(average, total) + SignedRayMul(rate, WadToRay(changed)),
                          borrowed)

CalcExpectedUserStableRate(balance, rateBefore, amount, rateNew) ==
    Quot(balance * rateBefore + amount * rateNew, balance + amount)

-----------------------------------------------------------------------------
(* Borrow usage and supply usage, the latter over what is unbacked too. *)
CalcExpectedUsageRatios(stable, variable, available, totalLiquidity) ==
    LET debt == stable + variable
    IN  IF debt = 0 THEN <<0, 0>>
        ELSE <<SignedRayDiv(debt, available + debt), SignedRayDiv(debt, totalLiquidity + debt)>>

CalcExpectedOverallBorrowRate(stable, variable, variableRate, averageStableRate) ==
    IF stable + variable = 0 THEN 0
    ELSE SignedRayDiv(SignedRayMul(WadToRay(variable), variableRate)
                          + SignedRayMul(WadToRay(stable), averageStableRate),
                      WadToRay(stable + variable))

(* Rates of a reserve with the data's totals, added up from the strategy's terms. *)
CalcExpectedInterestRates(data) ==
    LET usage == CalcExpectedUsageRatios(data.totalStableDebt, data.totalVariableDebt,
                                         data.availableLiquidity, data.totalLiquidity)
        optimal == Strategy.optimalUsageRatio
        optimalStable == Strategy.optimalStableToTotalDebtRatio
        excess == SignedRayDiv(usage[1] - optimal, RAY - optimal)
        along(slope1, slope2) ==
            IF usage[1] > optimal THEN slope1 + SignedRayMul(slope2, excess)
            ELSE SignedRayDiv(SignedRayMul(slope1, usage[1]), optimal)
        stableRatio == IF data.totalStableDebt <= 0 THEN 0
                       ELSE SignedRayDiv(data.totalStableDebt,
                                         data.totalStableDebt + data.totalVariableDebt)
        premium == IF stableRatio <= optimalStable THEN 0
                   ELSE SignedRayMul(Strategy.stableRateExcessOffset,
                            SignedRayDiv(stableRatio - optimalStable, RAY - optimalStable))
        variableRate == Strategy.baseVariableBorrowRate
                            + along(Strategy.variableRateSlope1, Strategy.variableRateSlope2)
        overall == CalcExpectedOverallBorrowRate(data.totalStableDebt, data.totalVariableDebt,
                                                 variableRate, data.averageStableBorrowRate)
    IN  [liquidity |-> SignedPercentMul(SignedRayMul(overall, usage[2]),
                                        PERCENTAGE_FACTOR - ConfiguredFactor),
         stable |-> data.marketStableRate
                        + along(Strategy.stableRateSlope1, Strategy.stableRateSlope2) + premium,
         variable |-> variableRate]

-----------------------------------------------------------------------------
CalcExpectedAccrueToTreasury(before, next) ==
    LET accrued == SignedRayMul(next.scaledVariableDebt, next.variableBorrowIndex)
                       + next.totalStableDebt
                       - SignedRayMul(before.scaledVariableDebt, before.variableBorrowIndex)
                       - CalcExpectedTotalStableDebt(before, before.lastUpdateTimestamp)
        toMint == SignedPercentMul(accrued, before.reserveFactor)
    IN  IF before.reserveFactor = 0 \/ toMint <= 0 THEN before.accruedToTreasuryScaled
        ELSE before.accruedToTreasuryScaled + SignedRayDiv(toMint, next.liquidityIndex)

(* Indexes, totals and the treasury's share, settled up to the transaction. *)
UpdateState(before, at) ==
    LET index == CalcExpectedVariableBorrowIndex(before, at)
        settled == [before EXCEPT
            !.liquidityIndex = CalcExpectedLiquidityIndex(before, at),
            !.variableBorrowIndex = index,
            !.totalStableDebt = CalcExpectedTotalStableDebt(before, at),
            !.totalVariableDebt = SignedRayMul(before.scaledVariableDebt, index)]
    IN  [settled EXCEPT !.accruedToTreasuryScaled = CalcExpectedAccrueToTreasury(before, settled)]

UpdateTotalLiquidityAndUsageRatio(data) ==
    LET total == data.availableLiquidity + data.unbacked
        usage == CalcExpectedUsageRatios(data.totalStableDebt, data.totalVariableDebt,
                                         data.availableLiquidity, total)
    IN  [data EXCEPT !.totalLiquidity = total,
                     !.borrowUsageRatio = usage[1], !.supplyUsageRatio = usage[2]]

UpdateLiquidityAndUsageRatios(data, added, taken) ==
    UpdateTotalLiquidityAndUsageRatio([data EXCEPT !.availableLiquidity = @ + added - taken])

(* The end of every forecast: rates of the totals reached. *)
WithExpectedRates(data) ==
    LET rates == CalcExpectedInterestRates(data)
    IN  UpdateTotalLiquidityAndUsageRatio(
            [data EXCEPT !.liquidityRate = rates.liquidity,
                         !.stableBorrowRate = rates.stable,
                         !.variableBorrowRate = rates.variable])

(* The totals of a kind of debt, set. *)
WithStableDebt(data, total, average) ==
    [data EXCEPT !.principalStableDebt = total, !.totalStableDebt = total,
                 !.averageStableBorrowRate = average]

WithVariableDebt(data, scaled) ==
    [data EXCEPT !.scaledVariableDebt = scaled,
                 !.totalVariableDebt = SignedRayMul(scaled, data.variableBorrowIndex)]

-----------------------------------------------------------------------------
(* The reserve after each kind of transaction. *)
CalcExpectedReserveDataAfterDeposit(amount, before, at) ==
    WithExpectedRates(UpdateLiquidityAndUsageRatios(UpdateState(before, at), amount, 0))

(* What a user gets who asks for everything. *)
Withdrawn(amount, before, user, at) ==
    IF amount = MaxUint THEN CalcExpectedRSTokenBalance(before, user, at) ELSE amount

CalcExpectedReserveDataAfterWithdraw(amount, before, user, at) ==
    WithExpectedRates(UpdateLiquidityAndUsageRatios(
        UpdateState(before, at), 0, Withdrawn(amount, before, user, at)))

CalcExpectedReserveDataAfterMintUnbacked(amount, before, at) ==
    LET minted == [UpdateState(before, at) EXCEPT
            !.unbacked = @ + amount,
            !.averageStableBorrowRate = CalcExpectedAverageStableBorrowRate(
                @, before.totalStableDebt, 0, before.stableBorrowRate)]
    IN  WithExpectedRates(UpdateLiquidityAndUsageRatios(minted, 0, 0))

CalcExpectedReserveDataAfterBackUnbacked(scaledSupply, amount, fee, protocolFee, before, at) ==
    LET settled == UpdateState(before, at)
        backing == IF amount < before.unbacked THEN amount ELSE before.unbacked
        toProtocol == SignedPercentMul(fee, protocolFee)
        total == SignedRayMul(scaledSupply, settled.liquidityIndex)
                     + SignedRayMul(settled.accruedToTreasuryScaled, settled.liquidityIndex)
        index == SignedRayMul(SignedRayDiv(WadToRay(fee - toProtocol), WadToRay(total)) + RAY,
                              settled.liquidityIndex)
        backed == [settled EXCEPT
            !.liquidityIndex = index,
            !.accruedToTreasuryScaled = @ + SignedRayDiv(toProtocol, index),
            !.unbacked = @ - backing,
            !.averageStableBorrowRate = CalcExpectedAverageStableBorrowRate(
                @, before.totalStableDebt, 0, before.stableBorrowRate)]
    IN  WithExpectedRates(UpdateLiquidityAndUsageRatios(backed, backing + fee, 0))

CalcExpectedReserveDataAfterBorrow(amount, mode, before, at) ==
    LET lent == [UpdateLiquidityAndUsageRatios(UpdateState(before, at), 0, amount) EXCEPT
                    !.lastUpdateTimestamp = at]
        untilTx == CalcExpectedTotalStableDebt(before, at)
    IN  WithExpectedRates(
            IF mode = "stable"
            THEN WithStableDebt(lent, untilTx + amount,
                     CalcExpectedAverageStableBorrowRate(before.averageStableBorrowRate, untilTx,
                                                         amount, before.stableBorrowRate))
            ELSE WithVariableDebt(lent, before.scaledVariableDebt
                                            + SignedRayDiv(amount, lent.variableBorrowIndex)))

(* What a repayment pays; not capped by the debt. *)
Repaid(amount, mode, before, user, at) ==
    IF amount # MaxUint THEN amount
    ELSE IF mode = "stable" THEN CalcExpectedStableDebtTokenBalance(user, at)
    ELSE CalcExpectedVariableDebtTokenBalance(before, user, at)

(* "Due to accumulation errors, the total stable debt might be smaller than the last
   user debt", and the average rate negative: then both are zero. *)
CalcExpectedReserveDataAfterRepay(amount, mode, before, user, at) ==
    LET repaid == Repaid(amount, mode, before, user, at)
        paid == UpdateLiquidityAndUsageRatios(UpdateState(before, at), repaid, 0)
        debt == CalcExpectedTotalStableDebt(before, at)
        average == CalcExpectedAverageStableBorrowRate(before.averageStableBorrowRate, debt,
                                                       -repaid, user.stableBorrowRate)
    IN  WithExpectedRates(
            IF mode = "variable"
            THEN WithVariableDebt(paid, before.scaledVariableDebt
                                            - SignedRayDiv(repaid, paid.variableBorrowIndex))
            ELSE IF debt < repaid \/ average < 0 THEN WithStableDebt(paid, 0, 0)
            ELSE WithStableDebt(paid, debt - repaid, average))

CalcExpectedReserveDataAfterSwapRateMode(before, user, mode, at) ==
    LET settled == UpdateLiquidityAndUsageRatios(UpdateState(before, at), 0, 0)
        variable == CalcExpectedVariableDebtTokenBalance(before, user, at)
        stable == CalcExpectedStableDebtTokenBalance(user, at)
        average(total, changed, rate) ==
            CalcExpectedAverageStableBorrowRate(before.averageStableBorrowRate, total, changed, rate)
    IN  WithExpectedRates(
            IF mode = "stable"
            THEN WithVariableDebt(
                     WithStableDebt(settled, settled.totalStableDebt - stable,
                         average(settled.totalStableDebt, -stable, user.stableBorrowRate)),
                     before.scaledVariableDebt + SignedRayDiv(stable, settled.variableBorrowIndex))
            ELSE WithVariableDebt(
                     WithStableDebt(settled, settled.totalStableDebt + variable,
                         average(before.totalStableDebt, variable, before.stableBorrowRate)),
                     before.scaledVariableDebt
                         - SignedRayDiv(variable, settled.variableBorrowIndex)))

(* The user's debt is taken out at the old rate and put back at the new one. *)
CalcExpectedReserveDataAfterStableRateRebalance(before, user, at) ==
    LET settled == UpdateLiquidityAndUsageRatios(UpdateState(before, at), 0, 0)
        total == CalcExpectedTotalStableDebt(before, at)
        debt == CalcExpectedStableDebtTokenBalance(user, at)
        without == CalcExpectedAverageStableBorrowRateRebalance(
                       before.averageStableBorrowRate, total, -debt, user.stableBorrowRate)
    IN  WithExpectedRates(WithStableDebt(settled, total,
            CalcExpectedAverageStableBorrowRateRebalance(
                without, total - debt, debt, before.stableBorrowRate)))

-----------------------------------------------------------------------------
(* The user after each kind of transaction; `after' is the forecast of the reserve. *)
Settled(before, after, user, at) ==
    [user EXCEPT !.currentRSTokenBalance = CalcExpectedRSTokenBalance(before, user, at),
                 !.currentStableDebt = CalcExpectedStableDebtTokenBalance(user, at),
                 !.currentVariableDebt = CalcExpectedVariableDebtTokenBalance(before, user, at),
                 !.liquidityRate = after.liquidityRate]

(* The principal is set to the variable debt here, by a last assignment in a chain. *)
CalcExpectedUserDataAfterDeposit(amount, before, after, user, at) ==
    [Settled(before, after, user, at) EXCEPT
        !.scaledRSTokenBalance =
            CalcExpectedScaledRSTokenBalance(user, after.liquidityIndex, amount, 0),
        !.currentRSTokenBalance = @ + amount,
        !.principalStableDebt = CalcExpectedVariableDebtTokenBalance(before, user, at),
        !.usageAsCollateralEnabled = @ \/ user.currentRSTokenBalance = 0]

CalcExpectedUserDataAfterWithdraw(amount, before, after, user, at) ==
    LET withdrawn == Withdrawn(amount, before, user, at)
        left == CalcExpectedRSTokenBalance(before, user, at) - withdrawn
    IN  [Settled(before, after, user, at) EXCEPT
            !.scaledRSTokenBalance =
                CalcExpectedScaledRSTokenBalance(user, after.liquidityIndex, 0, withdrawn),
            !.currentRSTokenBalance = left,
            !.usageAsCollateralEnabled =
                user.currentRSTokenBalance = 0 \/ (@ /\ left # 0)]

(* A stable debt of so much at a rate, or none. *)
WithStableLoan(user, debt, rate, at) ==
    [user EXCEPT !.principalStableDebt = debt, !.currentStableDebt = debt,
                 !.stableBorrowRate = rate, !.stableRateLastUpdated = at]

WithVariableLoan(user, scaled, index) ==
    [user EXCEPT !.scaledVariableDebt = scaled, !.currentVariableDebt = SignedRayMul(scaled, index)]

(* A variable loan is added to the debt of the whole reserve. *)
CalcExpectedUserDataAfterBorrow(amount, mode, before, after, user, at) ==
    LET untilTx == CalcExpectedStableDebtTokenBalance(user, at)
        settled == [Settled(before, after, user, at) EXCEPT
            !.currentRSTokenBalance = CalcExpectedRSTokenBalance(after, user, at),
            !.currentVariableDebt = CalcExpectedVariableDebtTokenBalance(after, user, at)]
    IN  IF mode = "stable"
        THEN WithStableLoan(settled, untilTx + amount,
                 CalcExpectedUserStableRate(untilTx, user.stableBorrowRate, amount,
                                            before.stableBorrowRate), at)
        ELSE WithVariableLoan(settled,
                 before.scaledVariableDebt + SignedRayDiv(amount, after.variableBorrowIndex),
                 CalcExpectedReserveNormalizedDebt(after, at))

(* After a variable repayment the principal and the current stable debt are swapped. *)
CalcExpectedUserDataAfterRepay(amount, mode, before, after, user, at) ==
    LET repaid == Repaid(amount, mode, before, user, at)
        stable == CalcExpectedStableDebtTokenBalance(user, at)
        settled == Settled(before, after, user, at)
    IN  IF mode = "stable"
        THEN IF stable = repaid THEN WithStableLoan(settled, 0, 0, 0)
             ELSE WithStableLoan(settled, stable - repaid, user.stableBorrowRate, at)
        ELSE WithVariableLoan([settled EXCEPT !.currentStableDebt = user.principalStableDebt,
                                              !.principalStableDebt = stable],
                 user.scaledVariableDebt - SignedRayDiv(repaid, after.variableBorrowIndex),
                 after.variableBorrowIndex)

CalcExpectedUserDataAfterSwapRateMode(before, after, user, mode, at) ==
    LET settled == Settled(before, after, user, at)
        stable == CalcExpectedStableDebtTokenBalance(user, at)
        variable == CalcExpectedVariableDebtTokenBalance(before, user, at)
    IN  IF mode = "stable"
        THEN WithVariableLoan(WithStableLoan(settled, 0, 0, 0),
                 user.scaledVariableDebt + SignedRayDiv(stable, after.variableBorrowIndex),
                 after.variableBorrowIndex)
        ELSE WithVariableLoan(
                 WithStableLoan(settled, user.currentStableDebt + variable,
                     CalcExpectedUserStableRate(stable, user.stableBorrowRate, variable,
                                                before.stableBorrowRate), at),
                 0, after.variableBorrowIndex)

(* The user's rate becomes the average of the reserve. *)
CalcExpectedUserDataAfterStableRateRebalance(before, after, user, at) ==
    WithStableLoan(Settled(before, after, user, at),
                   CalcExpectedStableDebtTokenBalance(user, at),
                   after.averageStableBorrowRate, at)
=============================================================================
