--------------------------- MODULE ReserveScenarios ---------------------------
(***************************************************************************)
(* The scenarios of the test suite on the reserve of ReserveAccounting:    *)
(* each reads the data of the reserve and of a user, makes a transaction   *)
(* and expects the data to be what ReserveForecast computes.  The suite    *)
(* runs scripted stories; here every transaction of every behaviour is one *)
(* of its scenarios.                                                       *)
(***************************************************************************)
EXTENDS ReserveAccounting

VARIABLE agreed   \* the last transaction went as forecast

scenarioVars == <<accountingVars, agreed>>

Forecast == INSTANCE ReserveForecast WITH ConfiguredFactor <- InitialFactor

(* What the data provider reports of the reserve and of a user now. *)
ReserveData ==
    LET variable == RayMul(scaledTotalDebt, NormalizedDebt)
        total == liquidity + reserve.unbacked
        usage == Forecast!CalcExpectedUsageRatios(Grown(stableTotal), variable, liquidity, total)
    IN  [reserveFactor |-> reserve.reserveFactor, unbacked |-> reserve.unbacked,
         accruedToTreasuryScaled |-> reserve.accruedToTreasury,
         availableLiquidity |-> liquidity, totalLiquidity |-> total,
         borrowUsageRatio |-> usage[1], supplyUsageRatio |-> usage[2],
         totalStableDebt |-> Grown(stableTotal), totalVariableDebt |-> variable,
         liquidityRate |-> reserve.liquidityRate,
         variableBorrowRate |-> reserve.variableBorrowRate,
         stableBorrowRate |-> reserve.stableBorrowRate,
         averageStableBorrowRate |-> stableTotal.rate,
         liquidityIndex |-> reserve.liquidityIndex,
         variableBorrowIndex |-> reserve.variableBorrowIndex,
         lastUpdateTimestamp |-> reserve.lastUpdate,
         totalStableDebtLastUpdated |-> stableTotal.timestamp,
         principalStableDebt |-> stableTotal.principal,
         scaledVariableDebt |-> scaledTotalDebt,
         marketStableRate |-> BaseStableBorrowRate]

UserData(u) ==
    [scaledRSTokenBalance |-> scaledBalance[u], currentRSTokenBalance |-> BalanceOf(u),
     currentStableDebt |-> Grown(stableDebt[u]), currentVariableDebt |-> VariableDebtOf(u),
     principalStableDebt |-> stableDebt[u].principal, scaledVariableDebt |-> scaledDebt[u],
     stableBorrowRate |-> stableDebt[u].rate, liquidityRate |-> reserve.liquidityRate,
     usageAsCollateralEnabled |-> u \in collateral,
     stableRateLastUpdated |-> stableDebt[u].timestamp]

Accessory == {"lastUpdateTimestamp", "marketStableRate", "totalStableDebtLastUpdated"}

(* The quantifiers over single values have TLC evaluate each of them once. *)
AlmostEqualOrEqual(expected, actual) ==
    \A e \in {expected}, a \in {actual} : \A key \in DOMAIN a \ Accessory :
        IF key = "usageAsCollateralEnabled" THEN a[key] = e[key]
        ELSE a[key] - e[key] \in -3 .. 3

ReserveIs(expected) == AlmostEqualOrEqual(expected, ReserveData')
UserIs(u, expected) == AlmostEqualOrEqual(expected, UserData(u)')

(* The reference takes the reserve factor from the market's configuration. *)
Expect(met) == agreed' = (reserve.reserveFactor = InitialFactor => met)

-----------------------------------------------------------------------------
(* The scenarios.  A condition on an expectation is one without which the suite's own
   computation departs from the contracts: its stories happen to meet it. *)
Deposit(u, amount) ==
    LET after == Forecast!CalcExpectedReserveDataAfterDeposit(amount, ReserveData, now)
    IN  /\ Supply(u, amount)
        /\ Expect(/\ ReserveIs(after)
                  /\ DebtOf(u, "stable") = 0 /\ DebtOf(u, "variable") = 0 =>
                         UserIs(u, Forecast!CalcExpectedUserDataAfterDeposit(
                                       amount, ReserveData, after, UserData(u), now)))

WithdrawAs(u, amount, forgo) ==
    LET after == Forecast!CalcExpectedReserveDataAfterWithdraw(
                     amount, ReserveData, UserData(u), now)
    IN  /\ Withdraw(u, amount, forgo)
        /\ Expect(~forgo => /\ ReserveIs(after)
                            /\ UserIs(u, Forecast!CalcExpectedUserDataAfterWithdraw(
                                             amount, ReserveData, after, UserData(u), now)))

BorrowAs(u, amount, mode) ==
    LET after == Forecast!CalcExpectedReserveDataAfterBorrow(amount, mode, ReserveData, now)
    IN  /\ Borrow(u, amount, mode)
        /\ Expect(/\ ReserveIs(after)
                  /\ mode = "stable" \/ scaledDebt[u] = scaledTotalDebt =>
                         UserIs(u, Forecast!CalcExpectedUserDataAfterBorrow(
                                       amount, mode, ReserveData, after, UserData(u), now)))

(* Where the rates are averaged as in the contracts.  A debt of less than half a wad has
   too few digits for it; and what is left of a total whose weight is used up still
   enters the contract's rates, though it is erased. *)
IsAveraged(u) ==
    /\ \A debt \in {stableTotal', stableDebt'[u]} :
           debt.principal = 0 \/ WadToRay(debt.principal) >= RAY \div 2
    /\ stableTotal'.principal = 0 => Grown(stableTotal) <= Grown(stableDebt[u])

RepayAs(u, amount, mode) ==
    LET after == Forecast!CalcExpectedReserveDataAfterRepay(
                     amount, mode, ReserveData, UserData(u), now)
    IN  /\ Repay(u, amount, mode)
        /\ Expect((amount = MaxUint \/ amount <= DebtOf(u, mode)) /\ IsAveraged(u) =>
                  /\ ReserveIs(after)
                  /\ mode = "stable" \/ DebtOf(u, "stable") = 0 =>
                         UserIs(u, Forecast!CalcExpectedUserDataAfterRepay(
                                       amount, mode, ReserveData, after, UserData(u), now)))

(* Only of a repayment does the reference expect that the total is less than a debt. *)
SwapBorrowRateModeAs(u, mode) ==
    LET after == Forecast!CalcExpectedReserveDataAfterSwapRateMode(
                     ReserveData, UserData(u), mode, now)
    IN  /\ SwapBorrowRateMode(u, mode)
        /\ Expect(IsAveraged(u) /\ (mode = "stable" => Grown(stableDebt[u]) <= Grown(stableTotal)) =>
                  /\ ReserveIs(after)
                  /\ UserIs(u, Forecast!CalcExpectedUserDataAfterSwapRateMode(
                                   ReserveData, after, UserData(u), mode, now)))

RebalanceStableBorrowRateAs(u) ==
    LET after == Forecast!CalcExpectedReserveDataAfterStableRateRebalance(
                     ReserveData, UserData(u), now)
    IN  /\ RebalanceStableBorrowRate(u)
        /\ Expect(Grown(stableDebt[u]) = Grown(stableTotal) =>
                  /\ ReserveIs(after)
                  /\ UserIs(u, Forecast!CalcExpectedUserDataAfterStableRateRebalance(
                                   ReserveData, after, UserData(u), now)))

FastWithdraw(u, amount) ==
    /\ MintUnbacked(u, amount)
    /\ Expect(ReserveIs(Forecast!CalcExpectedReserveDataAfterMintUnbacked(
                            amount, ReserveData, now)))

BackFastWithdraw(amount, fee) ==
    /\ BackUnbacked(amount, fee)
    /\ Expect(ReserveIs(Forecast!CalcExpectedReserveDataAfterBackUnbacked(
                            scaledSupply, amount, fee, BridgeProtocolFee, ReserveData, now)))

-----------------------------------------------------------------------------
ScenarioInit == Init /\ agreed = TRUE

UserScenario(u) ==
    \/ \E amount \in Amounts :
          \/ Deposit(u, amount)
          \/ FastWithdraw(u, amount)
          \/ \E mode \in Modes : BorrowAs(u, amount, mode)
    \/ \E amount \in Requests :
          \/ \E forgo \in BOOLEAN : WithdrawAs(u, amount, forgo)
          \/ \E mode \in Modes :
                \/ RepayAs(u, amount, mode)
                \/ RepayWithRSTokens(u, amount, mode) /\ UNCHANGED agreed
    \/ \E mode \in Modes : SwapBorrowRateModeAs(u, mode)
    \/ RebalanceStableBorrowRateAs(u)

(* The steps of ReserveAccounting!Next, checked where the suite has a scenario. *)
ScenarioNext ==
    \/ /\ steps < MaxSteps
       /\ \/ \E u \in Users : UserScenario(u)
          \/ \E amount \in Amounts, fee \in Fees : BackFastWithdraw(amount, fee)
          \/ MintToTreasury /\ UNCHANGED agreed
          \/ \E factor \in Factors : SetReserveFactor(factor) /\ UNCHANGED agreed
    \/ now < MaxTime /\ Tick /\ UNCHANGED agreed

ScenarioSpec == ScenarioInit /\ [][ScenarioNext]_scenarioVars

(* Whatever the reserve has been through, a transaction moves its indexes, rates and
   totals and the user's balances as the reference of the test suite says. *)
ForecastsHold == agreed
=============================================================================
