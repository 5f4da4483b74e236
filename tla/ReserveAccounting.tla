--------------------------- MODULE ReserveAccounting ---------------------------
(***************************************************************************)
(* One reserve over time: the indexes and rates of ReserveLogic, the       *)
(* treasury's share, the scaled balances of RSTokens and variable debt,    *)
(* the stable loans with a rate each and their total with an average rate, *)
(* and the unbacked claims of the bridge.  LendingPool moves indexes at    *)
(* will and asks whether positions are safe; here they move as the code    *)
(* moves them, and the question is whether the totals stay true.           *)
(*                                                                         *)
(* What LendingPool checks before a transaction is left out: the reserve   *)
(* is open, callers have collateral in other reserves and no allowance is  *)
(* missing.  An operator with `now' in its comment is a view: it holds at  *)
(* this moment, stored or not.                                             *)
(***************************************************************************)
EXTENDS InterestRates, FiniteSetsExt

CONSTANTS Users, Treasury,
          MaxUint,                          \* type(uint256).max: everything
          MaxStableRateBorrowSizePercent,   \* of the liquidity, for one stable loan
          BridgeProtocolFee,                \* share of a bridge's fee
          \* bounds of the model
          InitialSupply, InitialFactor,     \* of a passive holder, at the start
          Amounts, Fees, Factors,           \* that callers and admins choose from
          MaxTime, MaxSteps,                \* the clock, and how many transactions
          \* what rounding may cost: a transaction, and the total of the stable loans
          Rounding, StableDrift

ASSUME AccountingAssumption ==
    /\ IsFiniteSet(Users)
    /\ MaxUint \in Nat /\ MaxStableRateBorrowSizePercent \in Nat
    /\ BridgeProtocolFee \in 0 .. PERCENTAGE_FACTOR
    /\ InitialSupply \in Nat /\ InitialFactor \in 0 .. PERCENTAGE_FACTOR
    /\ Amounts \subseteq Nat \ {0} /\ Fees \subseteq Nat /\ Factors \subseteq Nat

VARIABLES now,
          reserve,        \* DataTypes.ReserveData and its reserve factor
          liquidity,      \* underlying held by the RSToken
          scaledBalance,  \* of RSTokens, per account
          scaledSupply,   \* their total
          scaledDebt,     \* of variable debt tokens, per user
          scaledTotalDebt, \* their total
          stableDebt,     \* per user: principal, rate, timestamp
          stableTotal,    \* of the stable debt token: principal, rate, timestamp
          collateral,     \* users for whom the reserve is collateral
          quoted,         \* history: the reserve factor the current rates are for
          steps           \* transactions made

rsTokens == <<scaledBalance, scaledSupply>>
variableDebts == <<scaledDebt, scaledTotalDebt>>
stableDebts == <<stableDebt, stableTotal>>
tokens == <<rsTokens, variableDebts, stableDebts>>
accountingVars == <<now, reserve, liquidity, tokens, collateral, quoted, steps>>

Accounts == Users \cup {Treasury}
Modes == {"stable", "variable"}
NoStableDebt == [principal |-> 0, rate |-> 0, timestamp |-> 0]

(* What a stable debt, or their total, has grown to now. *)
Grown(debt) ==
    IF debt.principal = 0 THEN 0
    ELSE RayMul(debt.principal, CompoundedInterest(debt.rate, now - debt.timestamp))

(* The income of a unit supplied at the start, now; and the debt of a unit borrowed. *)
NormalizedIncome ==
    RayMul(LinearInterest(reserve.liquidityRate, now - reserve.lastUpdate), reserve.liquidityIndex)

NormalizedDebt ==
    RayMul(CompoundedInterest(reserve.variableBorrowRate, now - reserve.lastUpdate),
           reserve.variableBorrowIndex)

BalanceOf(a) == RayMul(scaledBalance[a], NormalizedIncome)
VariableDebtOf(u) == RayMul(scaledDebt[u], NormalizedDebt)

-----------------------------------------------------------------------------
(* Interest that all debts earned since the reserve was last updated; unsigned
   in the code, which reverts where this is negative. *)
TotalDebtAccrued(nextIndex) ==
    RayMul(scaledTotalDebt, nextIndex) + Grown(stableTotal)
        - RayMul(scaledTotalDebt, reserve.variableBorrowIndex)
        - RayMul(stableTotal.principal,
                 CompoundedInterest(stableTotal.rate, reserve.lastUpdate - stableTotal.timestamp))

NextLiquidityIndex == IF reserve.liquidityRate # 0 THEN NormalizedIncome ELSE reserve.liquidityIndex

(* Mutant: debts are settled with plain interest. *)
NextVariableBorrowIndexPlain ==
    RayMul(LinearInterest(reserve.variableBorrowRate, now - reserve.lastUpdate),
           reserve.variableBorrowIndex)

NextVariableBorrowIndex ==
    IF scaledTotalDebt # 0 THEN NormalizedDebt ELSE reserve.variableBorrowIndex

TreasuryShare == PercentMul(TotalDebtAccrued(NextVariableBorrowIndex), reserve.reserveFactor)

(* Mutant: the time of the update is not stored. *)
UpdatedUndated ==
    [reserve EXCEPT !.liquidityIndex = NextLiquidityIndex,
                    !.variableBorrowIndex = NextVariableBorrowIndex,
                    !.accruedToTreasury = @ + RayDiv(TreasuryShare, NextLiquidityIndex)]

(* The reserve after updateState; a second update in a block changes nothing. *)
Updated ==
    IF reserve.lastUpdate = now THEN reserve
    ELSE [reserve EXCEPT !.liquidityIndex = NextLiquidityIndex,
                         !.variableBorrowIndex = NextVariableBorrowIndex,
                         !.accruedToTreasury = @ + RayDiv(TreasuryShare, NextLiquidityIndex),
                         !.lastUpdate = now]

(* The reserve with the rates of the totals after the transaction. *)
WithRates(r, available, stable, averageStableRate, scaledVariable) ==
    LET rates == CalculateInterestRates(r.unbacked, available, stable,
                     RayMul(scaledVariable, r.variableBorrowIndex), averageStableRate,
                     r.reserveFactor)
    IN  [r EXCEPT !.liquidityRate = rates.liquidityRate,
                  !.stableBorrowRate = rates.stableBorrowRate,
                  !.variableBorrowRate = rates.variableBorrowRate]

(* The transaction ends in r, with the rates of the totals it is to reach. *)
CommitRates(r, available, stable, averageStableRate) ==
    /\ UNCHANGED now /\ steps' = steps + 1
    /\ reserve' = WithRates(r, available, stable, averageStableRate, scaledTotalDebt')
    /\ quoted' = r.reserveFactor

Commit(r, available, stable, averageStableRate) ==
    /\ CommitRates(r, available, stable, averageStableRate)
    /\ liquidity' = available

(* ... where no debt changed. *)
CommitLiquidity(r, available) ==
    /\ UNCHANGED <<variableDebts, stableDebts>>
    /\ Commit(r, available, Grown(stableTotal), stableTotal.rate)

-----------------------------------------------------------------------------
(* The average rate of two amounts, weighted. *)
Averaged(rate1, amount1, rate2, amount2) ==
    RayDiv(RayMul(rate1, WadToRay(amount1)) + RayMul(rate2, WadToRay(amount2)),
           WadToRay(amount1 + amount2))

(* StableDebtToken.mint: a debt, or their total, with `amount' more at a rate. *)
WithLoan(debt, amount, rate) ==
    [principal |-> Grown(debt) + amount,
     rate |-> Averaged(debt.rate, Grown(debt), rate, amount),
     timestamp |-> now]

(* StableDebtToken.burn *)
LessPaid(debt, amount) ==
    IF amount = Grown(debt) THEN NoStableDebt
    ELSE [debt EXCEPT !.principal = Grown(debt) - amount, !.timestamp = now]

(* ... and the total: the debts accrue apart from it, so the last of them may be
   more than the total, or weigh more than all of it; then it is forgotten. *)
TotalWeight(amount, rate) ==
    RayMul(stableTotal.rate, WadToRay(Grown(stableTotal))) - RayMul(rate, WadToRay(amount))

(* Mutant: a debt is taken out at the average rate. *)
TotalLessPaidAtAverage(amount, rate) ==
    IF Grown(stableTotal) <= amount THEN [NoStableDebt EXCEPT !.timestamp = now]
    ELSE [stableTotal EXCEPT !.principal = Grown(stableTotal) - amount, !.timestamp = now]

TotalLessPaid(amount, rate) ==
    LET left == Grown(stableTotal) - amount
    IN  IF left <= 0 \/ TotalWeight(amount, rate) <= 0
        THEN [NoStableDebt EXCEPT !.timestamp = now]
        ELSE [principal |-> left,
              rate |-> RayDiv(TotalWeight(amount, rate), WadToRay(left)),
              timestamp |-> now]

(* The supply that burn returns, for the rates: in the latter case it is not the
   one it stored. *)
ReturnedSupply(amount) ==
    IF Grown(stableTotal) <= amount THEN 0 ELSE Grown(stableTotal) - amount

Scaled(amount, index) == RayDiv(amount, index)

MintRSTokens(a, scaled) ==
    /\ scaled # 0
    /\ scaledBalance' = [scaledBalance EXCEPT ![a] = @ + scaled]
    /\ scaledSupply' = scaledSupply + scaled

BurnRSTokens(a, scaled) ==
    /\ scaled \in 1 .. scaledBalance[a] /\ scaled <= scaledSupply
    /\ scaledBalance' = [scaledBalance EXCEPT ![a] = @ - scaled]
    /\ scaledSupply' = scaledSupply - scaled

MintDebt(u, scaled) ==
    /\ scaled # 0
    /\ scaledDebt' = [scaledDebt EXCEPT ![u] = @ + scaled]
    /\ scaledTotalDebt' = scaledTotalDebt + scaled

BurnDebt(u, scaled) ==
    /\ scaled \in 1 .. scaledDebt[u] /\ scaled <= scaledTotalDebt
    /\ scaledDebt' = [scaledDebt EXCEPT ![u] = @ - scaled]
    /\ scaledTotalDebt' = scaledTotalDebt - scaled

-----------------------------------------------------------------------------
Supply(u, amount) ==
    /\ MintRSTokens(u, Scaled(amount, Updated.liquidityIndex))
    /\ CommitLiquidity(Updated, liquidity + amount)
    /\ collateral' = IF scaledBalance[u] = 0 THEN collateral \cup {u} ELSE collateral

(* The rates are those of a payment, which a receiver that is the RSToken itself does
   not get (forgo): the claims are gone and the underlying stays. *)
Withdraw(u, requested, forgo) ==
    LET balance == RayMul(scaledBalance[u], Updated.liquidityIndex)
        amount == IF requested = MaxUint THEN balance ELSE requested
    IN  /\ amount \in 1 .. balance /\ amount <= liquidity
        /\ BurnRSTokens(u, Scaled(amount, Updated.liquidityIndex))
        /\ UNCHANGED <<variableDebts, stableDebts>>
        /\ CommitRates(Updated, liquidity - amount, Grown(stableTotal), stableTotal.rate)
        /\ liquidity' = liquidity - (IF forgo THEN 0 ELSE amount)
        /\ collateral' = IF amount = balance THEN collateral \ {u} ELSE collateral

(* Minting and burning debt tokens of each kind, in a reserve r already updated;
   `added' is the liquidity the transaction brings in or takes out. *)
MintVariable(r, u, amount, added) ==
    /\ MintDebt(u, Scaled(amount, r.variableBorrowIndex))
    /\ Commit(r, liquidity + added, Grown(stableTotal), stableTotal.rate)
    /\ UNCHANGED stableDebts

BurnVariable(r, u, amount, added) ==
    /\ BurnDebt(u, Scaled(amount, r.variableBorrowIndex))
    /\ Commit(r, liquidity + added, Grown(stableTotal), stableTotal.rate)
    /\ UNCHANGED stableDebts

MintStable(r, u, amount, added) ==
    LET total == WithLoan(stableTotal, amount, r.stableBorrowRate)
    IN  /\ stableDebt' = [stableDebt EXCEPT ![u] = WithLoan(@, amount, r.stableBorrowRate)]
        /\ stableTotal' = total
        /\ UNCHANGED variableDebts
        /\ Commit(r, liquidity + added, total.principal, total.rate)

(* Mutant: the rates are set from the supply before the burn. *)
BurnStableStale(r, u, amount, added) ==
    LET total == TotalLessPaid(amount, stableDebt[u].rate)
    IN  /\ stableDebt' = [stableDebt EXCEPT ![u] = LessPaid(@, amount)]
        /\ stableTotal' = total
        /\ UNCHANGED variableDebts
        /\ Commit(r, liquidity + added, Grown(stableTotal), total.rate)

BurnStable(r, u, amount, added) ==
    LET total == TotalLessPaid(amount, stableDebt[u].rate)
    IN  /\ stableDebt' = [stableDebt EXCEPT ![u] = LessPaid(@, amount)]
        /\ stableTotal' = total
        /\ UNCHANGED variableDebts
        /\ Commit(r, liquidity + added, ReturnedSupply(amount), total.rate)

(* A stable rate is not for those who lend the same asset as collateral, unless
   they borrow more than they lend. *)
MayHoldStable(u, amount) == u \notin collateral \/ amount > BalanceOf(u)

Borrow(u, amount, mode) ==
    /\ amount <= liquidity
    /\ \/ mode = "variable" /\ MintVariable(Updated, u, amount, -amount)
       \/ /\ mode = "stable"
          /\ MayHoldStable(u, amount)
          /\ amount <= PercentMul(liquidity, MaxStableRateBorrowSizePercent)
          /\ MintStable(Updated, u, amount, -amount)
    /\ UNCHANGED <<rsTokens, collateral>>

DebtOf(u, mode) == IF mode = "stable" THEN Grown(stableDebt[u]) ELSE VariableDebtOf(u)

(* Mutant: the lesser of two is not taken. *)
AtMostFirst(a, b) == a

AtMost(a, b) == IF a < b THEN a ELSE b

Repay(u, requested, mode) ==
    LET paid == AtMost(requested, DebtOf(u, mode))
    IN  /\ DebtOf(u, mode) # 0
        /\ IF mode = "stable" THEN BurnStable(Updated, u, paid, paid)
           ELSE BurnVariable(Updated, u, paid, paid)
        /\ UNCHANGED <<rsTokens, collateral>>

(* The payer's RSTokens are burnt after the rates are set; no liquidity comes in. *)
RepayWithRSTokens(u, requested, mode) ==
    LET offered == IF requested = MaxUint THEN BalanceOf(u) ELSE requested
        paid == AtMost(offered, DebtOf(u, mode))
    IN  /\ DebtOf(u, mode) # 0 /\ offered # 0
        /\ IF mode = "stable" THEN BurnStable(Updated, u, paid, 0)
           ELSE BurnVariable(Updated, u, paid, 0)
        /\ BurnRSTokens(u, Scaled(paid, Updated.liquidityIndex))
        /\ UNCHANGED collateral

(* The rate is the one before the transaction, as for every stable loan. *)
SwapBorrowRateMode(u, mode) ==
    LET debt == DebtOf(u, mode)
        scaled == Scaled(debt, Updated.variableBorrowIndex)
        paid == TotalLessPaid(debt, stableDebt[u].rate)
        lent == WithLoan(stableTotal, debt, reserve.stableBorrowRate)
    IN  /\ debt # 0
        /\ \/ /\ mode = "stable"
              /\ stableDebt' = [stableDebt EXCEPT ![u] = LessPaid(@, debt)]
              /\ stableTotal' = paid
              /\ MintDebt(u, scaled)
              /\ Commit(Updated, liquidity, ReturnedSupply(debt), paid.rate)
           \/ /\ mode = "variable"
              /\ MayHoldStable(u, DebtOf(u, "stable") + debt)
              /\ BurnDebt(u, scaled)
              /\ stableDebt' = [stableDebt EXCEPT ![u] = WithLoan(@, debt, reserve.stableBorrowRate)]
              /\ stableTotal' = lent
              /\ Commit(Updated, liquidity, lent.principal, lent.rate)
        /\ UNCHANGED <<rsTokens, collateral>>

(* "Rebalancing is accepted when depositors are earning <= 90% of their earnings
   in pure supply/demand market (variable rate only)". *)
MayRebalance ==
    LET debt == Grown(stableTotal) + RayMul(scaledTotalDebt, NormalizedDebt)
    IN  reserve.liquidityRate <=
            PercentMul(CalculateInterestRates(reserve.unbacked, liquidity, 0, debt, 0,
                                              reserve.reserveFactor).liquidityRate,
                       (PERCENTAGE_FACTOR * 9) \div 10)

(* Anybody may move u's stable debt to the current rate: it is burnt and minted. *)
RebalanceStableBorrowRate(u) ==
    LET debt == Grown(stableDebt[u])
        without == TotalLessPaid(debt, stableDebt[u].rate)
        total == [principal |-> without.principal + debt,
                  rate |-> Averaged(without.rate, without.principal, reserve.stableBorrowRate, debt),
                  timestamp |-> now]
    IN  /\ debt # 0
        /\ MayRebalance
        /\ stableDebt' = [stableDebt EXCEPT ![u] =
               [principal |-> debt, timestamp |-> now,
                rate |-> Averaged(0, 0, reserve.stableBorrowRate, debt)]]
        /\ stableTotal' = total
        /\ UNCHANGED <<rsTokens, variableDebts, collateral>>
        /\ Commit(Updated, liquidity, total.principal, total.rate)

-----------------------------------------------------------------------------
(* A bridge mints RSTokens that are to be backed later. *)
MintUnbacked(u, amount) ==
    /\ MintRSTokens(u, Scaled(amount, Updated.liquidityIndex))
    /\ CommitLiquidity([Updated EXCEPT !.unbacked = @ + amount], liquidity)
    /\ collateral' = IF scaledBalance[u] = 0 THEN collateral \cup {u} ELSE collateral

(* Mutant: the income of the total is taken for its growth. *)
CumulateToLiquidityIndexGrowthOnly(index, total, amount) ==
    RayMul(RayDiv(WadToRay(amount), WadToRay(total)), index)

CumulateToLiquidityIndex(index, total, amount) ==
    RayMul(RayDiv(WadToRay(amount), WadToRay(total)) + RAY, index)

(* It backs some of them and pays a fee, which is income of the suppliers. *)
BackUnbacked(amount, fee) ==
    LET backing == AtMost(amount, reserve.unbacked)
        toProtocol == PercentMul(fee, BridgeProtocolFee)
        total == RayMul(scaledSupply, Updated.liquidityIndex)
                     + RayMul(Updated.accruedToTreasury, Updated.liquidityIndex)
        index == CumulateToLiquidityIndex(Updated.liquidityIndex, total, fee - toProtocol)
    IN  /\ total # 0
        /\ CommitLiquidity([Updated EXCEPT !.liquidityIndex = index,
                                           !.accruedToTreasury = @ + RayDiv(toProtocol, index),
                                           !.unbacked = @ - backing],
                           liquidity + backing + fee)
        /\ UNCHANGED <<rsTokens, collateral>>

(* Mutant: the accrued share is not reset. *)
MintToTreasuryAgain ==
    LET minted == RayMul(reserve.accruedToTreasury, NormalizedIncome)
    IN  /\ reserve.accruedToTreasury # 0
        /\ MintRSTokens(Treasury, Scaled(minted, NormalizedIncome))
        /\ steps' = steps + 1
        /\ UNCHANGED <<now, reserve, liquidity, variableDebts, stableDebts, collateral, quoted>>

(* The accrued share becomes RSTokens at the income of now; the reserve is not
   updated, nor are its rates. *)
MintToTreasury ==
    LET minted == RayMul(reserve.accruedToTreasury, NormalizedIncome)
    IN  /\ reserve.accruedToTreasury # 0
        /\ reserve' = [reserve EXCEPT !.accruedToTreasury = 0]
        /\ MintRSTokens(Treasury, Scaled(minted, NormalizedIncome))
        /\ steps' = steps + 1
        /\ UNCHANGED <<now, liquidity, variableDebts, stableDebts, collateral, quoted>>

(* The new factor is stored; interest up to now is not settled with the old one. *)
SetReserveFactor(factor) ==
    /\ factor # reserve.reserveFactor /\ factor <= PERCENTAGE_FACTOR
    /\ reserve' = [reserve EXCEPT !.reserveFactor = factor]
    /\ steps' = steps + 1
    /\ UNCHANGED <<now, liquidity, tokens, collateral, quoted>>

Tick ==
    /\ now' = now + 1
    /\ UNCHANGED <<reserve, liquidity, tokens, collateral, quoted, steps>>

-----------------------------------------------------------------------------
NewReserve ==
    [liquidityIndex |-> RAY, variableBorrowIndex |-> RAY, liquidityRate |-> 0,
     stableBorrowRate |-> 0, variableBorrowRate |-> 0, lastUpdate |-> 1,
     accruedToTreasury |-> 0, unbacked |-> 0, reserveFactor |-> InitialFactor]

(* A reserve listed at time 1, in which a holder that stays passive has supplied. *)
Init ==
    /\ now = 1 /\ steps = 0
    /\ reserve = WithRates(NewReserve, InitialSupply, 0, 0, 0)
    /\ liquidity = InitialSupply
    /\ scaledBalance = [a \in Accounts |-> IF a = Treasury THEN InitialSupply ELSE 0]
    /\ scaledSupply = InitialSupply
    /\ scaledDebt = [u \in Users |-> 0] /\ scaledTotalDebt = 0
    /\ stableDebt = [u \in Users |-> NoStableDebt]
    /\ stableTotal = NoStableDebt
    /\ collateral = {}
    /\ quoted = InitialFactor

Requests == Amounts \cup {MaxUint}

UserStep(u) ==
    \/ \E amount \in Amounts : Supply(u, amount)
    \/ \E amount \in Requests, forgo \in BOOLEAN : Withdraw(u, amount, forgo)
    \/ \E amount \in Amounts, mode \in Modes : Borrow(u, amount, mode)
    \/ \E amount \in Requests, mode \in Modes : Repay(u, amount, mode)
    \/ \E amount \in Requests, mode \in Modes : RepayWithRSTokens(u, amount, mode)
    \/ \E mode \in Modes : SwapBorrowRateMode(u, mode)
    \/ RebalanceStableBorrowRate(u)
    \/ \E amount \in Amounts : MintUnbacked(u, amount)

Next ==
    \/ /\ steps < MaxSteps
       /\ \/ \E u \in Users : UserStep(u)
          \/ \E amount \in Amounts, fee \in Fees : BackUnbacked(amount, fee)
          \/ MintToTreasury
          \/ \E factor \in Factors : SetReserveFactor(factor)
    \/ now < MaxTime /\ Tick

Spec == Init /\ [][Next]_accountingVars

-----------------------------------------------------------------------------
Loan == [principal : Nat, rate : Nat, timestamp : Nat]

ReserveRecords ==
    [liquidityIndex : Nat, variableBorrowIndex : Nat, liquidityRate : Nat,
     stableBorrowRate : Nat, variableBorrowRate : Nat, lastUpdate : Nat,
     accruedToTreasury : Nat, unbacked : Nat, reserveFactor : 0 .. PERCENTAGE_FACTOR]

(* Nothing is driven below zero by the roundings of scaled burns, the caps on what is
   paid and backed, or the average rate of the stable loans; all are unsigned. *)
TypeOK ==
    /\ now \in Nat /\ steps \in Nat /\ liquidity \in Nat
    /\ reserve \in ReserveRecords
    /\ scaledBalance \in [Accounts -> Nat] /\ scaledSupply \in Nat
    /\ scaledDebt \in [Users -> Nat] /\ scaledTotalDebt \in Nat
    /\ stableDebt \in [Users -> Loan] /\ stableTotal \in Loan

(* Nothing is dated later than now, and indexes start at one and only grow. *)
Dated ==
    /\ reserve.lastUpdate <= now
    /\ \A u \in Users : stableDebt[u].timestamp <= now
    /\ stableTotal.timestamp <= reserve.lastUpdate
    /\ reserve.liquidityIndex >= RAY /\ reserve.variableBorrowIndex >= RAY

(* The subtractions of the treasury's share never go below zero, where they would
   revert every transaction of the reserve: the stable total is never older than
   the reserve's last update, and debts grow. *)
AccrualNeverReverts ==
    /\ stableTotal.timestamp <= reserve.lastUpdate
    /\ TotalDebtAccrued(NextVariableBorrowIndex) >= 0

(* What a unit supplied or owed has grown to never shrinks, neither by time nor by a
   transaction, a fee that a bridge shares out included.  Tokens remember the index of
   each account's last mint or burn and subtract, unsigned, what the balance was worth
   then: an index that fell would revert every later transaction of the account. *)
IndexesNeverFall ==
    [][/\ NormalizedIncome' >= NormalizedIncome
       /\ scaledTotalDebt # 0 => NormalizedDebt' >= NormalizedDebt]_accountingVars

(* The stable loans grow each at its own rate, their total at the average rate, by
   which it falls behind them.  It never gets ahead: the rates and the treasury's
   share are computed from it, and would pay out interest nobody owes. *)
StableTotalIsOwed ==
    Grown(stableTotal)
        <= MapThenSumSet(LAMBDA u : Grown(stableDebt[u]), Users) + StableDrift

(* What the holders of RSTokens and the treasury may claim now, and what is there
   for it: underlying, debts and what the bridge has yet to back. *)
Claims == RayMul(scaledSupply + Updated.accruedToTreasury, Updated.liquidityIndex)

Backing ==
    liquidity + reserve.unbacked
        + RayMul(scaledTotalDebt, Updated.variableBorrowIndex)
        + MapThenSumSet(LAMBDA u : Grown(stableDebt[u]), Users)

(* Interest since the last update that a reserve factor changed meanwhile takes for
   the treasury although the rates have promised it to the suppliers; negative where
   the factor was lowered and nobody gets it. *)
Overcharge ==
    LET accrued == TotalDebtAccrued(NextVariableBorrowIndex)
    IN  IF reserve.reserveFactor >= quoted
        THEN PercentMul(accrued, reserve.reserveFactor - quoted)
        ELSE -PercentMul(accrued, quoted - reserve.reserveFactor)

(* Claims beyond the totals that the rates are set from, with the income they have been
   promised when the income index reaches `index'.  There are some when a shortfall is
   left, or the stable total has fallen behind the loans. *)
UncountedAt(index) ==
    LET counted == liquidity + reserve.unbacked + Grown(stableTotal)
                       + RayMul(scaledTotalDebt, Updated.variableBorrowIndex)
    IN  RayMul(RayDiv(Max({0, Claims - counted}), Updated.liquidityIndex), index)

(* Interest, fees, treasury mints and every transaction leave what backs the claims
   as good as it was, but for the units that rounding may cost.  Only a changed
   reserve factor may take more, and no more than the overcharge; and claims that the
   rates do not count earn an income that nobody pays. *)
ClaimsStayBacked ==
    [][(Backing - Claims)' + Max({0, Overcharge'})
           >= (Backing - Claims) + Min({0, Overcharge}) - Rounding
                  - Max({0, UncountedAt(Updated'.liquidityIndex)
                              - UncountedAt(Updated.liquidityIndex)})]_accountingVars

(* A transaction moves the balance and the debts of nobody but the account it is for:
   settling interest changes no view of them. *)
OthersAreUntouched ==
    [][now' = now /\ reserve'.liquidityIndex = Updated.liquidityIndex =>
           \E a \in Accounts :
               /\ \A b \in Accounts \ {a} : BalanceOf(b)' = BalanceOf(b)
               /\ \A v \in Users \ {a} : /\ VariableDebtOf(v)' = VariableDebtOf(v)
                                        /\ Grown(stableDebt[v])' = Grown(stableDebt[v])]_accountingVars
=============================================================================
