-------------------------- MODULE LendingPool_proofs --------------------------
(***************************************************************************)
(* Theorems of LendingPool, for every set of users, reserves and           *)
(* categories, every configuration, and every unit of the arithmetic:      *)
(* type correctness, so that no unsigned subtraction underflows.           *)
(***************************************************************************)
EXTENDS PoolProperties, Amounts_proofs

-----------------------------------------------------------------------------
(* Type correctness.  A liquidation divides by the bonus of the collateral, so
   the invariant adds what PoolConfigurator requires of collateral, and that
   users are only in categories that have been configured.  It says no more of
   the settings, so that it serves the specifications that change them too. *)

Sound ==
    /\ \A r \in Reserves : Collateralizable(config[r])
    /\ \A c \in Categories : Collateralizable(categories[c])
    /\ \A u \in Users : eMode[u] # 0 => categories[eMode[u]].liquidationThreshold # 0

TypeInv == TypeOK /\ Sound

(* One amount of a table of amounts changes. *)
LEMMA UpdateType ==
    ASSUME NEW S, NEW T, NEW f \in [S -> [T -> Nat]], NEW s \in S, NEW t \in T, NEW v \in Nat
    PROVE  [f EXCEPT ![s][t] = v] \in [S -> [T -> Nat]]
  BY ZenonT(40)

LEMMA BalanceType ==
    ASSUME TypeOK, NEW a \in Accounts, NEW r \in Reserves
    PROVE  Balance(a, r) \in Nat
  BY RayMulType DEF TypeOK, Balance

LEMMA VariableDebtType ==
    ASSUME TypeOK, NEW u \in Users, NEW r \in Reserves
    PROVE  /\ VariableDebt(u, r) \in Nat
           /\ Debt(u, r) \in Nat
  <1>1. /\ scaledDebt[r][u] \in Nat
        /\ stableDebt[r][u] \in Nat
        /\ variableIndex[r] \in Nat
    BY DEF TypeOK
  <1>2. VariableDebt(u, r) \in Nat
    BY <1>1, RayMulType DEF VariableDebt
  <1> QED
    BY <1>1, <1>2 DEF Debt

LEMMA ScaledType ==
    ASSUME TypeOK, NEW r \in Reserves, NEW amount \in Nat
    PROVE  /\ RayDiv(amount, liquidityIndex[r]) \in Nat
           /\ RayDiv(amount, variableIndex[r]) \in Nat
  <1>1. /\ liquidityIndex[r] \in Nat \ {0}
        /\ variableIndex[r] \in Nat \ {0}
    BY UnitAssumption, SMT DEF TypeOK
  <1> QED
    BY <1>1, RayDivType

LEMMA InitType == Init => TypeInv
  <1> SUFFICES ASSUME Init PROVE TypeInv
    OBVIOUS
  <1>1. Sound
    BY InitialAssumption DEF Init, Sound
  <1>2. RAY \in {i \in Nat : i >= RAY}
    BY UnitAssumption, SMT
  <1>3. TypeOK
    BY <1>2, InitialAssumption, NamesAssumption DEF Init, TypeOK, Accounts
  <1> QED
    BY <1>1, <1>3 DEF TypeInv

LEMMA SupplyType ==
    ASSUME TypeInv, NEW caller, NEW u \in Users, NEW r \in Reserves, NEW amount \in Nat,
           Supply(caller, u, r, amount)
    PROVE  TypeInv'
  <1> DEFINE scaled == RayDiv(amount, liquidityIndex[r])
  <1>1. scaled \in Nat
    BY ScaledType DEF TypeInv
  <1>2. Sound'
    BY DEF Supply, TypeInv, Sound, settings
  <1>3. scaledBalance' \in [Reserves -> [Accounts -> Nat]]
    <2>1. /\ u \in Accounts
          /\ scaledBalance \in [Reserves -> [Accounts -> Nat]]
      BY DEF TypeInv, TypeOK, Accounts
    <2>2. scaledBalance[r][u] + scaled \in Nat
      BY <1>1, <2>1
    <2>3. scaledBalance' = [scaledBalance EXCEPT ![r][u] = scaledBalance[r][u] + scaled]
      BY DEF Supply
    <2> QED
      BY <2>1, <2>2, <2>3, UpdateType
  <1>4. availableLiquidity' \in [Reserves -> Nat]
    BY DEF Supply, TypeInv, TypeOK
  <1>5. usingAsCollateral' \in [Users -> SUBSET Reserves]
    BY DEF Supply, TypeInv, TypeOK
  <1> QED
    BY <1>2, <1>3, <1>4, <1>5 DEF Supply, TypeInv, TypeOK, settings, market, debts

LEMMA WithdrawType ==
    ASSUME TypeInv, NEW u \in Users, NEW r \in Reserves, NEW amount \in Nat,
           NEW forgo \in BOOLEAN, Withdraw(u, r, amount, forgo)
    PROVE  TypeInv'
  <1> DEFINE withdrawn == IF amount = MaxUint THEN Balance(u, r) ELSE amount
             scaled == RayDiv(withdrawn, liquidityIndex[r])
  <1>1. withdrawn \in Nat
    BY BalanceType DEF TypeInv, Accounts
  <1>2. scaled \in Nat
    BY <1>1, ScaledType DEF TypeInv
  <1>3. Sound'
    BY DEF Withdraw, TypeInv, Sound, settings
  <1>4. /\ scaled <= scaledBalance[r][u]
        /\ scaledBalance' = [scaledBalance EXCEPT ![r][u] = @ - scaled]
    BY DEF Withdraw
  <1>5. scaledBalance' \in [Reserves -> [Accounts -> Nat]]
    <2>1. /\ u \in Accounts
          /\ scaledBalance \in [Reserves -> [Accounts -> Nat]]
      BY DEF TypeInv, TypeOK, Accounts
    <2>2. scaledBalance[r][u] - scaled \in Nat
      BY <1>2, <1>4, <2>1
    <2> QED
      BY <1>4, <2>1, <2>2, UpdateType
  <1>6. /\ withdrawn <= availableLiquidity[r]
        /\ availableLiquidity' = [availableLiquidity EXCEPT
               ![r] = @ - (IF forgo THEN 0 ELSE withdrawn)]
    BY DEF Withdraw
  <1>7. availableLiquidity' \in [Reserves -> Nat]
    BY <1>1, <1>6 DEF TypeInv, TypeOK
  <1>8. usingAsCollateral' \in [Users -> SUBSET Reserves]
    BY DEF Withdraw, TypeInv, TypeOK
  <1> QED
    BY <1>3, <1>5, <1>7, <1>8 DEF Withdraw, TypeInv, TypeOK, settings, market, debts

(* Moving up to what the sender has keeps every balance of a token natural. *)
LEMMA MoveType ==
    ASSUME NEW b \in [Accounts -> Nat], NEW from \in Accounts, NEW to \in Accounts,
           NEW x \in Nat, x <= b[from]
    PROVE  Move(b, from, to, x) \in [Accounts -> Nat]
  BY DEF Move

LEMMA TransferType ==
    ASSUME TypeInv, NEW from \in Users, NEW to \in Users, NEW r \in Reserves,
           NEW amount \in Nat, Transfer(from, to, r, amount)
    PROVE  TypeInv'
  <1> DEFINE scaled == RayDiv(amount, liquidityIndex[r])
  <1>1. scaled \in Nat
    BY ScaledType DEF TypeInv
  <1>2. Sound'
    BY DEF Transfer, TypeInv, Sound, settings
  <1>3. /\ scaled <= scaledBalance[r][from]
        /\ scaledBalance' = [scaledBalance EXCEPT ![r] = Move(@, from, to, scaled)]
    BY DEF Transfer
  <1>4. Move(scaledBalance[r], from, to, scaled) \in [Accounts -> Nat]
    BY <1>1, <1>3, MoveType DEF TypeInv, TypeOK, Accounts
  <1>5. scaledBalance' \in [Reserves -> [Accounts -> Nat]]
    BY <1>3, <1>4 DEF TypeInv, TypeOK
  <1>6. usingAsCollateral' \in [Users -> SUBSET Reserves]
    BY DEF Transfer, TypeInv, TypeOK
  <1> QED
    BY <1>2, <1>5, <1>6 DEF Transfer, TypeInv, TypeOK, settings, market, debts

LEMMA SwitchType ==
    ASSUME TypeInv, NEW u \in Users, NEW r \in Reserves, NEW use \in BOOLEAN,
           SetUserUseReserveAsCollateral(u, r, use)
    PROVE  TypeInv'
  <1>1. Sound'
    BY DEF SetUserUseReserveAsCollateral, TypeInv, Sound, settings
  <1>2. usingAsCollateral' \in [Users -> SUBSET Reserves]
    BY DEF SetUserUseReserveAsCollateral, TypeInv, TypeOK
  <1> QED
    BY <1>1, <1>2 DEF SetUserUseReserveAsCollateral, TypeInv, TypeOK, settings, market, debts

(* What MintDebt and BurnDebt leave behind are amounts of debt. *)
DebtsType ==
    /\ scaledDebt \in [Reserves -> [Users -> Nat]]
    /\ stableDebt \in [Reserves -> [Users -> Nat]]

LEMMA MintDebtType ==
    ASSUME TypeOK, NEW u \in Users, NEW r \in Reserves, NEW amount \in Nat, NEW mode,
           MintDebt(u, r, amount, mode)
    PROVE  DebtsType'
  <1> DEFINE scaled == RayDiv(amount, variableIndex[r])
  <1>1. /\ scaledDebt \in [Reserves -> [Users -> Nat]]
        /\ stableDebt \in [Reserves -> [Users -> Nat]]
    BY DEF TypeOK
  <1>2. scaled \in Nat
    BY ScaledType
  <1>3. CASE mode = "stable"
    <2>1. /\ stableDebt' = [stableDebt EXCEPT ![r][u] = stableDebt[r][u] + amount]
          /\ scaledDebt' = scaledDebt
      BY <1>3 DEF MintDebt
    <2>2. stableDebt[r][u] + amount \in Nat
      BY <1>1
    <2> QED
      BY <1>1, <2>1, <2>2, UpdateType DEF DebtsType
  <1>4. CASE mode = "variable"
    <2>1. /\ scaledDebt' = [scaledDebt EXCEPT ![r][u] = scaledDebt[r][u] + scaled]
          /\ stableDebt' = stableDebt
      BY <1>4 DEF MintDebt
    <2>2. scaledDebt[r][u] + scaled \in Nat
      BY <1>1, <1>2
    <2> QED
      BY <1>1, <2>1, <2>2, UpdateType DEF DebtsType
  <1> QED
    BY <1>3, <1>4 DEF MintDebt

LEMMA BurnDebtType ==
    ASSUME TypeOK, NEW u \in Users, NEW r \in Reserves, NEW amount \in Nat, NEW mode,
           BurnDebt(u, r, amount, mode)
    PROVE  DebtsType'
  <1> DEFINE scaled == RayDiv(amount, variableIndex[r])
  <1>1. /\ scaledDebt \in [Reserves -> [Users -> Nat]]
        /\ stableDebt \in [Reserves -> [Users -> Nat]]
    BY DEF TypeOK
  <1>2. scaled \in Nat
    BY ScaledType
  <1>3. CASE mode = "stable"
    <2>1. /\ amount <= stableDebt[r][u]
          /\ stableDebt' = [stableDebt EXCEPT ![r][u] = stableDebt[r][u] - amount]
          /\ scaledDebt' = scaledDebt
      BY <1>3 DEF BurnDebt
    <2>2. stableDebt[r][u] - amount \in Nat
      BY <1>1, <2>1
    <2> QED
      BY <1>1, <2>1, <2>2, UpdateType DEF DebtsType
  <1>4. CASE mode = "variable"
    <2>1. /\ scaled <= scaledDebt[r][u]
          /\ scaledDebt' = [scaledDebt EXCEPT ![r][u] = scaledDebt[r][u] - scaled]
          /\ stableDebt' = stableDebt
      BY <1>4 DEF BurnDebt
    <2>2. scaledDebt[r][u] - scaled \in Nat
      BY <1>1, <1>2, <2>1
    <2> QED
      BY <1>1, <2>1, <2>2, UpdateType DEF DebtsType
  <1> QED
    BY <1>3, <1>4 DEF BurnDebt

LEMMA CeilingType ==
    ASSUME TypeOK, NEW r \in Reserves, NEW amount \in Nat
    PROVE  CeilingAmount(r, amount) \in Nat
  <1>1. config[r].debtUnit \in Nat \ {0}
    BY DEF TypeOK, ReserveConfiguration
  <1> QED
    BY <1>1, DivBounds DEF CeilingAmount

LEMMA BorrowType ==
    ASSUME TypeInv, NEW u \in Users, NEW c, NEW r \in Reserves, NEW amount \in Nat, NEW mode,
           NEW release \in BOOLEAN, BorrowAs(u, c, r, amount, mode, release)
    PROVE  TypeInv'
  <1> DEFINE taken == IF release THEN amount ELSE 0
  <1>1. Sound'
    BY DEF BorrowAs, TypeInv, Sound, settings
  <1>2. DebtsType'
    BY MintDebtType DEF BorrowAs, TypeInv
  <1>3. borrowing' \in [Users -> SUBSET Reserves]
    BY DEF BorrowAs, TypeInv, TypeOK
  <1>4. isolationModeTotalDebt' \in [Reserves -> Nat]
    BY CeilingType DEF BorrowAs, TypeInv, TypeOK
  <1>5. /\ taken <= availableLiquidity[r]
        /\ availableLiquidity' = [availableLiquidity EXCEPT ![r] = @ - taken]
    BY DEF BorrowAs
  <1>6. availableLiquidity' \in [Reserves -> Nat]
    BY <1>5 DEF TypeInv, TypeOK
  <1> QED
    BY <1>1, <1>2, <1>3, <1>4, <1>6
       DEF BorrowAs, TypeInv, TypeOK, DebtsType, settings, market

LEMMA IsolatedRepaymentType ==
    ASSUME TypeOK, NEW collateral, NEW r \in Reserves, NEW repaid \in Nat
    PROVE  IsolatedDebtAfterRepayment(collateral, r, repaid) \in [Reserves -> Nat]
  <1>1. CeilingAmount(r, repaid) \in Nat
    BY CeilingType
  <1>2. \A k \in Reserves :
            isolationModeTotalDebt[k] - Least(isolationModeTotalDebt[k], CeilingAmount(r, repaid)) \in Nat
    BY <1>1 DEF TypeOK, Least
  <1> QED
    BY <1>2 DEF IsolatedDebtAfterRepayment, TypeOK

LEMMA RepayDebtType ==
    ASSUME TypeInv, NEW u \in Users, NEW r \in Reserves, NEW payback \in Nat, NEW mode,
           RepayDebt(u, r, payback, mode)
    PROVE  /\ DebtsType'
           /\ borrowing' \in [Users -> SUBSET Reserves]
           /\ isolationModeTotalDebt' \in [Reserves -> Nat]
  <1>1. DebtsType'
    BY BurnDebtType DEF RepayDebt, TypeInv
  <1>2. borrowing' \in [Users -> SUBSET Reserves]
    BY DEF RepayDebt, TypeInv, TypeOK
  <1>3. isolationModeTotalDebt' \in [Reserves -> Nat]
    BY IsolatedRepaymentType DEF RepayDebt, TypeInv
  <1> QED
    BY <1>1, <1>2, <1>3

LEMMA DebtOfType ==
    ASSUME TypeOK, NEW u \in Users, NEW r \in Reserves, NEW mode
    PROVE  DebtOf(u, r, mode) \in Nat
  <1>1. stableDebt[r][u] \in Nat
    BY DEF TypeOK
  <1> QED
    BY <1>1, VariableDebtType DEF DebtOf

LEMMA LeastType ==
    ASSUME NEW a \in Nat, NEW b \in Nat
    PROVE  /\ Least(a, b) \in Nat
           /\ Least(a, b) <= a
           /\ Least(a, b) <= b
  BY DEF Least

LEMMA RepayType ==
    ASSUME TypeInv, NEW u \in Users, NEW r \in Reserves, NEW amount \in Nat, NEW mode,
           Repay(u, r, amount, mode)
    PROVE  TypeInv'
  <1> DEFINE payback == Least(amount, DebtOf(u, r, mode))
  <1>1. payback \in Nat
    BY LeastType, DebtOfType DEF TypeInv
  <1>2. Sound'
    BY DEF Repay, TypeInv, Sound, settings
  <1>3. RepayDebt(u, r, payback, mode)
    BY DEF Repay
  <1>4. /\ DebtsType'
        /\ borrowing' \in [Users -> SUBSET Reserves]
        /\ isolationModeTotalDebt' \in [Reserves -> Nat]
    BY <1>1, <1>3, RepayDebtType
  <1>5. availableLiquidity' \in [Reserves -> Nat]
    BY <1>1 DEF Repay, TypeInv, TypeOK
  <1> QED
    BY <1>2, <1>4, <1>5 DEF Repay, TypeInv, TypeOK, DebtsType, settings, market

LEMMA RepayWithRSTokensType ==
    ASSUME TypeInv, NEW u \in Users, NEW r \in Reserves, NEW amount \in Nat, NEW mode,
           RepayWithRSTokens(u, r, amount, mode)
    PROVE  TypeInv'
  <1> DEFINE offered == IF amount = MaxUint THEN Balance(u, r) ELSE amount
             payback == Least(offered, DebtOf(u, r, mode))
             scaled == RayDiv(payback, liquidityIndex[r])
  <1>1. payback \in Nat
    BY LeastType, DebtOfType, BalanceType DEF TypeInv, Accounts
  <1>2. scaled \in Nat
    BY <1>1, ScaledType DEF TypeInv
  <1>3. Sound'
    BY DEF RepayWithRSTokens, TypeInv, Sound, settings
  <1>4. /\ RepayDebt(u, r, payback, mode)
        /\ scaled <= scaledBalance[r][u]
        /\ scaledBalance' = [scaledBalance EXCEPT ![r][u] = scaledBalance[r][u] - scaled]
    BY DEF RepayWithRSTokens
  <1>5. /\ DebtsType'
        /\ borrowing' \in [Users -> SUBSET Reserves]
        /\ isolationModeTotalDebt' \in [Reserves -> Nat]
    BY <1>1, <1>4, RepayDebtType
  <1>6. scaledBalance' \in [Reserves -> [Accounts -> Nat]]
    <2>1. /\ u \in Accounts
          /\ scaledBalance \in [Reserves -> [Accounts -> Nat]]
      BY DEF TypeInv, TypeOK, Accounts
    <2>2. scaledBalance[r][u] - scaled \in Nat
      BY <1>2, <1>4, <2>1
    <2> QED
      BY <1>4, <2>1, <2>2, UpdateType
  <1> QED
    BY <1>3, <1>5, <1>6 DEF RepayWithRSTokens, TypeInv, TypeOK, DebtsType, settings, market

(* The whole variable debt of a user scales back to the whole scaled debt. *)
LEMMA WholeDebt ==
    ASSUME TypeOK, NEW u \in Users, NEW r \in Reserves
    PROVE  RayDiv(VariableDebt(u, r), variableIndex[r]) = scaledDebt[r][u]
  <1>1. /\ scaledDebt[r][u] \in Nat
        /\ variableIndex[r] \in Nat
        /\ variableIndex[r] >= RAY
    BY DEF TypeOK
  <1> QED
    BY <1>1, RoundTrip DEF VariableDebt

LEMMA SwapType ==
    ASSUME TypeInv, NEW u \in Users, NEW r \in Reserves, NEW mode,
           SwapBorrowRateMode(u, r, mode)
    PROVE  TypeInv'
  <1>1. Sound'
    BY DEF SwapBorrowRateMode, TypeInv, Sound, settings
  <1>2. /\ scaledDebt \in [Reserves -> [Users -> Nat]]
        /\ stableDebt \in [Reserves -> [Users -> Nat]]
    BY DEF TypeInv, TypeOK
  <1>3. mode = "stable" => DebtsType'
    <2> HAVE mode = "stable"
    <2>1. /\ stableDebt' = [stableDebt EXCEPT ![r][u] = 0]
          /\ scaledDebt' = [scaledDebt EXCEPT
                 ![r][u] = scaledDebt[r][u] + RayDiv(stableDebt[r][u], variableIndex[r])]
      BY DEF SwapBorrowRateMode
    <2>2. RayDiv(stableDebt[r][u], variableIndex[r]) \in Nat
      BY <1>2, ScaledType DEF TypeInv
    <2>3. scaledDebt[r][u] + RayDiv(stableDebt[r][u], variableIndex[r]) \in Nat
      BY <1>2, <2>2
    <2> QED
      BY <1>2, <2>1, <2>3, UpdateType DEF DebtsType
  <1>4. mode # "stable" => DebtsType'
    <2> HAVE mode # "stable"
    <2>1. /\ stableDebt' = [stableDebt EXCEPT ![r][u] = stableDebt[r][u] + VariableDebt(u, r)]
          /\ scaledDebt' = [scaledDebt EXCEPT
                 ![r][u] = scaledDebt[r][u] - RayDiv(VariableDebt(u, r), variableIndex[r])]
      BY DEF SwapBorrowRateMode
    <2>2. scaledDebt[r][u] - RayDiv(VariableDebt(u, r), variableIndex[r]) = 0
      BY <1>2, WholeDebt DEF TypeInv
    <2>3. stableDebt[r][u] + VariableDebt(u, r) \in Nat
      BY <1>2, VariableDebtType DEF TypeInv
    <2> QED
      BY <1>2, <2>1, <2>2, <2>3, UpdateType DEF DebtsType
  <1>5. DebtsType'
    BY <1>3, <1>4
  <1> QED
    BY <1>1, <1>5 DEF SwapBorrowRateMode, TypeInv, TypeOK, DebtsType, settings, market, flags

(* What a liquidation takes is never more than the collateral there is. *)
LEMMA LiquidationAmountsType ==
    ASSUME TypeInv, NEW u \in Users, NEW c \in Reserves, NEW d \in Reserves,
           NEW toCover \in Nat, config[c].liquidationThreshold # 0
    PROVE  /\ LiquidationAmounts(u, c, d, toCover).collateral \in Nat
           /\ LiquidationAmounts(u, c, d, toCover).fee \in Nat
           /\ LiquidationAmounts(u, c, d, toCover).debt \in Nat
           /\ LiquidationAmounts(u, c, d, toCover).collateral
                  + LiquidationAmounts(u, c, d, toCover).fee <= Balance(u, c)
  <1> DEFINE collateralPrice == AssetPrice(c, eMode[u])
             debtPrice == BorrowPrice(d, eMode[u])
             bonus == LiquidationBonus(u, c)
             balance == Balance(u, c)
             wanted == PercentMul((debtPrice * toCover) \div collateralPrice, bonus)
             collateral == Least(wanted, balance)
             profit == collateral - PercentDiv(collateral, bonus)
             fee == PercentMul(profit, config[c].liquidationProtocolFee)
             least == PercentDiv((collateralPrice * balance) \div debtPrice, bonus)
  <1>1. EModePrice(eMode[u]) \in Nat
    <2>1. CASE eMode[u] = 0 \/ categories[eMode[u]].priceSource = NoSource
      BY <2>1 DEF EModePrice
    <2>2. CASE eMode[u] # 0 /\ categories[eMode[u]].priceSource # NoSource
      <3>1. categories[eMode[u]] \in EModeCategory
        BY <2>2 DEF TypeInv, TypeOK
      <3>2. categories[eMode[u]].priceSource \in PriceSources
        BY <2>2, <3>1 DEF EModeCategory
      <3> QED
        BY <2>2, <3>2 DEF EModePrice, TypeInv, TypeOK
    <2> QED
      BY <2>1, <2>2
  <1>2. /\ collateralPrice \in Nat \ {0}
        /\ debtPrice \in Nat \ {0}
    BY <1>1 DEF AssetPrice, BorrowPrice, TypeInv, TypeOK
  <1>3. bonus \in Nat /\ bonus > PERCENTAGE_FACTOR
    <2>1. CASE IsInEModeCategory(c, eMode[u])
      <3>1. /\ eMode[u] # 0
            /\ eMode[u] \in Categories
        BY <2>1 DEF IsInEModeCategory, TypeInv, TypeOK
      <3>2. /\ categories[eMode[u]] \in EModeCategory
            /\ Collateralizable(categories[eMode[u]])
            /\ categories[eMode[u]].liquidationThreshold # 0
        BY <3>1, InitialAssumption DEF TypeInv, TypeOK, Sound
      <3> QED
        BY <2>1, <3>2 DEF LiquidationBonus, EModeCategory, Collateralizable
    <2>2. CASE ~IsInEModeCategory(c, eMode[u])
      <3>1. /\ config[c] \in ReserveConfiguration
            /\ Collateralizable(config[c])
        BY InitialAssumption DEF TypeInv, TypeOK, Sound
      <3> QED
        BY <2>2, <3>1 DEF LiquidationBonus, ReserveConfiguration, Collateralizable
    <2> QED
      BY <2>1, <2>2
  <1>4. bonus \in Nat \ {0} /\ bonus >= PERCENTAGE_FACTOR
    BY <1>3, UnitAssumption, SMT
  <1>5. /\ config[c].liquidationProtocolFee \in Nat
        /\ config[c].liquidationProtocolFee <= PERCENTAGE_FACTOR
    <2>1. config[c].liquidationProtocolFee \in 0 .. PERCENTAGE_FACTOR
      BY DEF TypeInv, TypeOK, ReserveConfiguration
    <2> QED
      BY <2>1, UnitAssumption
  <1>6. balance \in Nat
    BY BalanceType DEF TypeInv, Accounts
  <1>7. wanted \in Nat
    <2>1. debtPrice * toCover \in Nat
      BY <1>2, SMT
    <2>2. (debtPrice * toCover) \div collateralPrice \in Nat
      BY <1>2, <2>1, DivBounds
    <2> QED
      BY <1>4, <2>2, PercentMulType
  <1>8. collateral \in Nat /\ collateral <= balance
    BY <1>6, <1>7, LeastType
  <1>9. profit \in Nat /\ profit <= collateral
    <2>1. PercentDiv(collateral, bonus) \in Nat
      BY <1>4, <1>8, PercentDivType
    <2>2. PercentDiv(collateral, bonus) <= collateral
      BY <1>4, <1>8, PercentDivBound
    <2> QED
      BY <1>8, <2>1, <2>2
  <1>10. fee \in Nat /\ fee <= profit
    BY <1>5, <1>9, PercentMulType, PercentMulBound
  <1>11. collateral - fee \in Nat
    BY <1>8, <1>9, <1>10
  <1>12. least \in Nat
    <2>1. collateralPrice * balance \in Nat
      BY <1>2, <1>6, SMT
    <2>2. (collateralPrice * balance) \div debtPrice \in Nat
      BY <1>2, <2>1, DivBounds
    <2> QED
      BY <1>4, <2>2, PercentDivType
  <1>13. LiquidationAmounts(u, c, d, toCover) =
             [collateral |-> collateral - fee, fee |-> fee,
              debt |-> IF wanted > balance THEN least ELSE toCover]
    BY DEF LiquidationAmounts
  <1> HIDE DEF collateral, fee, least, wanted
  <1>14. collateral - fee + fee <= balance
    BY <1>6, <1>8, <1>10
  <1> QED
    BY <1>10, <1>11, <1>12, <1>13, <1>14

LEMMA MaxLiquidatableType ==
    ASSUME TypeInv, NEW u \in Users, NEW d \in Reserves
    PROVE  MaxLiquidatableDebt(u, d) \in Nat
  <1>1. /\ DEFAULT_LIQUIDATION_CLOSE_FACTOR \in Nat
        /\ PERCENTAGE_FACTOR \in Nat
    BY UnitAssumption, HalfBounds DEF DEFAULT_LIQUIDATION_CLOSE_FACTOR
  <1>2. Debt(u, d) \in Nat
    BY VariableDebtType DEF TypeInv
  <1> QED
    BY <1>1, <1>2, PercentMulType DEF MaxLiquidatableDebt

LEMMA BurnLiquidatedType ==
    ASSUME TypeOK, NEW u \in Users, NEW d \in Reserves, NEW amount \in Nat,
           BurnLiquidatedDebt(u, d, amount)
    PROVE  DebtsType'
  <1> DEFINE variable == Least(amount, VariableDebt(u, d))
             scaled == RayDiv(variable, variableIndex[d])
  <1>1. /\ scaledDebt \in [Reserves -> [Users -> Nat]]
        /\ stableDebt \in [Reserves -> [Users -> Nat]]
    BY DEF TypeOK
  <1>2. variable \in Nat /\ scaled \in Nat
    BY VariableDebtType, LeastType, ScaledType
  <1>3. /\ scaled <= scaledDebt[d][u]
        /\ amount - variable <= stableDebt[d][u]
        /\ scaledDebt' = [scaledDebt EXCEPT ![d][u] = scaledDebt[d][u] - scaled]
        /\ stableDebt' = [stableDebt EXCEPT ![d][u] = stableDebt[d][u] - (amount - variable)]
    BY DEF BurnLiquidatedDebt
  <1>4. /\ scaledDebt[d][u] - scaled \in Nat
        /\ stableDebt[d][u] - (amount - variable) \in Nat
    BY <1>1, <1>2, <1>3
  <1> QED
    BY <1>1, <1>3, <1>4, UpdateType DEF DebtsType

LEMMA LiquidationType ==
    ASSUME TypeInv, NEW l \in Users, NEW u \in Users, NEW c \in Reserves, NEW d \in Reserves,
           NEW cover \in Nat, NEW receive \in BOOLEAN,
           LiquidationCall(l, u, c, d, cover, receive)
    PROVE  TypeInv'
  <1> DEFINE amounts == LiquidationAmounts(u, c, d, Least(cover, MaxLiquidatableDebt(u, d)))
             taken == RayDiv(amounts.collateral, liquidityIndex[c])
             afterTake == IF receive THEN Move(scaledBalance[c], u, l, taken)
                          ELSE [scaledBalance[c] EXCEPT ![u] = @ - taken]
             feeTaken == Least(RayDiv(amounts.fee, liquidityIndex[c]), afterTake[u])
             paidOut == IF receive THEN 0 ELSE amounts.collateral
  <1>1. Sound'
    BY DEF LiquidationCall, TypeInv, Sound, settings
  <1>2. /\ amounts.collateral \in Nat
        /\ amounts.fee \in Nat
        /\ amounts.debt \in Nat
    <2>1. Least(cover, MaxLiquidatableDebt(u, d)) \in Nat
      BY MaxLiquidatableType, LeastType
    <2>2. config[c].liquidationThreshold # 0
      BY DEF LiquidationCall, ValidLiquidation
    <2> QED
      BY <2>1, <2>2, LiquidationAmountsType
  <1> HIDE DEF amounts
  <1>3. taken \in Nat /\ RayDiv(amounts.fee, liquidityIndex[c]) \in Nat
    BY <1>2, ScaledType DEF TypeInv
  <1>4. taken <= scaledBalance[c][u]
    BY DEF LiquidationCall, amounts
  <1>5. u \in Accounts /\ l \in Accounts /\ Treasury \in Accounts
    BY DEF Accounts
  <1>6. scaledBalance \in [Reserves -> [Accounts -> Nat]]
    BY DEF TypeInv, TypeOK
  <1>7. afterTake \in [Accounts -> Nat]
    <2>1. CASE receive
      BY <2>1, <1>3, <1>4, <1>5, <1>6, MoveType
    <2>2. CASE ~receive
      <3>1. scaledBalance[c][u] - taken \in Nat
        BY <1>3, <1>4, <1>5, <1>6
      <3> QED
        BY <2>2, <3>1, <1>6
    <2> QED
      BY <2>1, <2>2
  <1>8. scaledBalance' \in [Reserves -> [Accounts -> Nat]]
    <2> HIDE DEF taken, afterTake
    <2>1. feeTaken \in Nat /\ feeTaken <= afterTake[u]
      BY <1>3, <1>5, <1>7, LeastType
    <2>2. Move(afterTake, u, Treasury, feeTaken) \in [Accounts -> Nat]
      BY <2>1, <1>5, <1>7, MoveType
    <2>3. scaledBalance' = [scaledBalance EXCEPT ![c] = Move(afterTake, u, Treasury, feeTaken)]
      BY DEF LiquidationCall, amounts, afterTake, taken
    <2> QED
      BY <2>2, <2>3, <1>6
  <1>9. DebtsType'
    <2>1. BurnLiquidatedDebt(u, d, amounts.debt)
      BY DEF LiquidationCall, amounts
    <2> QED
      BY <2>1, <1>2, BurnLiquidatedType DEF TypeInv
  <1>10. /\ borrowing' \in [Users -> SUBSET Reserves]
         /\ usingAsCollateral' \in [Users -> SUBSET Reserves]
    BY DEF LiquidationCall, TypeInv, TypeOK
  <1>11. isolationModeTotalDebt' \in [Reserves -> Nat]
    <2>1. PICK collateral : isolationModeTotalDebt' =
                                IsolatedDebtAfterRepayment(collateral, d, amounts.debt)
      BY DEF LiquidationCall, amounts
    <2> QED
      BY <2>1, <1>2, IsolatedRepaymentType DEF TypeInv
  <1>12. availableLiquidity' \in [Reserves -> Nat]
    <2>1. paidOut \in Nat /\ paidOut <= availableLiquidity[c]
      BY <1>2 DEF LiquidationCall, amounts, TypeInv, TypeOK
    <2>2. availableLiquidity' = [r \in Reserves |->
              availableLiquidity[r] - (IF r = c THEN paidOut ELSE 0)
                                    + (IF r = d THEN amounts.debt ELSE 0)]
      BY DEF LiquidationCall, amounts
    <2>3. \A r \in Reserves : availableLiquidity[r] \in Nat
      BY DEF TypeInv, TypeOK
    <2> HIDE DEF paidOut
    <2> QED
      BY <2>1, <2>2, <2>3, <1>2
  <1> QED
    BY <1>1, <1>8, <1>9, <1>10, <1>11, <1>12
       DEF LiquidationCall, TypeInv, TypeOK, DebtsType, settings, market

LEMMA EModeType ==
    ASSUME TypeInv, NEW u \in Users, NEW c \in Categories \cup {0}, SetUserEMode(u, c)
    PROVE  TypeInv'
  <1>1. /\ eMode' = [eMode EXCEPT ![u] = c]
        /\ c # 0 => categories[c].liquidationThreshold # 0
        /\ UNCHANGED settings
    BY DEF SetUserEMode, ValidSetUserEMode
  <1>2. eMode' \in [Users -> Categories \cup {0}]
    BY <1>1 DEF TypeInv, TypeOK
  <1>3. Sound'
    BY <1>1 DEF TypeInv, TypeOK, Sound, settings
  <1> QED
    BY <1>2, <1>3 DEF SetUserEMode, TypeInv, TypeOK, settings, market, debts, flags

LEMMA EnvironmentType ==
    ASSUME TypeInv, Environment
    PROVE  TypeInv'
  <1>1. CASE \E s \in Reserves \cup PriceSources : \E p \in PriceMoves[s] : SetPrice(s, p)
    <2>1. PICK s \in Reserves \cup PriceSources : \E p \in Nat \ {0} : SetPrice(s, p)
      BY <1>1, RequestAssumption
    <2>2. PICK p \in Nat \ {0} : SetPrice(s, p)
      BY <2>1
    <2>3. price' \in [Reserves \cup PriceSources -> Nat \ {0}]
      BY <2>2 DEF SetPrice, TypeInv, TypeOK
    <2> QED
      BY <2>2, <2>3 DEF SetPrice, TypeInv, TypeOK, Sound, settings, positions, debts, flags
  <1>2. CASE SetSentinel
    BY <1>2 DEF SetSentinel, TypeInv, TypeOK, Sound, settings, positions, debts, flags
  <1>3. CASE \E r \in Reserves, earned, charged \in {0, 1}, growth \in [Users -> {0, 1}] :
                 Accrue(r, earned, charged, growth)
    <2>1. PICK r \in Reserves, earned \in {0, 1}, charged \in {0, 1}, growth \in [Users -> {0, 1}] :
              Accrue(r, earned, charged, growth)
      BY <1>3
    <2> DEFINE Index == {i \in Nat : i >= RAY}
    <2>2. \A i \in Index : i + earned \in Index /\ i + charged \in Index
      BY UnitAssumption, SMT
    <2>3. liquidityIndex' \in [Reserves -> Index] /\ variableIndex' \in [Reserves -> Index]
      <3> HIDE DEF Index
      <3>1. liquidityIndex \in [Reserves -> Index] /\ variableIndex \in [Reserves -> Index]
        BY DEF TypeInv, TypeOK, Index
      <3> QED
        BY <2>1, <2>2, <3>1 DEF Accrue
    <2>4. stableDebt' \in [Reserves -> [Users -> Nat]]
      <3>1. stableDebt \in [Reserves -> [Users -> Nat]]
        BY DEF TypeInv, TypeOK
      <3>2. stableDebt' = [stableDebt EXCEPT ![r] = [u \in Users |->
                IF stableDebt[r][u] = 0 THEN 0 ELSE stableDebt[r][u] + growth[u]]]
        BY <2>1, <3>1 DEF Accrue
      <3>3. [u \in Users |-> IF stableDebt[r][u] = 0 THEN 0 ELSE stableDebt[r][u] + growth[u]]
                \in [Users -> Nat]
        BY <3>1
      <3> QED
        BY <3>1, <3>2, <3>3
    <2> QED
      BY <2>1, <2>3, <2>4 DEF Accrue, TypeInv, TypeOK, Sound, settings, flags
  <1> QED
    BY <1>1, <1>2, <1>3 DEF Environment

LEMMA RequestType ==
    ASSUME NEW r \in Reserves, NEW amount \in Requests(r)
    PROVE  amount \in Nat
  BY RequestAssumption, NamesAssumption DEF Requests

LEMMA UserStepType ==
    ASSUME TypeInv, NEW u \in Users, NEW r \in Reserves, UserStep(u, r)
    PROVE  TypeInv'
  <1>1. \A amount \in Amounts[r] \cup Requests(r) : amount \in Nat
    BY RequestAssumption, NamesAssumption DEF Requests
  <1>2. CASE \E caller \in {u} \cup IsolatedSuppliers, amount \in Amounts[r] :
                 Supply(caller, u, r, amount)
    BY <1>1, <1>2, SupplyType
  <1>3. CASE \E amount \in Requests(r), forgo \in BOOLEAN : Withdraw(u, r, amount, forgo)
    BY <1>1, <1>3, WithdrawType
  <1>4. CASE \E to \in Users, amount \in Amounts[r] : Transfer(u, to, r, amount)
    BY <1>1, <1>4, TransferType
  <1>5. CASE \E use \in BOOLEAN : SetUserUseReserveAsCollateral(u, r, use)
    BY <1>5, SwitchType
  <1>6. CASE \E amount \in Amounts[r], mode \in Modes : Borrow(u, r, amount, mode)
    BY <1>1, <1>6, BorrowType DEF Borrow
  <1>7. CASE \E amount \in Requests(r), mode \in Modes : Repay(u, r, amount, mode)
    BY <1>1, <1>7, RepayType
  <1>8. CASE \E amount \in Requests(r), mode \in Modes : RepayWithRSTokens(u, r, amount, mode)
    BY <1>1, <1>8, RepayWithRSTokensType
  <1>9. CASE \E mode \in Modes : SwapBorrowRateMode(u, r, mode)
    BY <1>9, SwapType
  <1> QED
    BY <1>2, <1>3, <1>4, <1>5, <1>6, <1>7, <1>8, <1>9 DEF UserStep

LEMMA StepType == TypeInv /\ [Next]_vars => TypeInv'
  <1> SUFFICES ASSUME TypeInv, [Next]_vars PROVE TypeInv'
    OBVIOUS
  <1>1. CASE \E u \in Users, r \in Reserves : UserStep(u, r)
    BY <1>1, UserStepType
  <1>2. CASE \E u \in Users, c \in Categories \cup {0} : SetUserEMode(u, c)
    BY <1>2, EModeType
  <1>3. CASE Liquidate
    <2>1. PICK l \in Users, u \in Users, c \in Reserves, d \in Reserves, receive \in BOOLEAN,
               cover \in Nat : LiquidationCall(l, u, c, d, cover, receive)
      BY <1>3, RequestType DEF Liquidate
    <2> QED
      BY <2>1, LiquidationType
  <1>4. CASE Environment
    BY <1>4, EnvironmentType
  <1>5. CASE UNCHANGED vars
    BY <1>5 DEF TypeInv, TypeOK, Sound, vars, settings, market, debts, flags
  <1> QED
    BY <1>1, <1>2, <1>3, <1>4, <1>5 DEF Next

(***************************************************************************)
(* TypeOK holds in every reachable state, whatever the reserves, their     *)
(* configuration, the prices and the amounts asked for: in particular the  *)
(* subtractions of Withdraw, RepayDebt, SwapBorrowRateMode and             *)
(* LiquidationCall never go below zero, the fee and the payment of a       *)
(* liquidation together never exceed the seized collateral, and indexes    *)
(* stay at one ray or more.                                                *)
(***************************************************************************)
THEOREM TypeCorrect == Spec => []TypeOK
  <1>1. Spec => []TypeInv
    BY InitType, StepType, PTL DEF Spec
  <1>2. TypeInv => TypeOK
    BY DEF TypeInv
  <1> QED
    BY <1>1, <1>2, PTL
=============================================================================
