------------------------- MODULE PoolProperties_proofs -------------------------
(***************************************************************************)
(* Theorems about positions, for every pool. Of the bits of                *)
(* UserConfiguration: the borrowing bits show every debt, and isolated     *)
(* collateral, siloed debt and the debt of eMode users are where the       *)
(* validations want them. Of the amounts: claims are backed, debts do not  *)
(* grow in the sentinel's grace period, the books are a ledger, and debts  *)
(* that count against a ceiling are counted exactly.                       *)
(***************************************************************************)
EXTENDS LendingPool_proofs

-----------------------------------------------------------------------------
(* Every debt is flagged. *)

FlagInv == TypeInv /\ DebtIsFlagged

(* Nothing scaled is no debt, and the other way round. *)
LEMMA NoDebt ==
    ASSUME TypeOK, NEW u \in Users, NEW r \in Reserves
    PROVE  VariableDebt(u, r) = 0 <=> scaledDebt[r][u] = 0
  <1>1. /\ scaledDebt[r][u] \in Nat
        /\ variableIndex[r] \in Nat \ {0}
        /\ RAY \in Nat \ {0}
    BY UnitAssumption, SMT DEF TypeOK
  <1>2. ASSUME scaledDebt[r][u] = 0 PROVE VariableDebt(u, r) = 0
    <2>1. (RAY \div 2) \in Nat /\ RAY \div 2 < RAY
      BY <1>1, HalfBounds
    <2>2. (RAY \div 2) \div RAY = 0
      BY <1>1, <2>1, DivUnique
    <2>3. 0 * variableIndex[r] + (RAY \div 2) = RAY \div 2
      BY <1>1, <2>1
    <2> QED
      BY <1>2, <2>2, <2>3 DEF VariableDebt, RayMul
  <1>3. ASSUME VariableDebt(u, r) = 0 PROVE scaledDebt[r][u] = 0
    <2> DEFINE i == variableIndex[r]
    <2>1. (i \div 2) \in Nat /\ i \div 2 < i
      BY <1>1, HalfBounds
    <2>2. (i \div 2) \div i = 0
      BY <1>1, <2>1, DivUnique
    <2>3. 0 * RAY + (i \div 2) = i \div 2
      BY <1>1, <2>1
    <2>4. RayDiv(0, i) = 0
      BY <2>2, <2>3 DEF RayDiv
    <2> QED
      BY <1>3, <2>4, WholeDebt
  <1> QED
    BY <1>2, <1>3

LEMMA BorrowFlags ==
    ASSUME FlagInv, NEW u \in Users, NEW c, NEW r \in Reserves, NEW amount \in Nat, NEW mode,
           NEW release \in BOOLEAN, BorrowAs(u, c, r, amount, mode, release)
    PROVE  DebtIsFlagged'
  <1>1. /\ scaledDebt \in [Reserves -> [Users -> Nat]]
        /\ stableDebt \in [Reserves -> [Users -> Nat]]
        /\ borrowing \in [Users -> SUBSET Reserves]
    BY DEF FlagInv, TypeInv, TypeOK
  <1>2. \A v \in Users : borrowing[v] \subseteq borrowing'[v]
    BY <1>1 DEF BorrowAs
  <1>3. r \in borrowing'[u]
    <2>1. CASE mode = "stable"
      BY <2>1, <1>1 DEF BorrowAs, FlagInv, DebtIsFlagged
    <2>2. CASE mode # "stable"
      BY <2>2, <1>1 DEF BorrowAs, FlagInv, DebtIsFlagged
    <2> QED
      BY <2>1, <2>2
  <1>4. \A v \in Users, s \in Reserves : v # u \/ s # r =>
            scaledDebt'[s][v] = scaledDebt[s][v] /\ stableDebt'[s][v] = stableDebt[s][v]
    BY <1>1 DEF BorrowAs, MintDebt
  <1> QED
    BY <1>2, <1>3, <1>4 DEF FlagInv, DebtIsFlagged

(* Only the whole debt of both modes clears the bit, and then all of it, to the
   last scaled unit, has been burnt. *)
LEMMA RepayDebtFlags ==
    ASSUME FlagInv, NEW u \in Users, NEW r \in Reserves, NEW payback \in Nat, NEW mode,
           payback <= DebtOf(u, r, mode), RepayDebt(u, r, payback, mode)
    PROVE  DebtIsFlagged'
  <1>1. /\ scaledDebt \in [Reserves -> [Users -> Nat]]
        /\ stableDebt \in [Reserves -> [Users -> Nat]]
        /\ borrowing \in [Users -> SUBSET Reserves]
    BY DEF FlagInv, TypeInv, TypeOK
  <1>2. TypeOK /\ BurnDebt(u, r, payback, mode)
    BY DEF FlagInv, TypeInv, RepayDebt
  <1>3. VariableDebt(u, r) \in Nat /\ stableDebt[r][u] \in Nat
    BY <1>1, <1>2, VariableDebtType
  <1>4. r \in borrowing[u]
    BY <1>2, NoDebt DEF RepayDebt, DebtOf, FlagInv, DebtIsFlagged
  <1>5. \A v \in Users, s \in Reserves : v # u \/ s # r =>
            /\ scaledDebt'[s][v] = scaledDebt[s][v] /\ stableDebt'[s][v] = stableDebt[s][v]
            /\ s \in borrowing[v] => s \in borrowing'[v]
    BY <1>1, <1>2 DEF RepayDebt, BurnDebt
  <1>6. CASE Debt(u, r) # payback
    <2>1. r \in borrowing'[u]
      BY <1>4, <1>6 DEF RepayDebt
    <2> QED
      BY <1>5, <2>1 DEF FlagInv, DebtIsFlagged
  <1>7. CASE Debt(u, r) = payback
    <2>1. scaledDebt'[r][u] = 0 /\ stableDebt'[r][u] = 0
      <3>1. CASE mode = "stable"
        <4>1. VariableDebt(u, r) = 0 /\ payback = stableDebt[r][u]
          BY <1>3, <1>7, <3>1 DEF Debt, DebtOf
        <4>2. scaledDebt[r][u] = 0
          BY <1>2, <4>1, NoDebt
        <4>3. /\ scaledDebt' = scaledDebt
              /\ stableDebt' = [stableDebt EXCEPT ![r][u] = stableDebt[r][u] - payback]
          BY <1>2, <3>1 DEF BurnDebt
        <4> QED
          BY <1>1, <1>3, <4>1, <4>2, <4>3
      <3>2. CASE mode = "variable"
        <4>1. stableDebt[r][u] = 0 /\ payback = VariableDebt(u, r)
          BY <1>3, <1>7, <3>2 DEF Debt, DebtOf
        <4>2. RayDiv(payback, variableIndex[r]) = scaledDebt[r][u]
          BY <1>2, <4>1, WholeDebt
        <4>3. /\ stableDebt' = stableDebt
              /\ scaledDebt' = [scaledDebt EXCEPT
                     ![r][u] = scaledDebt[r][u] - RayDiv(payback, variableIndex[r])]
          BY <1>2, <3>2 DEF BurnDebt
        <4>4. scaledDebt[r][u] - RayDiv(payback, variableIndex[r]) = 0
          BY <1>1, <4>2
        <4> QED
          BY <1>1, <4>1, <4>3, <4>4
      <3> QED
        BY <1>2, <3>1, <3>2 DEF BurnDebt
    <2> QED
      BY <1>5, <2>1 DEF FlagInv, DebtIsFlagged
  <1> QED
    BY <1>6, <1>7

LEMMA SwapFlags ==
    ASSUME FlagInv, NEW u \in Users, NEW r \in Reserves, NEW mode,
           SwapBorrowRateMode(u, r, mode)
    PROVE  DebtIsFlagged'
  <1>1. /\ scaledDebt \in [Reserves -> [Users -> Nat]]
        /\ stableDebt \in [Reserves -> [Users -> Nat]]
    BY DEF FlagInv, TypeInv, TypeOK
  <1>2. r \in borrowing[u]
    BY NoDebt DEF SwapBorrowRateMode, ValidSwapRateMode, DebtOf, FlagInv, TypeInv, DebtIsFlagged
  <1>3. \A v \in Users, s \in Reserves : v # u \/ s # r =>
            scaledDebt'[s][v] = scaledDebt[s][v] /\ stableDebt'[s][v] = stableDebt[s][v]
    BY <1>1 DEF SwapBorrowRateMode
  <1>4. borrowing' = borrowing
    BY DEF SwapBorrowRateMode, flags
  <1> QED
    BY <1>2, <1>3, <1>4 DEF FlagInv, DebtIsFlagged

(* Variable debt first, stable debt for the rest: the whole debt is both. *)
LEMMA LiquidationFlags ==
    ASSUME FlagInv, NEW l \in Users, NEW u \in Users, NEW c \in Reserves, NEW d \in Reserves,
           NEW cover \in Nat, NEW receive \in BOOLEAN,
           LiquidationCall(l, u, c, d, cover, receive)
    PROVE  DebtIsFlagged'
  <1> DEFINE amount == LiquidationAmounts(u, c, d, Least(cover, MaxLiquidatableDebt(u, d))).debt
             variable == Least(amount, VariableDebt(u, d))
             scaled == RayDiv(variable, variableIndex[d])
  <1>1. /\ scaledDebt \in [Reserves -> [Users -> Nat]]
        /\ stableDebt \in [Reserves -> [Users -> Nat]]
        /\ borrowing \in [Users -> SUBSET Reserves]
        /\ TypeOK
    BY DEF FlagInv, TypeInv, TypeOK
  <1>2. VariableDebt(u, d) \in Nat /\ stableDebt[d][u] \in Nat
    BY <1>1, VariableDebtType
  <1>3. amount \in Nat
    <2>1. Least(cover, MaxLiquidatableDebt(u, d)) \in Nat
      BY MaxLiquidatableType, LeastType DEF FlagInv
    <2>2. config[c].liquidationThreshold # 0
      BY DEF LiquidationCall, ValidLiquidation
    <2> QED
      BY <2>1, <2>2, LiquidationAmountsType DEF FlagInv
  <1>4. /\ Debt(u, d) # 0
        /\ scaledDebt' = [scaledDebt EXCEPT ![d][u] = scaledDebt[d][u] - scaled]
        /\ stableDebt' = [stableDebt EXCEPT ![d][u] = stableDebt[d][u] - (amount - variable)]
        /\ borrowing' = IF Debt(u, d) = amount
                        THEN [borrowing EXCEPT ![u] = @ \ {d}] ELSE borrowing
    BY DEF LiquidationCall, ValidLiquidation, BurnLiquidatedDebt
  <1> HIDE DEF amount
  <1>5. d \in borrowing[u]
    <2>1. VariableDebt(u, d) # 0 \/ stableDebt[d][u] # 0
      BY <1>2, <1>4 DEF Debt
    <2> QED
      BY <2>1, <1>1, NoDebt DEF FlagInv, DebtIsFlagged
  <1>6. \A v \in Users, s \in Reserves : v # u \/ s # d =>
            /\ scaledDebt'[s][v] = scaledDebt[s][v] /\ stableDebt'[s][v] = stableDebt[s][v]
            /\ s \in borrowing[v] => s \in borrowing'[v]
    BY <1>1, <1>4
  <1>7. CASE Debt(u, d) # amount
    BY <1>4, <1>5, <1>6, <1>7 DEF FlagInv, DebtIsFlagged
  <1>8. CASE Debt(u, d) = amount
    <2>1. amount = VariableDebt(u, d) + stableDebt[d][u]
      BY <1>8 DEF Debt
    <2>2. variable = VariableDebt(u, d)
      BY <1>2, <2>1 DEF Least
    <2>3. scaled = scaledDebt[d][u]
      BY <1>1, <2>2, WholeDebt
    <2> HIDE DEF scaled, variable
    <2>4. /\ scaledDebt[d][u] - scaled = 0
          /\ stableDebt[d][u] - (amount - variable) = 0
      BY <1>1, <1>2, <2>1, <2>2, <2>3
    <2>5. scaledDebt'[d][u] = 0 /\ stableDebt'[d][u] = 0
      BY <1>1, <1>4, <2>4
    <2> QED
      BY <1>6, <2>5 DEF FlagInv, DebtIsFlagged
  <1> QED
    BY <1>7, <1>8

LEMMA AccrueFlags ==
    ASSUME FlagInv, NEW r \in Reserves, NEW earned, NEW charged, NEW growth,
           Accrue(r, earned, charged, growth)
    PROVE  DebtIsFlagged'
  <1>1. stableDebt \in [Reserves -> [Users -> Nat]]
    BY DEF FlagInv, TypeInv, TypeOK
  <1>2. \A v \in Users, s \in Reserves : stableDebt[s][v] = 0 => stableDebt'[s][v] = 0
    BY <1>1 DEF Accrue
  <1>3. scaledDebt' = scaledDebt /\ borrowing' = borrowing
    BY DEF Accrue, flags
  <1> QED
    BY <1>2, <1>3 DEF FlagInv, DebtIsFlagged

LEMMA UserStepFlags ==
    ASSUME FlagInv, NEW u \in Users, NEW r \in Reserves, UserStep(u, r)
    PROVE  DebtIsFlagged'
  <1>1. CASE UNCHANGED <<debts, borrowing>>
    BY <1>1 DEF FlagInv, DebtIsFlagged, debts
  <1>2. CASE \E amount \in Amounts[r], mode \in Modes : Borrow(u, r, amount, mode)
    BY <1>2, RequestAssumption, BorrowFlags DEF Borrow
  <1>3. CASE \E amount \in Requests(r), mode \in Modes : Repay(u, r, amount, mode)
    <2>1. PICK amount \in Nat, mode \in Modes : Repay(u, r, amount, mode)
      BY <1>3, RequestType
    <2> DEFINE payback == Least(amount, DebtOf(u, r, mode))
    <2>2. payback \in Nat /\ payback <= DebtOf(u, r, mode)
      BY LeastType, DebtOfType DEF FlagInv, TypeInv
    <2>3. RepayDebt(u, r, payback, mode)
      BY <2>1 DEF Repay
    <2> QED
      BY <2>2, <2>3, RepayDebtFlags
  <1>4. CASE \E amount \in Requests(r), mode \in Modes : RepayWithRSTokens(u, r, amount, mode)
    <2>1. PICK amount \in Nat, mode \in Modes : RepayWithRSTokens(u, r, amount, mode)
      BY <1>4, RequestType
    <2> DEFINE offered == IF amount = MaxUint THEN Balance(u, r) ELSE amount
               payback == Least(offered, DebtOf(u, r, mode))
    <2>2. payback \in Nat /\ payback <= DebtOf(u, r, mode)
      BY LeastType, DebtOfType, BalanceType DEF FlagInv, TypeInv, Accounts
    <2>3. RepayDebt(u, r, payback, mode)
      BY <2>1 DEF RepayWithRSTokens
    <2> QED
      BY <2>2, <2>3, RepayDebtFlags
  <1>5. CASE \E mode \in Modes : SwapBorrowRateMode(u, r, mode)
    BY <1>5, SwapFlags
  <1> QED
    BY <1>1, <1>2, <1>3, <1>4, <1>5
       DEF UserStep, Supply, Withdraw, Transfer, SetUserUseReserveAsCollateral

LEMMA StepFlags == FlagInv /\ [Next]_vars => DebtIsFlagged'
  <1> SUFFICES ASSUME FlagInv, [Next]_vars PROVE DebtIsFlagged'
    OBVIOUS
  <1>1. CASE \E u \in Users, r \in Reserves : UserStep(u, r)
    BY <1>1, UserStepFlags
  <1>2. CASE UNCHANGED <<debts, borrowing>>
    BY <1>2 DEF FlagInv, DebtIsFlagged, debts
  <1>3. CASE Liquidate
    <2>1. PICK l \in Users, u \in Users, c \in Reserves, d \in Reserves, receive \in BOOLEAN,
               cover \in Nat : LiquidationCall(l, u, c, d, cover, receive)
      BY <1>3, RequestType DEF Liquidate
    <2> QED
      BY <2>1, LiquidationFlags
  <1>4. CASE \E r \in Reserves, earned, charged \in {0, 1}, growth \in [Users -> {0, 1}] :
               Accrue(r, earned, charged, growth)
    BY <1>4, AccrueFlags
  <1>5. CASE \E u \in Users, c \in Categories \cup {0} : SetUserEMode(u, c)
    BY <1>2, <1>5 DEF SetUserEMode, flags
  <1>6. CASE \E s \in Reserves \cup PriceSources : \E p \in PriceMoves[s] : SetPrice(s, p)
    BY <1>2, <1>6 DEF SetPrice, positions, flags
  <1>7. CASE SetSentinel
    BY <1>2, <1>7 DEF SetSentinel, positions, flags
  <1>8. CASE UNCHANGED vars
    BY <1>2, <1>8 DEF vars, flags
  <1> QED
    BY <1>1, <1>3, <1>4, <1>5, <1>6, <1>7, <1>8 DEF Next, Environment

(***************************************************************************)
(* No debt escapes the health factor, for every index, amount and unit:    *)
(* repayments and liquidations compare unscaled amounts and burn rounded,  *)
(* scaled ones, yet the bit they clear never has debt left behind it.  The *)
(* argument is that RayDiv undoes RayMul (RoundTrip) at an index of at     *)
(* least one ray (TypeOK).                                                 *)
(***************************************************************************)
THEOREM DebtAlwaysFlagged == Spec => []DebtIsFlagged
  <1>1. Init => FlagInv
    BY InitType DEF Init, FlagInv, DebtIsFlagged
  <1>2. FlagInv /\ [Next]_vars => FlagInv'
    BY StepType, StepFlags DEF FlagInv
  <1>3. FlagInv => DebtIsFlagged
    BY DEF FlagInv
  <1> QED
    BY <1>1, <1>2, <1>3, PTL DEF Spec

-----------------------------------------------------------------------------
(* Isolated collateral is alone. *)

CollateralInv == TypeInv /\ IsolatedCollateralIsAlone

(* The guard of every way into the collateral bits. *)
LEMMA NewCollateral ==
    ASSUME CollateralInv, NEW u \in Users, NEW r \in Reserves, ValidUseAsCollateral(u, r)
    PROVE  \A k \in usingAsCollateral[u] \cup {r} :
               config[k].debtCeiling # 0 => usingAsCollateral[u] \cup {r} = {k}
  <1>1. CASE usingAsCollateral[u] = {}
    BY <1>1
  <1>2. CASE usingAsCollateral[u] # {}
    <2>1. ~IsolationModeActive(u) /\ config[r].debtCeiling = 0
      BY <1>2 DEF ValidUseAsCollateral
    <2>2. \A k \in usingAsCollateral[u] : config[k].debtCeiling = 0
      BY <2>1 DEF IsolationModeActive, IsolationCollateral, CollateralInv,
                  IsolatedCollateralIsAlone
    <2> QED
      BY <2>1, <2>2
  <1> QED
    BY <1>1, <1>2

(* Bits are cleared, or one is set under that guard. *)
CollateralStep(u) ==
    \/ usingAsCollateral'[u] \subseteq usingAsCollateral[u]
    \/ \E r \in Reserves : /\ ValidUseAsCollateral(u, r)
                           /\ usingAsCollateral'[u] = usingAsCollateral[u] \cup {r}

LEMMA CollateralSteps ==
    ASSUME CollateralInv, config' = config, \A u \in Users : CollateralStep(u)
    PROVE  IsolatedCollateralIsAlone'
  <1> SUFFICES ASSUME NEW u \in Users, NEW k \in usingAsCollateral'[u],
                      config[k].debtCeiling # 0
               PROVE  usingAsCollateral'[u] = {k}
    BY DEF IsolatedCollateralIsAlone
  <1>1. CASE usingAsCollateral'[u] \subseteq usingAsCollateral[u]
    BY <1>1 DEF CollateralInv, IsolatedCollateralIsAlone
  <1>2. CASE ~(usingAsCollateral'[u] \subseteq usingAsCollateral[u])
    <2>1. PICK r \in Reserves : /\ ValidUseAsCollateral(u, r)
                                /\ usingAsCollateral'[u] = usingAsCollateral[u] \cup {r}
      BY <1>2 DEF CollateralStep
    <2> QED
      BY <2>1, NewCollateral
  <1> QED
    BY <1>1, <1>2

LEMMA UserStepCollateral ==
    ASSUME CollateralInv, NEW u \in Users, NEW r \in Reserves, UserStep(u, r)
    PROVE  \A v \in Users : CollateralStep(v)
  <1>1. usingAsCollateral \in [Users -> SUBSET Reserves]
    BY DEF CollateralInv, TypeInv, TypeOK
  <1>2. CASE UNCHANGED usingAsCollateral
    BY <1>2 DEF CollateralStep
  <1>3. CASE \E caller \in {u} \cup IsolatedSuppliers, amount \in Amounts[r] :
                 Supply(caller, u, r, amount)
    BY <1>1, <1>3 DEF Supply, AutomaticUseAsCollateral, CollateralStep
  <1>4. CASE \E amount \in Requests(r), forgo \in BOOLEAN : Withdraw(u, r, amount, forgo)
    BY <1>1, <1>4 DEF Withdraw, CollateralStep
  <1>5. CASE \E to \in Users, amount \in Amounts[r] : Transfer(u, to, r, amount)
    BY <1>1, <1>5 DEF Transfer, AutomaticUseAsCollateral, CollateralStep
  <1>6. CASE \E use \in BOOLEAN : SetUserUseReserveAsCollateral(u, r, use)
    BY <1>1, <1>6 DEF SetUserUseReserveAsCollateral, CollateralStep
  <1> QED
    BY <1>2, <1>3, <1>4, <1>5, <1>6
       DEF UserStep, Borrow, BorrowAs, Repay, RepayWithRSTokens, SwapBorrowRateMode, flags

LEMMA LiquidationCollateral ==
    ASSUME CollateralInv, NEW l \in Users, NEW u \in Users, NEW c \in Reserves,
           NEW d \in Reserves, NEW cover, NEW receive,
           LiquidationCall(l, u, c, d, cover, receive)
    PROVE  \A v \in Users : CollateralStep(v)
  <1>1. usingAsCollateral \in [Users -> SUBSET Reserves]
    BY DEF CollateralInv, TypeInv, TypeOK
  <1>2. PICK ofU \in {usingAsCollateral[u], usingAsCollateral[u] \ {c}},
             ofL \in {usingAsCollateral[l], usingAsCollateral[l] \cup {c}} :
            /\ ofL # usingAsCollateral[l] => ValidUseAsCollateral(l, c)
            /\ usingAsCollateral' = [usingAsCollateral EXCEPT ![l] = ofL, ![u] = ofU]
    BY DEF LiquidationCall, AutomaticUseAsCollateral
  <1> QED
    BY <1>1, <1>2 DEF CollateralStep

(* The configuration is fixed in LendingPool: only the admins change it. *)
LEMMA FixedSettings ==
    ASSUME [Next]_vars
    PROVE  UNCHANGED settings
  <1>1. CASE \E u \in Users, r \in Reserves : UserStep(u, r)
    BY <1>1 DEF UserStep, Supply, Withdraw, Transfer, SetUserUseReserveAsCollateral, Borrow,
                BorrowAs, Repay, RepayWithRSTokens, SwapBorrowRateMode
  <1>2. CASE \E u \in Users, c \in Categories \cup {0} : SetUserEMode(u, c)
    BY <1>2 DEF SetUserEMode
  <1>3. CASE Liquidate
    BY <1>3 DEF Liquidate, LiquidationCall
  <1>4. CASE Environment
    BY <1>4 DEF Environment, SetPrice, SetSentinel, Accrue
  <1>5. CASE UNCHANGED vars
    BY <1>5 DEF vars
  <1> QED
    BY <1>1, <1>2, <1>3, <1>4, <1>5 DEF Next

LEMMA StepCollateral == CollateralInv /\ [Next]_vars => IsolatedCollateralIsAlone'
  <1> SUFFICES ASSUME CollateralInv, [Next]_vars PROVE \A v \in Users : CollateralStep(v)
    BY CollateralSteps, FixedSettings DEF settings
  <1>1. CASE \E u \in Users, r \in Reserves : UserStep(u, r)
    BY <1>1, UserStepCollateral
  <1>2. CASE Liquidate
    <2>1. PICK l \in Users, u \in Users, c \in Reserves, d \in Reserves, receive \in BOOLEAN,
               cover \in Nat : LiquidationCall(l, u, c, d, cover, receive)
      BY <1>2, RequestType DEF Liquidate
    <2> QED
      BY <2>1, LiquidationCollateral
  <1>3. CASE UNCHANGED usingAsCollateral
    BY <1>3 DEF CollateralStep
  <1>4. CASE \E u \in Users, c \in Categories \cup {0} : SetUserEMode(u, c)
    BY <1>3, <1>4 DEF SetUserEMode, flags
  <1>5. CASE Environment
    BY <1>3, <1>5 DEF Environment, SetPrice, SetSentinel, Accrue, positions, flags
  <1>6. CASE UNCHANGED vars
    BY <1>3, <1>6 DEF vars, flags
  <1> QED
    BY <1>1, <1>2, <1>4, <1>5, <1>6 DEF Next

(***************************************************************************)
(* Isolated collateral is alone, whichever of supply, transfer, switch and *)
(* liquidation set the bits and in whatever order, as long as nobody       *)
(* changes debt ceilings.                                                  *)
(***************************************************************************)
THEOREM IsolationHolds == Spec => []IsolatedCollateralIsAlone
  <1>1. Init => CollateralInv
    BY InitType DEF Init, CollateralInv, IsolatedCollateralIsAlone
  <1>2. CollateralInv /\ [Next]_vars => CollateralInv'
    BY StepType, StepCollateral DEF CollateralInv
  <1>3. CollateralInv => IsolatedCollateralIsAlone
    BY DEF CollateralInv
  <1> QED
    BY <1>1, <1>2, <1>3, PTL DEF Spec

-----------------------------------------------------------------------------
(* Siloed debt is alone, and eMode users borrow in their category. *)

BorrowingInv == TypeInv /\ SiloedDebtIsAlone /\ EModeDebtInCategory

(* Borrowing bits are cleared, or a validated borrow sets one. *)
BorrowingStep(u) ==
    \/ borrowing'[u] \subseteq borrowing[u]
    \/ \E r, amount, mode :
           /\ r \in Reserves
           /\ ValidBorrow(u, eMode[u], r, amount, mode)
           /\ borrowing'[u] = borrowing[u] \cup {r}

(* What the silo asks of every new bit. *)
SiloStep(u) ==
    \/ borrowing'[u] \subseteq borrowing[u]
    \/ \E r \in Reserves : /\ RespectsSilo(u, r)
                           /\ borrowing'[u] = borrowing[u] \cup {r}

LEMMA SiloSteps ==
    ASSUME SiloedDebtIsAlone, config' = config, \A u \in Users : SiloStep(u)
    PROVE  SiloedDebtIsAlone'
  <1> SUFFICES ASSUME NEW u \in Users, NEW k \in borrowing'[u], config[k].siloed
               PROVE  borrowing'[u] = {k}
    BY DEF SiloedDebtIsAlone
  <1>1. CASE borrowing'[u] \subseteq borrowing[u]
    BY <1>1 DEF SiloedDebtIsAlone
  <1>2. CASE ~(borrowing'[u] \subseteq borrowing[u])
    <2>1. PICK r \in Reserves : /\ RespectsSilo(u, r)
                                /\ borrowing'[u] = borrowing[u] \cup {r}
      BY <1>2 DEF SiloStep
    <2>2. CASE borrowing[u] = {}
      BY <2>1, <2>2
    <2>3. CASE borrowing[u] # {} /\ SiloedBorrowing(u) # {}
      BY <2>1, <2>3 DEF RespectsSilo, SiloedBorrowing, SiloedDebtIsAlone
    <2>4. CASE borrowing[u] # {} /\ SiloedBorrowing(u) = {}
      BY <2>1, <2>4 DEF RespectsSilo, SiloedBorrowing, SiloedDebtIsAlone
    <2> QED
      BY <2>2, <2>3, <2>4
  <1> QED
    BY <1>1, <1>2

LEMMA UserStepBorrowing ==
    ASSUME TypeOK, NEW u \in Users, NEW r \in Reserves, UserStep(u, r)
    PROVE  (\A v \in Users : BorrowingStep(v)) /\ eMode' = eMode
  <1>1. borrowing \in [Users -> SUBSET Reserves]
    BY DEF TypeOK
  <1>2. CASE \E amount \in Amounts[r], mode \in Modes : Borrow(u, r, amount, mode)
    BY <1>1, <1>2 DEF Borrow, BorrowAs, BorrowingStep
  <1>3. CASE \E payback, mode : RepayDebt(u, r, payback, mode) /\ UNCHANGED eMode
    BY <1>1, <1>3 DEF RepayDebt, BorrowingStep
  <1>4. CASE UNCHANGED <<borrowing, eMode>>
    BY <1>4 DEF BorrowingStep
  <1>5. CASE \E amount \in Requests(r), mode \in Modes : Repay(u, r, amount, mode)
    BY <1>3, <1>5 DEF Repay
  <1>6. CASE \E amount \in Requests(r), mode \in Modes : RepayWithRSTokens(u, r, amount, mode)
    BY <1>3, <1>6 DEF RepayWithRSTokens
  <1> QED
    BY <1>2, <1>4, <1>5, <1>6 DEF UserStep, Supply, Withdraw, Transfer,
       SetUserUseReserveAsCollateral, SwapBorrowRateMode, flags

LEMMA LiquidationBorrowing ==
    ASSUME TypeOK, Liquidate
    PROVE  (\A v \in Users : BorrowingStep(v)) /\ eMode' = eMode
  <1>1. borrowing \in [Users -> SUBSET Reserves]
    BY DEF TypeOK
  <1> QED
    BY <1>1 DEF Liquidate, LiquidationCall, BorrowingStep

(* Every step leaves the categories, or the bits, of all users alone. *)
LEMMA BorrowingOfNext ==
    ASSUME TypeOK, [Next]_vars
    PROVE  \/ (\A v \in Users : BorrowingStep(v)) /\ eMode' = eMode
           \/ \E u \in Users, c \in Categories \cup {0} : SetUserEMode(u, c)
  <1>1. CASE UNCHANGED <<borrowing, eMode>>
    BY <1>1 DEF BorrowingStep
  <1>2. CASE \E u \in Users, r \in Reserves : UserStep(u, r)
    BY <1>2, UserStepBorrowing
  <1>3. CASE Environment
    BY <1>1, <1>3 DEF Environment, SetPrice, SetSentinel, Accrue, positions, flags
  <1>4. CASE UNCHANGED vars
    BY <1>1, <1>4 DEF vars, flags
  <1> QED
    BY <1>2, <1>3, <1>4, LiquidationBorrowing DEF Next

LEMMA SiloOfNext ==
    ASSUME TypeOK, SiloedDebtIsAlone, [Next]_vars
    PROVE  SiloedDebtIsAlone'
  <1>1. config' = config
    BY FixedSettings DEF settings
  <1>2. CASE \A v \in Users : BorrowingStep(v)
    BY <1>1, <1>2, SiloSteps DEF BorrowingStep, ValidBorrow, SiloStep
  <1>3. CASE \E u \in Users, c \in Categories \cup {0} : SetUserEMode(u, c)
    BY <1>1, <1>3 DEF SetUserEMode, flags, SiloedDebtIsAlone
  <1> QED
    BY <1>2, <1>3, BorrowingOfNext

LEMMA EModeOfNext ==
    ASSUME TypeOK, EModeDebtInCategory, [Next]_vars
    PROVE  EModeDebtInCategory'
  <1>1. config' = config
    BY FixedSettings DEF settings
  <1>2. CASE (\A v \in Users : BorrowingStep(v)) /\ eMode' = eMode
    <2> SUFFICES ASSUME NEW u \in Users, NEW k \in borrowing'[u], eMode[u] # 0
                 PROVE  config[k].eModeCategory = eMode[u]
      BY <1>1, <1>2 DEF EModeDebtInCategory
    <2>1. CASE k \in borrowing[u]
      BY <2>1 DEF EModeDebtInCategory
    <2>2. CASE k \notin borrowing[u]
      BY <1>2, <2>2 DEF BorrowingStep, ValidBorrow
    <2> QED
      BY <2>1, <2>2
  <1>3. CASE \E u \in Users, c \in Categories \cup {0} : SetUserEMode(u, c)
    <2>1. PICK u \in Users, c \in Categories \cup {0} : SetUserEMode(u, c)
      BY <1>3
    <2>2. /\ eMode' = [eMode EXCEPT ![u] = c]
          /\ c # 0 => \A r \in borrowing[u] : config[r].eModeCategory = c
          /\ borrowing' = borrowing
      BY <2>1 DEF SetUserEMode, ValidSetUserEMode, flags
    <2>3. eMode \in [Users -> Categories \cup {0}]
      BY DEF TypeOK
    <2> QED
      BY <1>1, <2>2, <2>3 DEF EModeDebtInCategory
  <1> QED
    BY <1>2, <1>3, BorrowingOfNext

LEMMA BorrowingInductive == Spec => []BorrowingInv
  <1>1. Init => BorrowingInv
    BY InitType DEF Init, BorrowingInv, SiloedDebtIsAlone, EModeDebtInCategory
  <1>2. BorrowingInv /\ [Next]_vars => BorrowingInv'
    BY StepType, SiloOfNext, EModeOfNext DEF BorrowingInv, TypeInv
  <1> QED
    BY <1>1, <1>2, PTL DEF Spec

(***************************************************************************)
(* A user who borrows a siloed asset borrows nothing else, whatever was    *)
(* borrowed first, as long as nobody changes which assets are siloed.      *)
(***************************************************************************)
THEOREM SiloedHolds == Spec => []SiloedDebtIsAlone
  <1>1. BorrowingInv => SiloedDebtIsAlone
    BY DEF BorrowingInv
  <1> QED
    BY <1>1, BorrowingInductive, PTL

(***************************************************************************)
(* "When in eMode, debt will always be in the same eMode category"         *)
(* (LiquidationLogic), as long as nobody reassigns an asset: borrowing in  *)
(* eMode and entering eMode with debt both keep it.                        *)
(***************************************************************************)
THEOREM EModeHolds == Spec => []EModeDebtInCategory
  <1>1. BorrowingInv => EModeDebtInCategory
    BY DEF BorrowingInv
  <1> QED
    BY <1>1, BorrowingInductive, PTL

-----------------------------------------------------------------------------
(* The books: what a transaction does to the totals of each reserve, while all
   indexes are at one ray. *)

NothingAccrues == \A r \in Reserves : MaxIndex[r] = RAY

Flat == \A r \in Reserves : liquidityIndex[r] = RAY /\ variableIndex[r] = RAY

LEMMA FlatAmounts ==
    ASSUME TypeOK, Flat, NEW r \in Reserves
    PROVE  /\ \A n \in Nat : /\ RayDiv(n, liquidityIndex[r]) = n
                             /\ RayDiv(n, variableIndex[r]) = n
                             /\ RayMul(n, liquidityIndex[r]) = n
                             /\ RayMul(n, variableIndex[r]) = n
           /\ \A a \in Accounts : Balance(a, r) = scaledBalance[r][a]
           /\ \A u \in Users : /\ VariableDebt(u, r) = scaledDebt[r][u]
                               /\ Debt(u, r) = scaledDebt[r][u] + stableDebt[r][u]
  <1>1. /\ liquidityIndex[r] = RAY /\ variableIndex[r] = RAY
        /\ \A a \in Accounts : scaledBalance[r][a] \in Nat
        /\ \A u \in Users : scaledDebt[r][u] \in Nat
    BY DEF Flat, TypeOK
  <1> QED
    BY <1>1, AtOneRay DEF Balance, VariableDebt, Debt

(* Debts are what they are scaled to already when the debt indexes stand at one
   ray; the income indexes may have been raised, as by the premiums of flash loans. *)
FlatDebts == \A r \in Reserves : variableIndex[r] = RAY

LEMMA DebtAmounts ==
    ASSUME TypeOK, FlatDebts, NEW r \in Reserves
    PROVE  /\ \A n \in Nat : /\ RayDiv(n, variableIndex[r]) = n
                             /\ RayMul(n, variableIndex[r]) = n
           /\ \A u \in Users : /\ VariableDebt(u, r) = scaledDebt[r][u]
                               /\ Debt(u, r) = scaledDebt[r][u] + stableDebt[r][u]
  <1>1. variableIndex[r] = RAY /\ \A u \in Users : scaledDebt[r][u] \in Nat
    BY DEF FlatDebts, TypeOK
  <1> QED
    BY <1>1, AtOneRay DEF VariableDebt, Debt

LEMMA FlatIsFlat == Flat => FlatDebts
  BY DEF Flat, FlatDebts

LEMMA FiniteAccounts == IsFiniteSet(Users) /\ IsFiniteSet(Accounts)
  BY NamesAssumption, FS_AddElement DEF Accounts

Owed(r) == TotalScaledDebt(r) + TotalStableDebt(r)

(* The totals are sums over the tables' rows. *)
LEMMA Totals ==
    ASSUME TypeOK, NEW r \in Reserves
    PROVE  /\ TotalSupplyScaled(r) = SumFunctionOnSet(scaledBalance[r], Accounts)
           /\ TotalScaledDebt(r) = SumFunctionOnSet(scaledDebt[r], Users)
           /\ TotalStableDebt(r) = SumFunctionOnSet(stableDebt[r], Users)
           /\ TotalSupplyScaled(r) \in Nat
           /\ TotalScaledDebt(r) \in Nat /\ TotalStableDebt(r) \in Nat
           /\ Owed(r) \in Nat
  <1>1. /\ scaledBalance[r] \in [Accounts -> Nat]
        /\ scaledDebt[r] \in [Users -> Nat]
        /\ stableDebt[r] \in [Users -> Nat]
    BY DEF TypeOK
  <1>2. /\ [a \in Accounts |-> scaledBalance[r][a]] = scaledBalance[r]
        /\ [u \in Users |-> scaledDebt[r][u]] = scaledDebt[r]
        /\ [u \in Users |-> stableDebt[r][u]] = stableDebt[r]
    BY <1>1
  <1>3. /\ TotalSupplyScaled(r) = SumFunctionOnSet(scaledBalance[r], Accounts)
        /\ TotalScaledDebt(r) = SumFunctionOnSet(scaledDebt[r], Users)
        /\ TotalStableDebt(r) = SumFunctionOnSet(stableDebt[r], Users)
    BY <1>2 DEF TotalSupplyScaled, TotalScaledDebt, TotalStableDebt, SumOver
  <1>4. /\ SumFunctionOnSet(scaledBalance[r], Accounts) \in Nat
        /\ SumFunctionOnSet(scaledDebt[r], Users) \in Nat
        /\ SumFunctionOnSet(stableDebt[r], Users) \in Nat
    BY <1>1, FiniteAccounts, SumType
  <1> QED
    BY <1>3, <1>4 DEF Owed

LEMMA NextTotals ==
    ASSUME TypeOK', NEW r \in Reserves
    PROVE  /\ TotalSupplyScaled(r)' = SumFunctionOnSet(scaledBalance'[r], Accounts)
           /\ TotalScaledDebt(r)' = SumFunctionOnSet(scaledDebt'[r], Users)
           /\ TotalStableDebt(r)' = SumFunctionOnSet(stableDebt'[r], Users)
           /\ TotalSupplyScaled(r)' \in Nat
           /\ TotalScaledDebt(r)' \in Nat /\ TotalStableDebt(r)' \in Nat
           /\ Owed(r)' = TotalScaledDebt(r)' + TotalStableDebt(r)'
  <1>1. /\ scaledBalance'[r] \in [Accounts -> Nat]
        /\ scaledDebt'[r] \in [Users -> Nat]
        /\ stableDebt'[r] \in [Users -> Nat]
    BY DEF TypeOK
  <1>2. /\ [a \in Accounts |-> scaledBalance'[r][a]] = scaledBalance'[r]
        /\ [u \in Users |-> scaledDebt'[r][u]] = scaledDebt'[r]
        /\ [u \in Users |-> stableDebt'[r][u]] = stableDebt'[r]
    BY <1>1
  <1>3. /\ TotalSupplyScaled(r)' = SumFunctionOnSet(scaledBalance'[r], Accounts)
        /\ TotalScaledDebt(r)' = SumFunctionOnSet(scaledDebt'[r], Users)
        /\ TotalStableDebt(r)' = SumFunctionOnSet(stableDebt'[r], Users)
    BY <1>2 DEF TotalSupplyScaled, TotalScaledDebt, TotalStableDebt, SumOver
  <1>4. /\ SumFunctionOnSet(scaledBalance'[r], Accounts) \in Nat
        /\ SumFunctionOnSet(scaledDebt'[r], Users) \in Nat
        /\ SumFunctionOnSet(stableDebt'[r], Users) \in Nat
    BY <1>1, FiniteAccounts, SumType
  <1> QED
    BY <1>3, <1>4 DEF Owed

(* What a transaction does to the books of a reserve.  Claims change by what is
   added to or taken from the reserve's assets, in scaled units. *)
Assets(r) == availableLiquidity[r] + Owed(r)

Flow(r) ==
    \E x \in Nat :
        \/ /\ Assets(r)' = Assets(r) + x
           /\ TotalSupplyScaled(r)' = TotalSupplyScaled(r) + RayDiv(x, liquidityIndex[r])
        \/ /\ Assets(r) = Assets(r)' + x
           /\ TotalSupplyScaled(r) = TotalSupplyScaled(r)' + RayDiv(x, liquidityIndex[r])

(* Claims and debts grow only in an active reserve and within its caps. *)
WithinCaps(r) ==
    /\ TotalSupplyScaled(r)' > TotalSupplyScaled(r) =>
           /\ config[r].active
           /\ config[r].supplyCap # 0 => TotalSupplyScaled(r)' <= config[r].supplyCap
    /\ Owed(r)' > Owed(r) =>
           /\ config[r].active
           /\ config[r].borrowCap # 0 => Owed(r)' <= config[r].borrowCap

(* A withdrawal to the RSToken itself: claims go and the assets stay. *)
GivesUp(r) ==
    /\ r \in Forgoing
    /\ Assets(r)' = Assets(r)
    /\ TotalSupplyScaled(r)' <= TotalSupplyScaled(r)

FlowStep(r) == (Flow(r) \/ GivesUp(r)) /\ (Flat => WithinCaps(r))

(* The same where all indexes stand at one ray: claims change by what is moved and
   what is lent, or are given up. *)
BookStep(r) ==
    LET claimed == TotalSupplyScaled(r)' - TotalSupplyScaled(r)
        moved == (availableLiquidity'[r] - availableLiquidity[r]) + (Owed(r)' - Owed(r))
    IN  /\ claimed <= moved
        /\ r \notin Forgoing => claimed = moved
        /\ WithinCaps(r)

LEMMA AssetsType ==
    ASSUME TypeOK, NEW r \in Reserves
    PROVE  Assets(r) \in Nat /\ availableLiquidity[r] \in Nat /\ Owed(r) \in Nat
  BY Totals DEF Assets, TypeOK

LEMMA NextAssets ==
    ASSUME TypeOK', NEW r \in Reserves
    PROVE  /\ Assets(r)' = availableLiquidity'[r] + Owed(r)'
           /\ Assets(r)' \in Nat /\ availableLiquidity'[r] \in Nat /\ Owed(r)' \in Nat
  <1>1. availableLiquidity'[r] \in Nat /\ Owed(r)' \in Nat
    BY NextTotals DEF TypeOK
  <1> QED
    BY <1>1 DEF Assets

LEMMA FlatBook ==
    ASSUME TypeOK, TypeOK', Flat, NEW r \in Reserves, FlowStep(r)
    PROVE  BookStep(r)
  <1>1. /\ Assets(r) = availableLiquidity[r] + Owed(r)
        /\ availableLiquidity[r] \in Nat /\ Owed(r) \in Nat /\ TotalSupplyScaled(r) \in Nat
    BY AssetsType, Totals DEF Assets
  <1>2. /\ Assets(r)' = availableLiquidity'[r] + Owed(r)'
        /\ availableLiquidity'[r] \in Nat /\ Owed(r)' \in Nat /\ TotalSupplyScaled(r)' \in Nat
    BY NextAssets, NextTotals
  <1>3. CASE Flow(r)
    <2>1. PICK x \in Nat :
              \/ /\ Assets(r)' = Assets(r) + x
                 /\ TotalSupplyScaled(r)' = TotalSupplyScaled(r) + RayDiv(x, liquidityIndex[r])
              \/ /\ Assets(r) = Assets(r)' + x
                 /\ TotalSupplyScaled(r) = TotalSupplyScaled(r)' + RayDiv(x, liquidityIndex[r])
      BY <1>3 DEF Flow
    <2>2. RayDiv(x, liquidityIndex[r]) = x
      BY FlatAmounts
    <2>3. TotalSupplyScaled(r)' - TotalSupplyScaled(r)
              = (availableLiquidity'[r] - availableLiquidity[r]) + (Owed(r)' - Owed(r))
      BY <1>1, <1>2, <2>1, <2>2
    <2> QED
      BY <1>1, <1>2, <2>3 DEF BookStep, FlowStep
  <1>4. CASE GivesUp(r)
    <2>1. TotalSupplyScaled(r)' - TotalSupplyScaled(r)
              <= (availableLiquidity'[r] - availableLiquidity[r]) + (Owed(r)' - Owed(r))
      BY <1>1, <1>2, <1>4 DEF GivesUp
    <2> QED
      BY <1>4, <2>1 DEF BookStep, FlowStep, GivesUp
  <1> QED
    BY <1>3, <1>4 DEF FlowStep

(* The change of a total is that of the one amount that changes. *)
LEMMA SupplyChange ==
    ASSUME TypeOK, TypeOK', NEW r \in Reserves, NEW a \in Accounts,
           \A b \in Accounts : b # a => scaledBalance'[r][b] = scaledBalance[r][b]
    PROVE  TotalSupplyScaled(r)' = TotalSupplyScaled(r) - scaledBalance[r][a] + scaledBalance'[r][a]
  <1>1. scaledBalance[r] \in [Accounts -> Nat] /\ scaledBalance'[r] \in [Accounts -> Nat]
    BY DEF TypeOK
  <1>2. SumFunctionOnSet(scaledBalance'[r], Accounts)
            = SumFunctionOnSet(scaledBalance[r], Accounts) - scaledBalance[r][a] + scaledBalance'[r][a]
    BY <1>1, FiniteAccounts, SumChange
  <1> QED
    BY <1>2, Totals, NextTotals

LEMMA DebtChange ==
    ASSUME TypeOK, TypeOK', NEW r \in Reserves, NEW u \in Users,
           \A v \in Users : v # u => /\ scaledDebt'[r][v] = scaledDebt[r][v]
                                    /\ stableDebt'[r][v] = stableDebt[r][v]
    PROVE  Owed(r)' = Owed(r) - (scaledDebt[r][u] + stableDebt[r][u])
                              + (scaledDebt'[r][u] + stableDebt'[r][u])
  <1>1. /\ scaledDebt[r] \in [Users -> Nat] /\ scaledDebt'[r] \in [Users -> Nat]
        /\ stableDebt[r] \in [Users -> Nat] /\ stableDebt'[r] \in [Users -> Nat]
    BY DEF TypeOK
  <1>2. SumFunctionOnSet(scaledDebt'[r], Users)
            = SumFunctionOnSet(scaledDebt[r], Users) - scaledDebt[r][u] + scaledDebt'[r][u]
    BY <1>1, FiniteAccounts, SumChange
  <1>3. SumFunctionOnSet(stableDebt'[r], Users)
            = SumFunctionOnSet(stableDebt[r], Users) - stableDebt[r][u] + stableDebt'[r][u]
    BY <1>1, FiniteAccounts, SumChange
  <1>4. /\ scaledDebt[r][u] \in Nat /\ scaledDebt'[r][u] \in Nat
        /\ stableDebt[r][u] \in Nat /\ stableDebt'[r][u] \in Nat
    BY <1>1
  <1>5. Owed(r) = TotalScaledDebt(r) + TotalStableDebt(r)
    BY DEF Owed
  <1> QED
    BY <1>2, <1>3, <1>4, <1>5, Totals, NextTotals

(* A reserve whose tables a transaction leaves alone. *)
LEMMA SameSupply ==
    ASSUME TypeOK, TypeOK', NEW r \in Reserves, scaledBalance'[r] = scaledBalance[r]
    PROVE  TotalSupplyScaled(r)' = TotalSupplyScaled(r)
  BY Totals, NextTotals

LEMMA SameDebt ==
    ASSUME TypeOK, TypeOK', NEW r \in Reserves,
           scaledDebt'[r] = scaledDebt[r], stableDebt'[r] = stableDebt[r]
    PROVE  Owed(r)' = Owed(r)
  BY Totals, NextTotals DEF Owed

LEMMA IndexType ==
    ASSUME TypeOK, NEW r \in Reserves
    PROVE  liquidityIndex[r] \in Nat \ {0} /\ liquidityIndex[r] >= RAY
  BY UnitAssumption DEF TypeOK

LEMMA SameBooks ==
    ASSUME TypeOK, TypeOK', NEW r \in Reserves, scaledBalance'[r] = scaledBalance[r],
           scaledDebt'[r] = scaledDebt[r], stableDebt'[r] = stableDebt[r],
           availableLiquidity'[r] = availableLiquidity[r]
    PROVE  FlowStep(r) /\ BookStep(r)
  <1>1. Owed(r) \in Nat /\ TotalSupplyScaled(r) \in Nat /\ availableLiquidity[r] \in Nat
    BY Totals DEF TypeOK
  <1>2. TotalSupplyScaled(r)' = TotalSupplyScaled(r) /\ Owed(r)' = Owed(r)
    BY SameSupply, SameDebt
  <1>3. Assets(r)' = Assets(r) /\ Assets(r) \in Nat
    BY <1>1, <1>2 DEF Assets
  <1>4. RayDiv(0, liquidityIndex[r]) = 0
    BY IndexType, RayDivOfNothing
  <1>5. WithinCaps(r)
    BY <1>1, <1>2 DEF WithinCaps
  <1>6. Flow(r)
    BY <1>1, <1>2, <1>3, <1>4 DEF Flow
  <1> QED
    BY <1>1, <1>2, <1>5, <1>6 DEF FlowStep, BookStep

LEMMA FlowIn ==
    ASSUME NEW r \in Reserves, NEW x \in Nat,
           availableLiquidity'[r] + Owed(r)' = availableLiquidity[r] + Owed(r) + x,
           TotalSupplyScaled(r)' = TotalSupplyScaled(r) + RayDiv(x, liquidityIndex[r])
    PROVE  Flow(r)
  BY DEF Flow, Assets

LEMMA FlowOut ==
    ASSUME NEW r \in Reserves, NEW x \in Nat,
           availableLiquidity[r] + Owed(r) = availableLiquidity'[r] + Owed(r)' + x,
           TotalSupplyScaled(r) = TotalSupplyScaled(r)' + RayDiv(x, liquidityIndex[r])
    PROVE  Flow(r)
  BY DEF Flow, Assets

LEMMA NoFlow ==
    ASSUME TypeOK, NEW r \in Reserves, TotalSupplyScaled(r)' = TotalSupplyScaled(r),
           availableLiquidity'[r] + Owed(r)' = availableLiquidity[r] + Owed(r),
           Flat /\ Owed(r)' > Owed(r) =>
               /\ config[r].active
               /\ config[r].borrowCap # 0 => Owed(r)' <= config[r].borrowCap
    PROVE  FlowStep(r)
  <1>1. Assets(r)' = Assets(r) + 0 /\ TotalSupplyScaled(r)' = TotalSupplyScaled(r) + 0
    BY AssetsType, Totals DEF Assets
  <1>2. RayDiv(0, liquidityIndex[r]) = 0
    BY IndexType, RayDivOfNothing
  <1>3. Flow(r)
    BY <1>1, <1>2 DEF Flow
  <1>4. Flat => WithinCaps(r)
    BY Totals DEF WithinCaps
  <1> QED
    BY <1>3, <1>4 DEF FlowStep

Typed == TypeInv /\ TypeOK'

LEMMA SupplyFlow ==
    ASSUME Typed, FlatDebts, NEW caller, NEW u \in Users, NEW r \in Reserves,
           NEW amount \in Nat, Supply(caller, u, r, amount)
    PROVE  \A s \in Reserves : FlowStep(s)
  <1>1. TypeOK /\ TypeOK' /\ u \in Accounts
    BY DEF Typed, TypeInv, Accounts
  <1>2. /\ scaledBalance \in [Reserves -> [Accounts -> Nat]]
        /\ availableLiquidity \in [Reserves -> Nat]
    BY <1>1 DEF TypeOK
  <1>3. PICK scaled : scaled = RayDiv(amount, liquidityIndex[r])
    OBVIOUS
  <1>4. scaled \in Nat
    BY <1>1, <1>3, ScaledType
  <1>5. /\ scaledBalance' = [scaledBalance EXCEPT ![r][u] = @ + scaled]
        /\ availableLiquidity' = [availableLiquidity EXCEPT ![r] = @ + amount]
        /\ scaledDebt' = scaledDebt /\ stableDebt' = stableDebt
    BY <1>3 DEF Supply, debts
  <1>6. ASSUME NEW s \in Reserves, s # r PROVE FlowStep(s)
    BY <1>1, <1>2, <1>5, <1>6, SameBooks
  <1>7. FlowStep(r)
    <2>1. TotalSupplyScaled(r)' = TotalSupplyScaled(r) + scaled
      <3>1. TotalSupplyScaled(r)'
                = TotalSupplyScaled(r) - scaledBalance[r][u] + scaledBalance'[r][u]
        BY <1>1, <1>2, <1>5, SupplyChange
      <3>2. scaledBalance'[r][u] = scaledBalance[r][u] + scaled /\ scaledBalance[r][u] \in Nat
        BY <1>1, <1>2, <1>5
      <3> QED
        BY <1>4, <3>1, <3>2, <1>1, Totals
    <2>2. Owed(r)' = Owed(r) /\ Owed(r) \in Nat /\ TotalSupplyScaled(r) \in Nat
      BY <1>1, <1>5, SameDebt, Totals
    <2>3. availableLiquidity'[r] = availableLiquidity[r] + amount /\ availableLiquidity[r] \in Nat
      BY <1>2, <1>5
    <2>4. Flow(r)
      BY <1>3, <2>1, <2>2, <2>3, FlowIn
    <2>5. Flat => WithinCaps(r)
      <3>1. SUFFICES ASSUME Flat PROVE WithinCaps(r)
        OBVIOUS
      <3>2. scaled = amount /\ RayMul(TotalSupplyScaled(r), liquidityIndex[r]) = TotalSupplyScaled(r)
        BY <1>1, <1>3, <2>2, <3>1, FlatAmounts
      <3>3. /\ config[r].active
            /\ config[r].supplyCap # 0 => TotalSupplyScaled(r) + amount <= config[r].supplyCap
        BY <3>2 DEF Supply, ValidSupply, Usable
      <3> QED
        BY <2>1, <2>2, <3>2, <3>3 DEF WithinCaps
    <2> QED
      BY <2>4, <2>5 DEF FlowStep
  <1> QED
    BY <1>6, <1>7

LEMMA WithdrawFlow ==
    ASSUME Typed, FlatDebts, NEW u \in Users, NEW r \in Reserves, NEW amount \in Nat,
           NEW forgo \in BOOLEAN, forgo => r \in Forgoing, Withdraw(u, r, amount, forgo)
    PROVE  \A s \in Reserves : FlowStep(s)
  <1>1. TypeOK /\ TypeOK' /\ u \in Accounts
    BY DEF Typed, TypeInv, Accounts
  <1>2. /\ scaledBalance \in [Reserves -> [Accounts -> Nat]]
        /\ availableLiquidity \in [Reserves -> Nat]
    BY <1>1 DEF TypeOK
  <1>3. PICK withdrawn : withdrawn = IF amount = MaxUint THEN Balance(u, r) ELSE amount
    OBVIOUS
  <1>4. PICK scaled : scaled = RayDiv(withdrawn, liquidityIndex[r])
    OBVIOUS
  <1>5. withdrawn \in Nat /\ scaled \in Nat
    BY <1>1, <1>3, <1>4, BalanceType, ScaledType
  <1>6. /\ scaled <= scaledBalance[r][u] /\ withdrawn <= availableLiquidity[r]
        /\ scaledBalance' = [scaledBalance EXCEPT ![r][u] = @ - scaled]
        /\ availableLiquidity' = [availableLiquidity EXCEPT
               ![r] = @ - (IF forgo THEN 0 ELSE withdrawn)]
        /\ scaledDebt' = scaledDebt /\ stableDebt' = stableDebt
    BY <1>3, <1>4 DEF Withdraw, debts
  <1>7. ASSUME NEW s \in Reserves, s # r PROVE FlowStep(s)
    BY <1>1, <1>2, <1>6, <1>7, SameBooks
  <1>8. FlowStep(r)
    <2>1. TotalSupplyScaled(r) = TotalSupplyScaled(r)' + scaled
      <3>1. TotalSupplyScaled(r)'
                = TotalSupplyScaled(r) - scaledBalance[r][u] + scaledBalance'[r][u]
        BY <1>1, <1>2, <1>6, SupplyChange
      <3>2. scaledBalance'[r][u] = scaledBalance[r][u] - scaled /\ scaledBalance[r][u] \in Nat
        BY <1>1, <1>2, <1>6
      <3> QED
        BY <3>1, <3>2, <1>1, <1>5, Totals
    <2>2. Owed(r)' = Owed(r) /\ Owed(r) \in Nat /\ TotalSupplyScaled(r)' \in Nat
      BY <1>1, <1>6, SameDebt, Totals, NextTotals
    <2>3. /\ availableLiquidity'[r]
                 = IF forgo THEN availableLiquidity[r] ELSE availableLiquidity[r] - withdrawn
          /\ availableLiquidity[r] \in Nat
      BY <1>2, <1>5, <1>6
    <2>4. Flow(r) \/ GivesUp(r)
      <3>1. CASE forgo
        <4>1. Assets(r)' = Assets(r)
          BY <2>2, <2>3, <3>1 DEF Assets
        <4>2. TotalSupplyScaled(r)' <= TotalSupplyScaled(r)
          BY <1>5, <2>1, <2>2
        <4> QED
          BY <3>1, <4>1, <4>2 DEF GivesUp
      <3>2. CASE ~forgo
        <4>1. availableLiquidity[r] + Owed(r) = availableLiquidity'[r] + Owed(r)' + withdrawn
          BY <1>5, <2>2, <2>3, <3>2
        <4> QED
          BY <1>4, <1>5, <2>1, <4>1, FlowOut
      <3> QED
        BY <3>1, <3>2
    <2>5. WithinCaps(r)
      BY <1>5, <2>1, <2>2 DEF WithinCaps
    <2> QED
      BY <2>4, <2>5 DEF FlowStep
  <1> QED
    BY <1>7, <1>8

(* What moves from one account to another is still in the total. *)
LEMMA MoveSum ==
    ASSUME NEW b \in [Accounts -> Nat], NEW from \in Accounts, NEW to \in Accounts,
           NEW x \in Nat, x <= b[from]
    PROVE  SumFunctionOnSet(Move(b, from, to, x), Accounts) = SumFunctionOnSet(b, Accounts)
  <1>1. CASE from = to
    BY <1>1 DEF Move
  <1>2. CASE from # to
    <2>1. PICK m : m = [b EXCEPT ![from] = b[from] - x]
      OBVIOUS
    <2>2. PICK n : n = Move(b, from, to, x)
      OBVIOUS
    <2>3. /\ m \in [Accounts -> Nat] /\ n \in [Accounts -> Nat]
          /\ m[from] = b[from] - x /\ m[to] = b[to] /\ n[to] = b[to] + x
          /\ \A a \in Accounts : a # from => m[a] = b[a]
          /\ \A a \in Accounts : a # to => n[a] = m[a]
      BY <1>2, <2>1, <2>2 DEF Move
    <2>4. SumFunctionOnSet(m, Accounts) = SumFunctionOnSet(b, Accounts) - b[from] + m[from]
      BY <2>3, FiniteAccounts, SumChange
    <2>5. SumFunctionOnSet(n, Accounts) = SumFunctionOnSet(m, Accounts) - m[to] + n[to]
      BY <2>3, FiniteAccounts, SumChange
    <2>6. SumFunctionOnSet(b, Accounts) \in Nat /\ b[from] \in Nat /\ b[to] \in Nat
      BY FiniteAccounts, SumType
    <2> QED
      BY <2>2, <2>3, <2>4, <2>5, <2>6
  <1> QED
    BY <1>1, <1>2

LEMMA TransferFlow ==
    ASSUME Typed, FlatDebts, NEW from \in Users, NEW to \in Users, NEW r \in Reserves,
           NEW amount \in Nat, Transfer(from, to, r, amount)
    PROVE  \A s \in Reserves : FlowStep(s)
  <1>1. TypeOK /\ TypeOK' /\ from \in Accounts /\ to \in Accounts
    BY DEF Typed, TypeInv, Accounts
  <1>2. /\ scaledBalance \in [Reserves -> [Accounts -> Nat]]
        /\ availableLiquidity \in [Reserves -> Nat]
    BY <1>1 DEF TypeOK
  <1>3. PICK scaled : scaled = RayDiv(amount, liquidityIndex[r])
    OBVIOUS
  <1>4. scaled \in Nat
    BY <1>1, <1>3, ScaledType
  <1>5. /\ scaled <= scaledBalance[r][from]
        /\ scaledBalance' = [scaledBalance EXCEPT ![r] = Move(@, from, to, scaled)]
        /\ availableLiquidity' = availableLiquidity
        /\ scaledDebt' = scaledDebt /\ stableDebt' = stableDebt
    BY <1>3 DEF Transfer, debts
  <1>6. ASSUME NEW s \in Reserves, s # r PROVE FlowStep(s)
    BY <1>1, <1>2, <1>5, <1>6, SameBooks
  <1>7. FlowStep(r)
    <2>1. scaledBalance'[r] = Move(scaledBalance[r], from, to, scaled)
      BY <1>2, <1>5
    <2>2. scaledBalance[r] \in [Accounts -> Nat]
      BY <1>2
    <2>3. TotalSupplyScaled(r)' = TotalSupplyScaled(r)
      BY <1>1, <1>4, <1>5, <2>1, <2>2, MoveSum, Totals, NextTotals
    <2>4. Owed(r)' = Owed(r) /\ Owed(r) \in Nat /\ availableLiquidity'[r] = availableLiquidity[r]
      BY <1>1, <1>5, SameDebt, Totals
    <2>5. ~(Owed(r)' > Owed(r))
      BY <2>4
    <2> QED
      BY <1>1, <2>3, <2>4, <2>5, NoFlow
  <1> QED
    BY <1>6, <1>7

LEMMA MintBooks ==
    ASSUME Typed, FlatDebts, NEW u \in Users, NEW r \in Reserves, NEW amount \in Nat,
           NEW mode, MintDebt(u, r, amount, mode)
    PROVE  /\ Owed(r)' = Owed(r) + amount
           /\ \A s \in Reserves \ {r} : /\ scaledDebt'[s] = scaledDebt[s]
                                        /\ stableDebt'[s] = stableDebt[s]
  <1>1. TypeOK /\ TypeOK' /\ RayDiv(amount, variableIndex[r]) = amount
    BY DebtAmounts DEF Typed, TypeInv
  <1>2. /\ scaledDebt \in [Reserves -> [Users -> Nat]]
        /\ stableDebt \in [Reserves -> [Users -> Nat]]
    BY <1>1 DEF TypeOK
  <1>3. \/ /\ stableDebt' = [stableDebt EXCEPT ![r][u] = @ + amount]
           /\ scaledDebt' = scaledDebt
        \/ /\ scaledDebt' = [scaledDebt EXCEPT ![r][u] = @ + amount]
           /\ stableDebt' = stableDebt
    BY <1>1 DEF MintDebt
  <1>4. \A v \in Users : v # u => /\ scaledDebt'[r][v] = scaledDebt[r][v]
                                 /\ stableDebt'[r][v] = stableDebt[r][v]
    BY <1>2, <1>3
  <1>5. scaledDebt'[r][u] + stableDebt'[r][u] = scaledDebt[r][u] + stableDebt[r][u] + amount
    BY <1>2, <1>3
  <1>6. Owed(r)' = Owed(r) - (scaledDebt[r][u] + stableDebt[r][u])
                           + (scaledDebt'[r][u] + stableDebt'[r][u])
    BY <1>1, <1>4, DebtChange
  <1>7. Owed(r) \in Nat /\ scaledDebt[r][u] \in Nat /\ stableDebt[r][u] \in Nat
    BY <1>1, <1>2, Totals
  <1>8. Owed(r)' = Owed(r) + amount
    BY <1>5, <1>6, <1>7
  <1> QED
    BY <1>2, <1>3, <1>8

LEMMA BurnBooks ==
    ASSUME Typed, FlatDebts, NEW u \in Users, NEW r \in Reserves, NEW amount \in Nat,
           NEW mode, BurnDebt(u, r, amount, mode)
    PROVE  /\ Owed(r)' = Owed(r) - amount
           /\ \A s \in Reserves \ {r} : /\ scaledDebt'[s] = scaledDebt[s]
                                        /\ stableDebt'[s] = stableDebt[s]
  <1>1. TypeOK /\ TypeOK' /\ RayDiv(amount, variableIndex[r]) = amount
    BY DebtAmounts DEF Typed, TypeInv
  <1>2. /\ scaledDebt \in [Reserves -> [Users -> Nat]]
        /\ stableDebt \in [Reserves -> [Users -> Nat]]
    BY <1>1 DEF TypeOK
  <1>3. \/ /\ stableDebt' = [stableDebt EXCEPT ![r][u] = @ - amount]
           /\ scaledDebt' = scaledDebt
        \/ /\ scaledDebt' = [scaledDebt EXCEPT ![r][u] = @ - amount]
           /\ stableDebt' = stableDebt
    BY <1>1 DEF BurnDebt
  <1>4. \A v \in Users : v # u => /\ scaledDebt'[r][v] = scaledDebt[r][v]
                                 /\ stableDebt'[r][v] = stableDebt[r][v]
    BY <1>2, <1>3
  <1>5. scaledDebt'[r][u] + stableDebt'[r][u] = scaledDebt[r][u] + stableDebt[r][u] - amount
    BY <1>2, <1>3
  <1>6. Owed(r)' = Owed(r) - (scaledDebt[r][u] + stableDebt[r][u])
                           + (scaledDebt'[r][u] + stableDebt'[r][u])
    BY <1>1, <1>4, DebtChange
  <1>7. Owed(r) \in Nat /\ scaledDebt[r][u] \in Nat /\ stableDebt[r][u] \in Nat
    BY <1>1, <1>2, Totals
  <1>8. Owed(r)' = Owed(r) - amount
    BY <1>5, <1>6, <1>7
  <1> QED
    BY <1>2, <1>3, <1>8

LEMMA BorrowFlow ==
    ASSUME Typed, FlatDebts, NEW u \in Users, NEW r \in Reserves, NEW amount \in Nat,
           NEW mode, Borrow(u, r, amount, mode)
    PROVE  \A s \in Reserves : FlowStep(s)
  <1>1. TypeOK /\ TypeOK'
    BY DEF Typed, TypeInv
  <1>2. availableLiquidity \in [Reserves -> Nat]
    BY <1>1 DEF TypeOK
  <1>3. /\ ValidBorrow(u, eMode[u], r, amount, mode)
        /\ MintDebt(u, r, amount, mode)
        /\ availableLiquidity' = [availableLiquidity EXCEPT ![r] = @ - amount]
        /\ scaledBalance' = scaledBalance
    BY DEF Borrow, BorrowAs
  <1>4. /\ Owed(r)' = Owed(r) + amount
        /\ \A s \in Reserves \ {r} : /\ scaledDebt'[s] = scaledDebt[s]
                                     /\ stableDebt'[s] = stableDebt[s]
    BY <1>3, MintBooks
  <1>5. ASSUME NEW s \in Reserves, s # r PROVE FlowStep(s)
    BY <1>1, <1>2, <1>3, <1>4, <1>5, SameBooks
  <1>6. FlowStep(r)
    <2>1. /\ TotalSupplyScaled(r)' = TotalSupplyScaled(r)
          /\ Owed(r) = TotalScaledDebt(r) + TotalStableDebt(r) /\ Owed(r) \in Nat
          /\ RayMul(TotalScaledDebt(r), variableIndex[r]) = TotalScaledDebt(r)
      BY <1>1, <1>3, SameSupply, Totals, DebtAmounts DEF Owed
    <2>2. /\ config[r].active
          /\ config[r].borrowCap # 0 => Owed(r)' <= config[r].borrowCap
      BY <1>3, <1>4, <2>1 DEF ValidBorrow, OpenToBorrowing, Usable, WithinBorrowCap
    <2>3. /\ availableLiquidity'[r] = availableLiquidity[r] - amount
          /\ availableLiquidity[r] \in Nat
      BY <1>2, <1>3
    <2>4. availableLiquidity'[r] + Owed(r)' = availableLiquidity[r] + Owed(r)
      BY <1>4, <2>1, <2>3
    <2> QED
      BY <1>1, <2>1, <2>2, <2>4, NoFlow
  <1> QED
    BY <1>5, <1>6

LEMMA RepayFlow ==
    ASSUME Typed, FlatDebts, NEW u \in Users, NEW r \in Reserves, NEW amount \in Nat,
           NEW mode \in Modes, Repay(u, r, amount, mode)
    PROVE  \A s \in Reserves : FlowStep(s)
  <1>1. TypeOK /\ TypeOK'
    BY DEF Typed, TypeInv
  <1>2. availableLiquidity \in [Reserves -> Nat]
    BY <1>1 DEF TypeOK
  <1>3. PICK payback : payback = Least(amount, DebtOf(u, r, mode))
    OBVIOUS
  <1>4. payback \in Nat
    BY <1>1, <1>3, DebtOfType, LeastType
  <1>5. /\ BurnDebt(u, r, payback, mode)
        /\ availableLiquidity' = [availableLiquidity EXCEPT ![r] = @ + payback]
        /\ scaledBalance' = scaledBalance
    BY <1>3 DEF Repay, RepayDebt
  <1>6. /\ Owed(r)' = Owed(r) - payback
        /\ \A s \in Reserves \ {r} : /\ scaledDebt'[s] = scaledDebt[s]
                                     /\ stableDebt'[s] = stableDebt[s]
    BY <1>4, <1>5, BurnBooks
  <1>7. ASSUME NEW s \in Reserves, s # r PROVE FlowStep(s)
    BY <1>1, <1>2, <1>5, <1>6, <1>7, SameBooks
  <1>8. FlowStep(r)
    <2>1. TotalSupplyScaled(r)' = TotalSupplyScaled(r) /\ Owed(r) \in Nat
      BY <1>1, <1>5, SameSupply, Totals
    <2>2. /\ availableLiquidity'[r] = availableLiquidity[r] + payback
          /\ availableLiquidity[r] \in Nat
      BY <1>2, <1>5
    <2>3. /\ availableLiquidity'[r] + Owed(r)' = availableLiquidity[r] + Owed(r)
          /\ ~(Owed(r)' > Owed(r))
      BY <1>4, <1>6, <2>1, <2>2
    <2> QED
      BY <1>1, <2>1, <2>3, NoFlow
  <1> QED
    BY <1>7, <1>8

LEMMA RepayWithRSTokensFlow ==
    ASSUME Typed, FlatDebts, NEW u \in Users, NEW r \in Reserves, NEW amount \in Nat,
           NEW mode \in Modes, RepayWithRSTokens(u, r, amount, mode)
    PROVE  \A s \in Reserves : FlowStep(s)
  <1>1. TypeOK /\ TypeOK' /\ u \in Accounts
    BY DEF Typed, TypeInv, Accounts
  <1>2. /\ availableLiquidity \in [Reserves -> Nat]
        /\ scaledBalance \in [Reserves -> [Accounts -> Nat]]
    BY <1>1 DEF TypeOK
  <1>3. PICK offered : offered = IF amount = MaxUint THEN Balance(u, r) ELSE amount
    OBVIOUS
  <1>4. PICK payback : payback = Least(offered, DebtOf(u, r, mode))
    OBVIOUS
  <1>5. PICK scaled : scaled = RayDiv(payback, liquidityIndex[r])
    OBVIOUS
  <1>6. payback \in Nat /\ scaled \in Nat
    <2>1. offered \in Nat
      BY <1>1, <1>3, BalanceType
    <2>2. payback \in Nat
      BY <1>1, <1>4, <2>1, DebtOfType, LeastType
    <2> QED
      BY <1>1, <1>5, <2>2, ScaledType
  <1>7. /\ BurnDebt(u, r, payback, mode)
        /\ scaled <= scaledBalance[r][u]
        /\ scaledBalance' = [scaledBalance EXCEPT ![r][u] = @ - scaled]
        /\ availableLiquidity' = availableLiquidity
    BY <1>3, <1>4, <1>5 DEF RepayWithRSTokens, RepayDebt
  <1>8. /\ Owed(r)' = Owed(r) - payback
        /\ \A s \in Reserves \ {r} : /\ scaledDebt'[s] = scaledDebt[s]
                                     /\ stableDebt'[s] = stableDebt[s]
    BY <1>6, <1>7, BurnBooks
  <1>9. ASSUME NEW s \in Reserves, s # r PROVE FlowStep(s)
    BY <1>1, <1>2, <1>7, <1>8, <1>9, SameBooks
  <1>10. FlowStep(r)
    <2>1. TotalSupplyScaled(r) = TotalSupplyScaled(r)' + scaled
      <3>1. TotalSupplyScaled(r)'
                = TotalSupplyScaled(r) - scaledBalance[r][u] + scaledBalance'[r][u]
        BY <1>1, <1>2, <1>7, SupplyChange
      <3>2. scaledBalance'[r][u] = scaledBalance[r][u] - scaled /\ scaledBalance[r][u] \in Nat
        BY <1>1, <1>2, <1>7
      <3> QED
        BY <3>1, <3>2, <1>1, <1>6, Totals
    <2>2. TotalSupplyScaled(r)' \in Nat /\ Owed(r) \in Nat /\ availableLiquidity[r] \in Nat
      BY <1>1, <1>2, Totals, NextTotals
    <2>3. availableLiquidity[r] + Owed(r) = availableLiquidity'[r] + Owed(r)' + payback
      BY <1>6, <1>7, <1>8, <2>2
    <2>4. Flow(r)
      BY <1>5, <1>6, <2>1, <2>3, FlowOut
    <2>5. WithinCaps(r)
      BY <1>6, <1>8, <2>1, <2>2 DEF WithinCaps
    <2> QED
      BY <2>4, <2>5 DEF FlowStep
  <1> QED
    BY <1>9, <1>10

LEMMA SwapFlow ==
    ASSUME Typed, FlatDebts, NEW u \in Users, NEW r \in Reserves, NEW mode,
           SwapBorrowRateMode(u, r, mode)
    PROVE  \A s \in Reserves : FlowStep(s)
  <1>1. TypeOK /\ TypeOK'
    BY DEF Typed, TypeInv
  <1>2. /\ scaledDebt \in [Reserves -> [Users -> Nat]]
        /\ stableDebt \in [Reserves -> [Users -> Nat]]
        /\ scaledBalance' = scaledBalance /\ availableLiquidity' = availableLiquidity
    BY <1>1 DEF TypeOK, SwapBorrowRateMode
  <1>3. /\ VariableDebt(u, r) = scaledDebt[r][u]
        /\ RayDiv(stableDebt[r][u], variableIndex[r]) = stableDebt[r][u]
        /\ RayDiv(scaledDebt[r][u], variableIndex[r]) = scaledDebt[r][u]
    BY <1>1, <1>2, DebtAmounts
  <1>4. \/ /\ stableDebt' = [stableDebt EXCEPT ![r][u] = 0]
           /\ scaledDebt' = [scaledDebt EXCEPT ![r][u] = @ + stableDebt[r][u]]
        \/ /\ stableDebt' = [stableDebt EXCEPT ![r][u] = @ + scaledDebt[r][u]]
           /\ scaledDebt' = [scaledDebt EXCEPT ![r][u] = @ - scaledDebt[r][u]]
    BY <1>3 DEF SwapBorrowRateMode
  <1>5. ASSUME NEW s \in Reserves, s # r PROVE FlowStep(s)
    BY <1>1, <1>2, <1>4, <1>5, SameBooks
  <1>6. FlowStep(r)
    <2>1. \A v \in Users : v # u => /\ scaledDebt'[r][v] = scaledDebt[r][v]
                                   /\ stableDebt'[r][v] = stableDebt[r][v]
      BY <1>2, <1>4
    <2>2. scaledDebt'[r][u] + stableDebt'[r][u] = scaledDebt[r][u] + stableDebt[r][u]
      BY <1>2, <1>4
    <2>3. Owed(r)' = Owed(r) - (scaledDebt[r][u] + stableDebt[r][u])
                             + (scaledDebt'[r][u] + stableDebt'[r][u])
      BY <1>1, <2>1, DebtChange
    <2>4. /\ TotalSupplyScaled(r)' = TotalSupplyScaled(r)
          /\ Owed(r) \in Nat /\ scaledDebt[r][u] \in Nat /\ stableDebt[r][u] \in Nat
      BY <1>1, <1>2, SameSupply, Totals
    <2>5. Owed(r)' = Owed(r)
      BY <2>2, <2>3, <2>4
    <2> QED
      BY <1>1, <1>2, <2>4, <2>5, NoFlow
  <1> QED
    BY <1>5, <1>6

LEMMA LiquidatedDebtBooks ==
    ASSUME Typed, FlatDebts, NEW u \in Users, NEW d \in Reserves, NEW amount \in Nat,
           BurnLiquidatedDebt(u, d, amount)
    PROVE  /\ Owed(d)' = Owed(d) - amount
           /\ \A s \in Reserves \ {d} : /\ scaledDebt'[s] = scaledDebt[s]
                                        /\ stableDebt'[s] = stableDebt[s]
  <1>1. TypeOK /\ TypeOK'
    BY DEF Typed, TypeInv
  <1>2. /\ scaledDebt \in [Reserves -> [Users -> Nat]]
        /\ stableDebt \in [Reserves -> [Users -> Nat]]
    BY <1>1 DEF TypeOK
  <1>3. PICK variable : variable = Least(amount, VariableDebt(u, d))
    OBVIOUS
  <1>4. variable \in Nat /\ variable <= amount /\ RayDiv(variable, variableIndex[d]) = variable
    BY <1>1, <1>3, VariableDebtType, LeastType, DebtAmounts
  <1>5. /\ variable <= scaledDebt[d][u]
        /\ amount - variable <= stableDebt[d][u]
        /\ scaledDebt' = [scaledDebt EXCEPT ![d][u] = @ - variable]
        /\ stableDebt' = [stableDebt EXCEPT ![d][u] = @ - (amount - variable)]
    BY <1>3, <1>4 DEF BurnLiquidatedDebt
  <1>6. \A v \in Users : v # u => /\ scaledDebt'[d][v] = scaledDebt[d][v]
                                 /\ stableDebt'[d][v] = stableDebt[d][v]
    BY <1>2, <1>5
  <1>7. scaledDebt'[d][u] + stableDebt'[d][u] = scaledDebt[d][u] + stableDebt[d][u] - amount
    BY <1>2, <1>4, <1>5
  <1>8. Owed(d)' = Owed(d) - (scaledDebt[d][u] + stableDebt[d][u])
                           + (scaledDebt'[d][u] + stableDebt'[d][u])
    BY <1>1, <1>6, DebtChange
  <1>9. Owed(d) \in Nat /\ scaledDebt[d][u] \in Nat /\ stableDebt[d][u] \in Nat
    BY <1>1, <1>2, Totals
  <1>10. Owed(d)' = Owed(d) - amount
    BY <1>7, <1>8, <1>9
  <1> QED
    BY <1>2, <1>5, <1>10

(* What leaves the borrower's collateral: the liquidator's part, which the
   liquidator is paid or receives, and the fee, which the treasury receives. *)
LEMMA SeizedBooks ==
    ASSUME NEW b \in [Accounts -> Nat], NEW u \in Users, NEW l \in Users, NEW taken \in Nat,
           taken <= b[u], NEW fee \in Nat, NEW receive \in BOOLEAN, NEW after,
           after = IF receive THEN Move(b, u, l, taken) ELSE [b EXCEPT ![u] = @ - taken]
    PROVE  SumFunctionOnSet(Move(after, u, Treasury, Least(fee, after[u])), Accounts)
               = SumFunctionOnSet(b, Accounts) - (IF receive THEN 0 ELSE taken)
  <1>1. u \in Accounts /\ l \in Accounts /\ Treasury \in Accounts
    BY DEF Accounts
  <1>2. SumFunctionOnSet(b, Accounts) \in Nat /\ b[u] \in Nat
    BY <1>1, FiniteAccounts, SumType
  <1>3. /\ after \in [Accounts -> Nat]
        /\ SumFunctionOnSet(after, Accounts)
               = SumFunctionOnSet(b, Accounts) - (IF receive THEN 0 ELSE taken)
    <2>1. CASE receive
      BY <1>1, <1>2, <2>1, MoveType, MoveSum
    <2>2. CASE ~receive
      <3>1. /\ b \in [Accounts -> Nat]
            /\ after \in [Accounts -> Nat] /\ after[u] = b[u] - taken
            /\ \A a \in Accounts : a # u => after[a] = b[a]
        BY <1>1, <1>2, <2>2
      <3>2. SumFunctionOnSet(after, Accounts)
                = SumFunctionOnSet(b, Accounts) - b[u] + after[u]
        BY ONLY <1>1, <3>1, FiniteAccounts, SumChange
      <3> QED
        BY <1>2, <2>2, <3>1, <3>2
    <2> QED
      BY <2>1, <2>2
  <1>4. Least(fee, after[u]) \in Nat /\ Least(fee, after[u]) <= after[u]
    BY <1>1, <1>3, LeastType
  <1>5. SumFunctionOnSet(Move(after, u, Treasury, Least(fee, after[u])), Accounts)
            = SumFunctionOnSet(after, Accounts)
    BY ONLY <1>1, <1>3, <1>4, MoveSum
  <1> QED
    BY <1>3, <1>5

LEMMA LiquidationFlow ==
    ASSUME Typed, FlatDebts, NEW l \in Users, NEW u \in Users, NEW c \in Reserves,
           NEW d \in Reserves, NEW cover \in Nat, NEW receive \in BOOLEAN,
           LiquidationCall(l, u, c, d, cover, receive)
    PROVE  \A s \in Reserves : FlowStep(s)
  <1>1. TypeOK /\ TypeOK' /\ u \in Accounts
    BY DEF Typed, TypeInv, Accounts
  <1>2. /\ availableLiquidity \in [Reserves -> Nat]
        /\ scaledBalance \in [Reserves -> [Accounts -> Nat]]
    BY <1>1 DEF TypeOK
  <1>3. PICK amounts :
            amounts = LiquidationAmounts(u, c, d, Least(cover, MaxLiquidatableDebt(u, d)))
    OBVIOUS
  <1>4. amounts.collateral \in Nat /\ amounts.fee \in Nat /\ amounts.debt \in Nat
    <2>1. TypeInv /\ Least(cover, MaxLiquidatableDebt(u, d)) \in Nat
      BY MaxLiquidatableType, LeastType DEF Typed
    <2>2. config[c].liquidationThreshold # 0
      BY DEF LiquidationCall, ValidLiquidation
    <2> QED
      BY <1>3, <2>1, <2>2, LiquidationAmountsType
  <1>5. PICK taken, fee : /\ taken = RayDiv(amounts.collateral, liquidityIndex[c])
                          /\ fee = RayDiv(amounts.fee, liquidityIndex[c])
    OBVIOUS
  <1>6. taken \in Nat /\ fee \in Nat
    BY <1>1, <1>4, <1>5, ScaledType
  <1>7. PICK after : after = IF receive THEN Move(scaledBalance[c], u, l, taken)
                             ELSE [scaledBalance[c] EXCEPT ![u] = @ - taken]
    OBVIOUS
  <1>8. PICK paid, burnt : /\ paid = IF receive THEN 0 ELSE amounts.collateral
                           /\ burnt = IF receive THEN 0 ELSE taken
    OBVIOUS
  <1>9. /\ taken <= scaledBalance[c][u]
        /\ BurnLiquidatedDebt(u, d, amounts.debt)
        /\ scaledBalance' = [scaledBalance EXCEPT
               ![c] = Move(after, u, Treasury, Least(fee, after[u]))]
        /\ availableLiquidity' = [r \in Reserves |->
               availableLiquidity[r] - (IF r = c THEN paid ELSE 0)
                                     + (IF r = d THEN amounts.debt ELSE 0)]
    BY <1>3, <1>5, <1>7, <1>8 DEF LiquidationCall
  <1>10. paid \in Nat /\ burnt \in Nat /\ burnt = RayDiv(paid, liquidityIndex[c])
    BY <1>1, <1>4, <1>5, <1>6, <1>8, IndexType, RayDivOfNothing
  <1>11. /\ Owed(d)' = Owed(d) - amounts.debt
         /\ \A s \in Reserves \ {d} : /\ scaledDebt'[s] = scaledDebt[s]
                                      /\ stableDebt'[s] = stableDebt[s]
    BY <1>4, <1>9, LiquidatedDebtBooks
  <1>12. TotalSupplyScaled(c)' = TotalSupplyScaled(c) - burnt
    <2>1. scaledBalance'[c] = Move(after, u, Treasury, Least(fee, after[u]))
      BY <1>2, <1>9
    <2>2. scaledBalance[c] \in [Accounts -> Nat]
      BY <1>2
    <2>3. SumFunctionOnSet(scaledBalance'[c], Accounts)
              = SumFunctionOnSet(scaledBalance[c], Accounts) - burnt
      BY <1>6, <1>7, <1>8, <1>9, <2>1, <2>2, SeizedBooks
    <2> QED
      BY <1>1, <2>3, Totals, NextTotals
  <1> SUFFICES ASSUME NEW s \in Reserves PROVE FlowStep(s)
    OBVIOUS
  <1>13. Owed(s)' = Owed(s) - (IF s = d THEN amounts.debt ELSE 0)
    <2>1. CASE s # d
      <3>1. Owed(s)' = Owed(s) /\ Owed(s) \in Nat
        BY <1>1, <1>11, <2>1, SameDebt, Totals
      <3> QED
        BY <2>1, <3>1
    <2> QED
      BY <1>11, <2>1
  <1>14. availableLiquidity'[s] = availableLiquidity[s] - (IF s = c THEN paid ELSE 0)
                                                        + (IF s = d THEN amounts.debt ELSE 0)
    BY <1>9
  <1>15. /\ TotalSupplyScaled(s) \in Nat /\ TotalSupplyScaled(s)' \in Nat
         /\ Owed(s) \in Nat /\ availableLiquidity[s] \in Nat
    BY <1>1, <1>2, Totals, NextTotals
  <1>16. ~(Owed(s)' > Owed(s))
    BY <1>4, <1>13, <1>15
  <1>17. CASE s = c
    <2>1. TotalSupplyScaled(s) = TotalSupplyScaled(s)' + RayDiv(paid, liquidityIndex[s])
      BY <1>10, <1>12, <1>15, <1>17
    <2>2. availableLiquidity[s] + Owed(s) = availableLiquidity'[s] + Owed(s)' + paid
      BY <1>4, <1>10, <1>13, <1>14, <1>15, <1>17
    <2>3. Flow(s)
      BY <1>10, <2>1, <2>2, FlowOut
    <2>4. WithinCaps(s)
      BY <1>10, <1>12, <1>15, <1>16, <1>17 DEF WithinCaps
    <2> QED
      BY <2>3, <2>4 DEF FlowStep
  <1>18. CASE s # c
    <2>1. scaledBalance'[s] = scaledBalance[s]
      BY <1>2, <1>9, <1>18
    <2>2. TotalSupplyScaled(s)' = TotalSupplyScaled(s)
      BY <1>1, <2>1, SameSupply
    <2>3. availableLiquidity'[s] + Owed(s)' = availableLiquidity[s] + Owed(s)
      BY <1>4, <1>13, <1>14, <1>15, <1>18
    <2> QED
      BY <1>1, <1>16, <2>2, <2>3, NoFlow
  <1> QED
    BY <1>17, <1>18

LEMMA UserStepFlow ==
    ASSUME Typed, FlatDebts, NEW u \in Users, NEW r \in Reserves, UserStep(u, r)
    PROVE  \A s \in Reserves : FlowStep(s)
  <1>1. \A amount \in Amounts[r] \cup Requests(r) : amount \in Nat
    BY RequestAssumption, NamesAssumption DEF Requests
  <1>2. CASE \E caller \in {u} \cup IsolatedSuppliers, amount \in Amounts[r] :
                 Supply(caller, u, r, amount)
    BY <1>1, <1>2, SupplyFlow
  <1>3. CASE \E amount \in Requests(r), forgo \in BOOLEAN :
               (forgo => r \in Forgoing) /\ Withdraw(u, r, amount, forgo)
    BY <1>1, <1>3, WithdrawFlow
  <1>4. CASE \E to \in Users, amount \in Amounts[r] : Transfer(u, to, r, amount)
    BY <1>1, <1>4, TransferFlow
  <1>5. CASE \E use \in BOOLEAN : SetUserUseReserveAsCollateral(u, r, use)
    <2>1. TypeOK /\ TypeOK'
      BY DEF Typed, TypeInv
    <2>2. UNCHANGED <<availableLiquidity, scaledBalance, debts>>
      BY <1>5 DEF SetUserUseReserveAsCollateral
    <2> QED
      BY <2>1, <2>2, SameBooks DEF debts
  <1>6. CASE \E amount \in Amounts[r], mode \in Modes : Borrow(u, r, amount, mode)
    BY <1>1, <1>6, BorrowFlow
  <1>7. CASE \E amount \in Requests(r), mode \in Modes : Repay(u, r, amount, mode)
    BY <1>1, <1>7, RepayFlow
  <1>8. CASE \E amount \in Requests(r), mode \in Modes : RepayWithRSTokens(u, r, amount, mode)
    BY <1>1, <1>8, RepayWithRSTokensFlow
  <1>9. CASE \E mode \in Modes : SwapBorrowRateMode(u, r, mode)
    BY <1>9, SwapFlow
  <1> QED
    BY <1>2, <1>3, <1>4, <1>5, <1>6, <1>7, <1>8, <1>9 DEF UserStep

(* No interest is due while no index may grow. *)
LEMMA FlatStep ==
    ASSUME NothingAccrues, TypeOK, Flat, [Next]_vars
    PROVE  /\ Flat'
           /\ ~ \E r \in Reserves, earned, charged \in {0, 1}, growth \in [Users -> {0, 1}] :
                   Accrue(r, earned, charged, growth)
  <1>1. \A r \in Reserves : liquidityIndex[r] = RAY /\ variableIndex[r] = RAY /\ MaxIndex[r] = RAY
    BY DEF NothingAccrues, Flat
  <1>2. ~ \E r \in Reserves, earned, charged \in {0, 1}, growth \in [Users -> {0, 1}] :
            Accrue(r, earned, charged, growth)
    <2>1. RAY \in Nat
      BY UnitAssumption
    <2> QED
      BY <1>1, <2>1 DEF Accrue
  <1>3. UNCHANGED <<liquidityIndex, variableIndex>>
    <2>1. CASE \E u \in Users, r \in Reserves : UserStep(u, r)
      BY <2>1 DEF UserStep, Supply, Withdraw, Transfer, SetUserUseReserveAsCollateral, Borrow,
                  BorrowAs, Repay, RepayWithRSTokens, SwapBorrowRateMode, market
    <2>2. CASE \E u \in Users, c \in Categories \cup {0} : SetUserEMode(u, c)
      BY <2>2 DEF SetUserEMode, market
    <2>3. CASE Liquidate
      BY <2>3 DEF Liquidate, LiquidationCall, market
    <2>4. CASE Environment
      BY <1>2, <2>4 DEF Environment, SetPrice, SetSentinel
    <2>5. CASE UNCHANGED vars
      BY <2>5 DEF vars, market
    <2> QED
      BY <2>1, <2>2, <2>3, <2>4, <2>5 DEF Next
  <1> QED
    BY <1>1, <1>2, <1>3 DEF Flat

(* What the users do, whatever the income indexes. *)
LEMMA CallsFlow ==
    ASSUME Typed, FlatDebts,
           \/ \E u \in Users, r \in Reserves : UserStep(u, r)
           \/ \E u \in Users, c \in Categories \cup {0} : SetUserEMode(u, c)
           \/ Liquidate
    PROVE  \A s \in Reserves : FlowStep(s)
  <1>1. CASE \E u \in Users, r \in Reserves : UserStep(u, r)
    BY <1>1, UserStepFlow
  <1>2. CASE \E u \in Users, c \in Categories \cup {0} : SetUserEMode(u, c)
    <2>1. UNCHANGED <<availableLiquidity, scaledBalance, scaledDebt, stableDebt>>
      BY <1>2 DEF SetUserEMode, debts
    <2> QED
      BY <2>1, SameBooks DEF Typed, TypeInv
  <1>3. CASE Liquidate
    <2>1. PICK l \in Users, u \in Users, c \in Reserves, d \in Reserves, receive \in BOOLEAN,
               cover \in Nat : LiquidationCall(l, u, c, d, cover, receive)
      BY <1>3, RequestType DEF Liquidate
    <2> QED
      BY <2>1, LiquidationFlow
  <1> QED
    BY <1>1, <1>2, <1>3

LEMMA StepBooks ==
    ASSUME NothingAccrues, Typed, Flat, [Next]_vars
    PROVE  \A s \in Reserves : BookStep(s)
  <1>1. TypeOK /\ TypeOK' /\ FlatDebts
    BY FlatIsFlat DEF Typed, TypeInv
  <1>2. CASE UNCHANGED <<availableLiquidity, scaledBalance, debts>>
    BY <1>1, <1>2, SameBooks DEF debts
  <1>3. CASE \/ \E u \in Users, r \in Reserves : UserStep(u, r)
             \/ \E u \in Users, c \in Categories \cup {0} : SetUserEMode(u, c)
             \/ Liquidate
    BY <1>1, <1>3, CallsFlow, FlatBook
  <1>4. CASE Environment
    <2>1. UNCHANGED positions
      BY <1>1, <1>4, FlatStep DEF Environment, SetPrice, SetSentinel
    <2> QED
      BY <1>2, <2>1 DEF positions
  <1>5. CASE UNCHANGED vars
    BY <1>2, <1>5 DEF vars
  <1> QED
    BY <1>3, <1>4, <1>5 DEF Next

(* The invariant behind the books. *)
BooksInv == TypeInv /\ Flat /\ ClaimsAreBacked

LEMMA InitBooks == Init => BooksInv
  <1> SUFFICES ASSUME Init PROVE BooksInv
    OBVIOUS
  <1>1. TypeInv
    BY InitType
  <1>2. Flat
    BY DEF Init, Flat
  <1>3. ASSUME NEW r \in Reserves
        PROVE  TotalSupplyScaled(r) \in Nat /\ TotalSupplyScaled(r) = Backing(r)
    <2>1. /\ scaledDebt[r] = [u \in Users |-> 0] /\ stableDebt[r] = [u \in Users |-> 0]
          /\ availableLiquidity[r] = InitialLiquidity[r]
          /\ scaledBalance[r] = [a \in Accounts |-> IF a = Treasury THEN InitialLiquidity[r] ELSE 0]
          /\ InitialLiquidity[r] \in Nat
      BY InitialAssumption DEF Init
    <2>2. TotalScaledDebt(r) = 0 /\ TotalStableDebt(r) = 0
      <3>1. SumFunctionOnSet([u \in Users |-> 0], Users) = 0
        BY FiniteAccounts, SumOfZeros
      <3> QED
        BY <1>1, <2>1, <3>1, Totals DEF TypeInv
    <2>3. TotalSupplyScaled(r) = InitialLiquidity[r]
      <3> DEFINE none == [a \in Accounts |-> 0]
                 some == [a \in Accounts |-> IF a = Treasury THEN InitialLiquidity[r] ELSE 0]
      <3>1. SumFunctionOnSet(none, Accounts) = 0
        BY FiniteAccounts, SumOfZeros
      <3>2. /\ Treasury \in Accounts
            /\ none \in [Accounts -> Nat] /\ some \in [Accounts -> Nat]
            /\ none[Treasury] = 0 /\ some[Treasury] = InitialLiquidity[r]
            /\ \A a \in Accounts : a # Treasury => some[a] = none[a]
        BY <2>1 DEF Accounts
      <3> HIDE DEF none, some
      <3>3. SumFunctionOnSet(some, Accounts)
                = SumFunctionOnSet(none, Accounts) - none[Treasury] + some[Treasury]
        BY <3>2, FiniteAccounts, SumChange
      <3>4. TotalSupplyScaled(r) = SumFunctionOnSet(some, Accounts)
        BY <1>1, <2>1, Totals DEF TypeInv, some
      <3> QED
        BY <2>1, <3>1, <3>2, <3>3, <3>4
    <2> QED
      BY <2>1, <2>2, <2>3 DEF Backing
  <1>4. ClaimsAreBacked
    BY <1>3 DEF ClaimsAreBacked
  <1> QED
    BY <1>1, <1>2, <1>4 DEF BooksInv

(* Steps that balance keep the books balanced. *)
LEMMA BackedStep ==
    ASSUME TypeOK, TypeOK', ClaimsAreBacked, \A r \in Reserves : BookStep(r)
    PROVE  ClaimsAreBacked'
  <1> SUFFICES ASSUME NEW r \in Reserves
               PROVE  /\ TotalSupplyScaled(r)' <= Backing(r)'
                      /\ r \notin Forgoing => TotalSupplyScaled(r)' = Backing(r)'
    BY DEF ClaimsAreBacked
  <1>1. /\ TotalSupplyScaled(r) <= Backing(r)
        /\ r \notin Forgoing => TotalSupplyScaled(r) = Backing(r)
    BY DEF ClaimsAreBacked
  <1>2. /\ TotalSupplyScaled(r)' - TotalSupplyScaled(r)
               <= (availableLiquidity'[r] - availableLiquidity[r]) + (Owed(r)' - Owed(r))
        /\ r \notin Forgoing =>
               TotalSupplyScaled(r)' - TotalSupplyScaled(r)
                   = (availableLiquidity'[r] - availableLiquidity[r]) + (Owed(r)' - Owed(r))
    BY DEF BookStep
  <1>3. /\ TotalSupplyScaled(r) \in Nat /\ Owed(r) \in Nat /\ availableLiquidity[r] \in Nat
        /\ Backing(r) = availableLiquidity[r] + Owed(r)
    BY Totals DEF TypeOK, Owed, Backing
  <1>4. /\ TotalSupplyScaled(r)' \in Nat /\ Owed(r)' \in Nat /\ availableLiquidity'[r] \in Nat
        /\ Backing(r)' = availableLiquidity'[r] + Owed(r)'
    BY NextTotals DEF TypeOK, Owed, Backing
  <1> QED
    BY <1>1, <1>2, <1>3, <1>4

LEMMA BooksInductive ==
    ASSUME NothingAccrues
    PROVE  Spec => []BooksInv
  <1>1. BooksInv /\ [Next]_vars => BooksInv'
    <2> SUFFICES ASSUME BooksInv, [Next]_vars PROVE BooksInv'
      OBVIOUS
    <2>1. TypeInv' /\ Typed
      BY StepType DEF BooksInv, TypeInv, Typed
    <2>2. Flat'
      BY FlatStep DEF BooksInv, TypeInv
    <2>3. ClaimsAreBacked'
      BY <2>1, StepBooks, BackedStep DEF BooksInv, Typed, TypeInv
    <2> QED
      BY <2>1, <2>2, <2>3 DEF BooksInv
  <1> QED
    BY <1>1, InitBooks, PTL DEF Spec

(***************************************************************************)
(* While nothing accrues, everything the RSToken holders of a reserve may  *)
(* claim is there, as underlying or as debt somebody owes, whatever the    *)
(* operations, their order and the fees and bonuses of liquidations: what  *)
(* each of them does to the balances, the debts of both rate modes and the *)
(* underlying of every reserve cancels out, except that a withdrawal to    *)
(* the RSToken itself leaves behind what nobody claims.                    *)
(***************************************************************************)
THEOREM ClaimsAlwaysBacked ==
    ASSUME NothingAccrues
    PROVE  Spec => []ClaimsAreBacked
  <1>1. BooksInv => ClaimsAreBacked
    BY DEF BooksInv
  <1> QED
    BY <1>1, BooksInductive, PTL

-----------------------------------------------------------------------------
(* No debt grows in an outage of the sequencer. *)

(* In a flat market the debt of a user is the sum of its two parts. *)
Owes(u, r) == scaledDebt[r][u] + stableDebt[r][u]

NoMoreDebt == \A u \in Users, r \in Reserves : Owes(u, r)' <= Owes(u, r)

LEMMA SameDebts ==
    ASSUME TypeOK, UNCHANGED debts
    PROVE  NoMoreDebt
  BY DEF TypeOK, debts, NoMoreDebt, Owes

(* Of the two tables of debts at most the entries of one user in one reserve
   change, and their sum does not grow. *)
LEMMA LessDebt ==
    ASSUME TypeOK, NEW u \in Users, NEW r \in Reserves,
           \A v \in Users, s \in Reserves : v # u \/ s # r =>
               scaledDebt'[s][v] = scaledDebt[s][v] /\ stableDebt'[s][v] = stableDebt[s][v],
           scaledDebt'[r][u] + stableDebt'[r][u] <= scaledDebt[r][u] + stableDebt[r][u]
    PROVE  NoMoreDebt
  BY DEF TypeOK, NoMoreDebt, Owes

LEMMA BurnLessDebt ==
    ASSUME Typed, Flat, NEW u \in Users, NEW r \in Reserves, NEW amount \in Nat, NEW mode,
           BurnDebt(u, r, amount, mode)
    PROVE  NoMoreDebt
  <1>1. TypeOK /\ RayDiv(amount, variableIndex[r]) = amount
    BY FlatAmounts DEF Typed, TypeInv
  <1>2. /\ scaledDebt \in [Reserves -> [Users -> Nat]]
        /\ stableDebt \in [Reserves -> [Users -> Nat]]
    BY <1>1 DEF TypeOK
  <1>3. \/ /\ stableDebt' = [stableDebt EXCEPT ![r][u] = @ - amount]
           /\ scaledDebt' = scaledDebt
        \/ /\ scaledDebt' = [scaledDebt EXCEPT ![r][u] = @ - amount]
           /\ stableDebt' = stableDebt
    BY <1>1 DEF BurnDebt
  <1>4. scaledDebt'[r][u] + stableDebt'[r][u] <= scaledDebt[r][u] + stableDebt[r][u]
    BY <1>2, <1>3
  <1>5. \A v \in Users, s \in Reserves : v # u \/ s # r =>
            scaledDebt'[s][v] = scaledDebt[s][v] /\ stableDebt'[s][v] = stableDebt[s][v]
    BY <1>2, <1>3
  <1> QED
    BY <1>1, <1>4, <1>5, LessDebt

LEMMA SwapSameDebt ==
    ASSUME Typed, Flat, NEW u \in Users, NEW r \in Reserves, NEW mode,
           SwapBorrowRateMode(u, r, mode)
    PROVE  NoMoreDebt
  <1>1. TypeOK
    BY DEF Typed, TypeInv
  <1>2. /\ scaledDebt \in [Reserves -> [Users -> Nat]]
        /\ stableDebt \in [Reserves -> [Users -> Nat]]
    BY <1>1 DEF TypeOK
  <1>3. /\ VariableDebt(u, r) = scaledDebt[r][u]
        /\ RayDiv(stableDebt[r][u], variableIndex[r]) = stableDebt[r][u]
        /\ RayDiv(scaledDebt[r][u], variableIndex[r]) = scaledDebt[r][u]
    BY <1>1, <1>2, FlatAmounts
  <1>4. \/ /\ stableDebt' = [stableDebt EXCEPT ![r][u] = 0]
           /\ scaledDebt' = [scaledDebt EXCEPT ![r][u] = @ + stableDebt[r][u]]
        \/ /\ stableDebt' = [stableDebt EXCEPT ![r][u] = @ + scaledDebt[r][u]]
           /\ scaledDebt' = [scaledDebt EXCEPT ![r][u] = @ - scaledDebt[r][u]]
    BY <1>3 DEF SwapBorrowRateMode
  <1>5. scaledDebt'[r][u] + stableDebt'[r][u] <= scaledDebt[r][u] + stableDebt[r][u]
    BY <1>2, <1>4
  <1>6. \A v \in Users, s \in Reserves : v # u \/ s # r =>
            scaledDebt'[s][v] = scaledDebt[s][v] /\ stableDebt'[s][v] = stableDebt[s][v]
    BY <1>2, <1>4
  <1> QED
    BY <1>1, <1>5, <1>6, LessDebt

LEMMA LiquidatedLessDebt ==
    ASSUME Typed, Flat, NEW l \in Users, NEW u \in Users, NEW c \in Reserves,
           NEW d \in Reserves, NEW cover \in Nat, NEW receive \in BOOLEAN,
           LiquidationCall(l, u, c, d, cover, receive)
    PROVE  NoMoreDebt
  <1>1. TypeOK
    BY DEF Typed, TypeInv
  <1>2. /\ scaledDebt \in [Reserves -> [Users -> Nat]]
        /\ stableDebt \in [Reserves -> [Users -> Nat]]
    BY <1>1 DEF TypeOK
  <1>3. PICK amount \in Nat : BurnLiquidatedDebt(u, d, amount)
    <2>1. TypeInv /\ Least(cover, MaxLiquidatableDebt(u, d)) \in Nat
      BY MaxLiquidatableType, LeastType DEF Typed
    <2>2. config[c].liquidationThreshold # 0
      BY DEF LiquidationCall, ValidLiquidation
    <2> QED
      BY <2>1, <2>2, LiquidationAmountsType DEF LiquidationCall
  <1>4. PICK variable : variable = Least(amount, VariableDebt(u, d))
    OBVIOUS
  <1>5. variable \in Nat /\ variable <= amount /\ RayDiv(variable, variableIndex[d]) = variable
    BY <1>1, <1>4, VariableDebtType, LeastType, FlatAmounts
  <1>6. /\ scaledDebt' = [scaledDebt EXCEPT ![d][u] = @ - variable]
        /\ stableDebt' = [stableDebt EXCEPT ![d][u] = @ - (amount - variable)]
    BY <1>3, <1>4, <1>5 DEF BurnLiquidatedDebt
  <1>7. scaledDebt'[d][u] + stableDebt'[d][u] <= scaledDebt[d][u] + stableDebt[d][u]
    BY <1>2, <1>5, <1>6
  <1>8. \A v \in Users, s \in Reserves : v # u \/ s # d =>
            scaledDebt'[s][v] = scaledDebt[s][v] /\ stableDebt'[s][v] = stableDebt[s][v]
    BY <1>2, <1>6
  <1> QED
    BY <1>1, <1>7, <1>8, LessDebt

LEMMA StepInGrace ==
    ASSUME NothingAccrues, Typed, Flat, [Next]_vars, ~sentinelUp
    PROVE  NoMoreDebt
  <1>1. TypeOK
    BY DEF Typed, TypeInv
  <1>2. CASE UNCHANGED debts
    BY <1>1, <1>2, SameDebts
  <1>3. CASE \E u \in Users, r \in Reserves : UserStep(u, r)
    <2>1. PICK u \in Users, r \in Reserves : UserStep(u, r)
      BY <1>3
    <2>2. \A amount \in Amounts[r] \cup Requests(r) : amount \in Nat
      BY RequestAssumption, NamesAssumption DEF Requests
    <2>3. ASSUME NEW amount, NEW mode, Borrow(u, r, amount, mode) PROVE FALSE
      BY <2>3 DEF Borrow, BorrowAs, ValidBorrow, OpenToBorrowing
    <2>4. ASSUME NEW payback \in Nat, NEW mode, RepayDebt(u, r, payback, mode) PROVE NoMoreDebt
      BY <2>4, BurnLessDebt DEF RepayDebt
    <2>5. ASSUME NEW amount \in Nat, NEW mode \in Modes, Repay(u, r, amount, mode)
          PROVE  NoMoreDebt
      BY <1>1, <2>4, <2>5, DebtOfType, LeastType DEF Repay
    <2>6. ASSUME NEW amount \in Nat, NEW mode \in Modes, RepayWithRSTokens(u, r, amount, mode)
          PROVE  NoMoreDebt
      <3>1. PICK offered : offered = IF amount = MaxUint THEN Balance(u, r) ELSE amount
        OBVIOUS
      <3>2. offered \in Nat
        BY <1>1, <3>1, BalanceType DEF Accounts
      <3>3. Least(offered, DebtOf(u, r, mode)) \in Nat
        BY <1>1, <3>2, DebtOfType, LeastType
      <3>4. RepayDebt(u, r, Least(offered, DebtOf(u, r, mode)), mode)
        BY <2>6, <3>1 DEF RepayWithRSTokens
      <3> QED
        BY <2>4, <3>3, <3>4
    <2>7. ASSUME NEW mode, SwapBorrowRateMode(u, r, mode) PROVE NoMoreDebt
      BY <2>7, SwapSameDebt
    <2>8. CASE UNCHANGED debts
      BY <1>2, <2>8
    <2> QED
      BY <2>1, <2>2, <2>3, <2>5, <2>6, <2>7, <2>8
         DEF UserStep, Supply, Withdraw, Transfer, SetUserUseReserveAsCollateral
  <1>4. CASE \E u \in Users, c \in Categories \cup {0} : SetUserEMode(u, c)
    BY <1>2, <1>4 DEF SetUserEMode
  <1>5. CASE Liquidate
    <2>1. PICK l \in Users, u \in Users, c \in Reserves, d \in Reserves, receive \in BOOLEAN,
               cover \in Nat : LiquidationCall(l, u, c, d, cover, receive)
      BY <1>5, RequestType DEF Liquidate
    <2> QED
      BY <2>1, LiquidatedLessDebt
  <1>6. CASE Environment
    <2>1. UNCHANGED positions
      BY <1>1, <1>6, FlatStep DEF Environment, SetPrice, SetSentinel
    <2> QED
      BY <1>2, <2>1 DEF positions
  <1>7. CASE UNCHANGED vars
    BY <1>2, <1>7 DEF vars
  <1> QED
    BY <1>3, <1>4, <1>5, <1>6, <1>7 DEF Next

(***************************************************************************)
(* While the sequencer is down or within its grace period, and nothing     *)
(* accrues, no transaction makes anybody owe more of any asset, in either  *)
(* rate mode or from one to the other.                                     *)
(***************************************************************************)
THEOREM GraceHolds ==
    ASSUME NothingAccrues
    PROVE  Spec => NoNewDebtInGrace
  <1>1. BooksInv /\ [Next]_vars =>
            [~sentinelUp /\ UNCHANGED <<market, settings>> =>
                \A u \in Users, r \in Reserves : Debt(u, r)' <= Debt(u, r)]_vars
    <2> SUFFICES ASSUME BooksInv, [Next]_vars, ~sentinelUp, UNCHANGED market,
                        NEW u \in Users, NEW r \in Reserves
                 PROVE  Debt(u, r)' <= Debt(u, r)
      OBVIOUS
    <2>1. Typed /\ Flat /\ TypeOK /\ TypeOK'
      BY StepType DEF BooksInv, TypeInv, Typed
    <2>2. Owes(u, r)' <= Owes(u, r)
      BY <2>1, StepInGrace DEF NoMoreDebt
    <2>3. Debt(u, r) = Owes(u, r)
      BY <2>1, FlatAmounts DEF Owes
    <2>4. Debt(u, r)' = Owes(u, r)'
      <3>1. variableIndex'[r] = RAY /\ scaledDebt'[r][u] \in Nat
        BY <2>1 DEF Flat, TypeOK, market
      <3>2. RayMul(scaledDebt'[r][u], variableIndex'[r]) = scaledDebt'[r][u]
        BY <3>1, AtOneRay
      <3> QED
        BY <3>2 DEF Debt, VariableDebt, Owes
    <2> QED
      BY <2>2, <2>3, <2>4
  <1> QED
    BY <1>1, BooksInductive, PTL DEF Spec, NoNewDebtInGrace

-----------------------------------------------------------------------------
(* The pool's steps as entries of the ledger. *)

LEMMA OwedBookType ==
    ASSUME TypeOK
    PROVE  OwedBook \in [Reserves -> [Users -> Nat]]
  BY DEF TypeOK, OwedBook

LEMMA SameOwedBook ==
    ASSUME UNCHANGED debts
    PROVE  OwedBook' = OwedBook
  BY DEF debts, OwedBook

(* The debts of one user in one reserve change. *)
LEMMA OneOwed ==
    ASSUME TypeOK, TypeOK', NEW u \in Users, NEW r \in Reserves, NEW owes \in Nat,
           \A v \in Users, s \in Reserves : v # u \/ s # r =>
               scaledDebt'[s][v] = scaledDebt[s][v] /\ stableDebt'[s][v] = stableDebt[s][v],
           scaledDebt'[r][u] + stableDebt'[r][u] = owes
    PROVE  OwedBook' = [OwedBook EXCEPT ![r][u] = owes]
  <1>1. PICK new : new = [OwedBook EXCEPT ![r][u] = owes]
    OBVIOUS
  <1>2. OwedBook \in [Reserves -> [Users -> Nat]] /\ OwedBook' \in [Reserves -> [Users -> Nat]]
    BY DEF TypeOK, OwedBook
  <1>3. new \in [Reserves -> [Users -> Nat]]
    BY <1>1, <1>2, UpdateType
  <1>4. ASSUME NEW s \in Reserves, NEW v \in Users
        PROVE  OwedBook'[s][v] = new[s][v]
    <2>1. /\ OwedBook'[s][v] = scaledDebt'[s][v] + stableDebt'[s][v]
          /\ OwedBook[s][v] = scaledDebt[s][v] + stableDebt[s][v]
      BY DEF OwedBook
    <2>2. new[s][v] = IF s = r /\ v = u THEN owes ELSE OwedBook[s][v]
      BY <1>1, <1>2
    <2> QED
      BY <2>1, <2>2
  <1>5. OwedBook' = new
    BY <1>2, <1>3, <1>4
  <1> QED
    BY <1>1, <1>5

LEMMA MintOwed ==
    ASSUME Typed, Flat, NEW u \in Users, NEW r \in Reserves, NEW amount \in Nat, NEW mode,
           MintDebt(u, r, amount, mode)
    PROVE  OwedBook' = [OwedBook EXCEPT ![r][u] = @ + amount]
  <1>1. TypeOK /\ TypeOK' /\ RayDiv(amount, variableIndex[r]) = amount
    BY FlatAmounts DEF Typed, TypeInv
  <1>2. /\ scaledDebt \in [Reserves -> [Users -> Nat]]
        /\ stableDebt \in [Reserves -> [Users -> Nat]]
    BY <1>1 DEF TypeOK
  <1>3. \/ /\ stableDebt' = [stableDebt EXCEPT ![r][u] = @ + amount]
           /\ scaledDebt' = scaledDebt
        \/ /\ scaledDebt' = [scaledDebt EXCEPT ![r][u] = @ + amount]
           /\ stableDebt' = stableDebt
    BY <1>1 DEF MintDebt
  <1>4. /\ scaledDebt'[r][u] + stableDebt'[r][u] = OwedBook[r][u] + amount
        /\ OwedBook[r][u] + amount \in Nat
    BY <1>2, <1>3 DEF OwedBook
  <1>5. \A v \in Users, s \in Reserves : v # u \/ s # r =>
            scaledDebt'[s][v] = scaledDebt[s][v] /\ stableDebt'[s][v] = stableDebt[s][v]
    BY <1>2, <1>3
  <1>6. OwedBook' = [OwedBook EXCEPT ![r][u] = OwedBook[r][u] + amount]
    BY <1>1, <1>4, <1>5, OneOwed
  <1> QED
    BY <1>1, <1>6, OwedBookType

LEMMA BurnOwed ==
    ASSUME Typed, Flat, NEW u \in Users, NEW r \in Reserves, NEW amount \in Nat, NEW mode,
           BurnDebt(u, r, amount, mode)
    PROVE  /\ OwedBook' = [OwedBook EXCEPT ![r][u] = @ - amount]
           /\ amount <= OwedBook[r][u]
  <1>1. TypeOK /\ TypeOK' /\ RayDiv(amount, variableIndex[r]) = amount
    BY FlatAmounts DEF Typed, TypeInv
  <1>2. /\ scaledDebt \in [Reserves -> [Users -> Nat]]
        /\ stableDebt \in [Reserves -> [Users -> Nat]]
    BY <1>1 DEF TypeOK
  <1>3. \/ /\ stableDebt' = [stableDebt EXCEPT ![r][u] = @ - amount]
           /\ scaledDebt' = scaledDebt
           /\ amount <= stableDebt[r][u]
        \/ /\ scaledDebt' = [scaledDebt EXCEPT ![r][u] = @ - amount]
           /\ stableDebt' = stableDebt
           /\ amount <= scaledDebt[r][u]
    BY <1>1 DEF BurnDebt
  <1>4. /\ scaledDebt'[r][u] + stableDebt'[r][u] = OwedBook[r][u] - amount
        /\ amount <= OwedBook[r][u] /\ OwedBook[r][u] - amount \in Nat
    BY <1>2, <1>3 DEF OwedBook
  <1>5. \A v \in Users, s \in Reserves : v # u \/ s # r =>
            scaledDebt'[s][v] = scaledDebt[s][v] /\ stableDebt'[s][v] = stableDebt[s][v]
    BY <1>2, <1>3
  <1>6. OwedBook' = [OwedBook EXCEPT ![r][u] = OwedBook[r][u] - amount]
    BY <1>1, <1>4, <1>5, OneOwed
  <1> QED
    BY <1>1, <1>4, <1>6, OwedBookType

LEMMA SupplyEntry ==
    ASSUME Typed, Flat, NEW caller, NEW u \in Users, NEW r \in Reserves, NEW amount \in Nat,
           Supply(caller, u, r, amount)
    PROVE  Ledger!Deposit(u, r, amount)
  <1>1. RayDiv(amount, liquidityIndex[r]) = amount
    BY FlatAmounts DEF Typed, TypeInv
  <1>2. OwedBook' = OwedBook
    BY SameOwedBook DEF Supply
  <1> QED
    BY <1>1, <1>2 DEF Supply, Ledger!Deposit

LEMMA WithdrawEntry ==
    ASSUME Typed, Flat, NEW u \in Users, NEW r \in Reserves, NEW amount \in Nat,
           NEW forgo \in BOOLEAN, forgo => r \in Forgoing, Withdraw(u, r, amount, forgo)
    PROVE  \E x \in 1 .. availableLiquidity[r] : Ledger!Withdraw(u, r, x) \/ Ledger!Forgo(u, r, x)
  <1>1. TypeOK /\ u \in Accounts /\ availableLiquidity[r] \in Nat
    BY DEF Typed, TypeInv, TypeOK, Accounts
  <1>2. PICK withdrawn : withdrawn = IF amount = MaxUint THEN Balance(u, r) ELSE amount
    OBVIOUS
  <1>3. withdrawn \in Nat /\ RayDiv(withdrawn, liquidityIndex[r]) = withdrawn
    BY <1>1, <1>2, BalanceType, FlatAmounts
  <1>4. /\ withdrawn # 0 /\ withdrawn <= scaledBalance[r][u]
        /\ withdrawn <= availableLiquidity[r]
        /\ scaledBalance' = [scaledBalance EXCEPT ![r][u] = @ - withdrawn]
        /\ availableLiquidity' = [availableLiquidity EXCEPT
               ![r] = @ - (IF forgo THEN 0 ELSE withdrawn)]
        /\ UNCHANGED debts
    BY <1>2, <1>3 DEF Withdraw
  <1>5. withdrawn \in 1 .. availableLiquidity[r]
    BY <1>1, <1>3, <1>4
  <1>6. CASE forgo
    <2>1. availableLiquidity' = availableLiquidity
      BY <1>4, <1>6 DEF Typed, TypeInv, TypeOK
    <2>2. Ledger!Forgo(u, r, withdrawn)
      BY <1>4, <1>6, <2>1, SameOwedBook DEF Ledger!Forgo
    <2> QED
      BY <1>5, <2>2
  <1>7. CASE ~forgo
    <2>1. Ledger!Withdraw(u, r, withdrawn)
      BY <1>4, <1>7, SameOwedBook DEF Ledger!Withdraw
    <2> QED
      BY <1>5, <2>1
  <1> QED
    BY <1>6, <1>7

LEMMA TransferEntry ==
    ASSUME Typed, Flat, NEW from \in Users, NEW to \in Users, NEW r \in Reserves,
           NEW amount \in Nat, Transfer(from, to, r, amount)
    PROVE  \E x \in 1 .. scaledBalance[r][from] : Ledger!Give(from, to, r, x)
  <1>1. /\ scaledBalance \in [Reserves -> [Accounts -> Nat]]
        /\ from \in Accounts /\ to \in Accounts
    BY DEF Typed, TypeInv, TypeOK, Accounts
  <1>2. RayDiv(amount, liquidityIndex[r]) = amount
    BY FlatAmounts DEF Typed, TypeInv
  <1>3. /\ from # to /\ amount # 0 /\ amount <= scaledBalance[r][from]
        /\ scaledBalance' = [scaledBalance EXCEPT ![r] = Move(@, from, to, amount)]
        /\ availableLiquidity' = availableLiquidity
        /\ UNCHANGED debts
    BY <1>2 DEF Transfer
  <1>4. amount \in 1 .. scaledBalance[r][from]
    BY <1>1, <1>3
  <1>5. scaledBalance' = [scaledBalance EXCEPT ![r][from] = @ - amount, ![r][to] = @ + amount]
    BY <1>1, <1>3 DEF Move
  <1>6. Ledger!Give(from, to, r, amount)
    BY <1>3, <1>5, SameOwedBook DEF Ledger!Give
  <1> QED
    BY <1>4, <1>6

LEMMA BorrowEntry ==
    ASSUME Typed, Flat, NEW u \in Users, NEW r \in Reserves, NEW amount \in Nat, NEW mode,
           Borrow(u, r, amount, mode)
    PROVE  \E x \in 1 .. availableLiquidity[r] : Ledger!Borrow(u, r, x)
  <1>1. availableLiquidity[r] \in Nat
    BY DEF Typed, TypeInv, TypeOK
  <1>2. /\ amount # 0 /\ amount <= availableLiquidity[r]
        /\ MintDebt(u, r, amount, mode)
        /\ availableLiquidity' = [availableLiquidity EXCEPT ![r] = @ - amount]
        /\ scaledBalance' = scaledBalance
    BY DEF Borrow, BorrowAs, ValidBorrow
  <1>3. amount \in 1 .. availableLiquidity[r]
    BY <1>1, <1>2
  <1>4. Ledger!Borrow(u, r, amount)
    BY <1>2, MintOwed DEF Ledger!Borrow
  <1> QED
    BY <1>3, <1>4

LEMMA RepayEntry ==
    ASSUME Typed, Flat, NEW u \in Users, NEW r \in Reserves, NEW amount \in Nat,
           NEW mode \in Modes, Repay(u, r, amount, mode)
    PROVE  \E x \in 1 .. OwedBook[r][u] : Ledger!Repay(u, r, x)
  <1>1. TypeOK /\ TypeInv /\ OwedBook[r][u] \in Nat /\ DebtOf(u, r, mode) \in Nat
    BY OwedBookType, DebtOfType DEF Typed, TypeInv
  <1>2. PICK payback : payback = Least(amount, DebtOf(u, r, mode))
    OBVIOUS
  <1>3. /\ amount # 0 /\ DebtOf(u, r, mode) # 0
        /\ BurnDebt(u, r, payback, mode)
        /\ availableLiquidity' = [availableLiquidity EXCEPT ![r] = @ + payback]
        /\ scaledBalance' = scaledBalance
    BY <1>2 DEF Repay, RepayDebt
  <1>4. payback \in Nat /\ payback # 0
    BY <1>1, <1>2, <1>3 DEF Least
  <1>5. /\ OwedBook' = [OwedBook EXCEPT ![r][u] = @ - payback]
        /\ payback <= OwedBook[r][u]
    BY <1>3, <1>4, BurnOwed
  <1>6. Ledger!Repay(u, r, payback)
    BY <1>3, <1>5 DEF Ledger!Repay
  <1> QED
    BY <1>1, <1>4, <1>5, <1>6

LEMMA RepayWithRSTokensEntry ==
    ASSUME Typed, Flat, NEW u \in Users, NEW r \in Reserves, NEW amount \in Nat,
           NEW mode \in Modes, RepayWithRSTokens(u, r, amount, mode)
    PROVE  \E x \in 1 .. OwedBook[r][u] : Ledger!SetOff(u, r, x)
  <1>1. /\ TypeOK /\ TypeInv /\ OwedBook[r][u] \in Nat /\ DebtOf(u, r, mode) \in Nat
        /\ u \in Accounts
    BY OwedBookType, DebtOfType DEF Typed, TypeInv, Accounts
  <1>2. PICK offered : offered = IF amount = MaxUint THEN Balance(u, r) ELSE amount
    OBVIOUS
  <1>3. PICK payback : payback = Least(offered, DebtOf(u, r, mode))
    OBVIOUS
  <1>4. payback \in Nat /\ RayDiv(payback, liquidityIndex[r]) = payback
    BY <1>1, <1>2, <1>3, BalanceType, LeastType, FlatAmounts
  <1>5. /\ BurnDebt(u, r, payback, mode)
        /\ payback # 0 /\ payback <= scaledBalance[r][u]
        /\ scaledBalance' = [scaledBalance EXCEPT ![r][u] = @ - payback]
        /\ availableLiquidity' = availableLiquidity
    BY <1>2, <1>3, <1>4 DEF RepayWithRSTokens, RepayDebt
  <1>6. /\ OwedBook' = [OwedBook EXCEPT ![r][u] = @ - payback]
        /\ payback <= OwedBook[r][u]
    BY <1>4, <1>5, BurnOwed
  <1>7. Ledger!SetOff(u, r, payback)
    BY <1>5, <1>6 DEF Ledger!SetOff
  <1> QED
    BY <1>1, <1>4, <1>5, <1>6, <1>7

(* A debt that changes its rate mode is the same debt. *)
LEMMA SwapEntry ==
    ASSUME Typed, Flat, NEW u \in Users, NEW r \in Reserves, NEW mode,
           SwapBorrowRateMode(u, r, mode)
    PROVE  UNCHANGED <<availableLiquidity, scaledBalance, OwedBook>>
  <1>1. TypeOK /\ TypeOK'
    BY DEF Typed, TypeInv
  <1>2. /\ scaledDebt \in [Reserves -> [Users -> Nat]]
        /\ stableDebt \in [Reserves -> [Users -> Nat]]
    BY <1>1 DEF TypeOK
  <1>3. /\ VariableDebt(u, r) = scaledDebt[r][u]
        /\ RayDiv(stableDebt[r][u], variableIndex[r]) = stableDebt[r][u]
        /\ RayDiv(scaledDebt[r][u], variableIndex[r]) = scaledDebt[r][u]
    BY <1>1, <1>2, FlatAmounts
  <1>4. \/ /\ stableDebt' = [stableDebt EXCEPT ![r][u] = 0]
           /\ scaledDebt' = [scaledDebt EXCEPT ![r][u] = @ + stableDebt[r][u]]
        \/ /\ stableDebt' = [stableDebt EXCEPT ![r][u] = @ + scaledDebt[r][u]]
           /\ scaledDebt' = [scaledDebt EXCEPT ![r][u] = @ - scaledDebt[r][u]]
    BY <1>3 DEF SwapBorrowRateMode
  <1>5. /\ scaledDebt'[r][u] + stableDebt'[r][u] = OwedBook[r][u]
        /\ OwedBook[r][u] \in Nat
    BY <1>2, <1>4 DEF OwedBook
  <1>6. \A v \in Users, s \in Reserves : v # u \/ s # r =>
            scaledDebt'[s][v] = scaledDebt[s][v] /\ stableDebt'[s][v] = stableDebt[s][v]
    BY <1>2, <1>4
  <1>7. OwedBook' = [OwedBook EXCEPT ![r][u] = OwedBook[r][u]]
    BY <1>1, <1>5, <1>6, OneOwed
  <1>8. OwedBook' = OwedBook
    BY <1>1, <1>7, OwedBookType
  <1> QED
    BY <1>8 DEF SwapBorrowRateMode

LEMMA LiquidatedOwed ==
    ASSUME Typed, Flat, NEW u \in Users, NEW d \in Reserves, NEW amount \in Nat,
           BurnLiquidatedDebt(u, d, amount)
    PROVE  /\ OwedBook' = [OwedBook EXCEPT ![d][u] = @ - amount]
           /\ amount <= OwedBook[d][u]
  <1>1. TypeOK /\ TypeOK'
    BY DEF Typed, TypeInv
  <1>2. /\ scaledDebt \in [Reserves -> [Users -> Nat]]
        /\ stableDebt \in [Reserves -> [Users -> Nat]]
    BY <1>1 DEF TypeOK
  <1>3. PICK variable : variable = Least(amount, VariableDebt(u, d))
    OBVIOUS
  <1>4. variable \in Nat /\ variable <= amount /\ RayDiv(variable, variableIndex[d]) = variable
    BY <1>1, <1>3, VariableDebtType, LeastType, FlatAmounts
  <1>5. /\ variable <= scaledDebt[d][u]
        /\ amount - variable <= stableDebt[d][u]
        /\ scaledDebt' = [scaledDebt EXCEPT ![d][u] = @ - variable]
        /\ stableDebt' = [stableDebt EXCEPT ![d][u] = @ - (amount - variable)]
    BY <1>3, <1>4 DEF BurnLiquidatedDebt
  <1>6. /\ scaledDebt'[d][u] + stableDebt'[d][u] = OwedBook[d][u] - amount
        /\ amount <= OwedBook[d][u] /\ OwedBook[d][u] - amount \in Nat
    BY <1>2, <1>4, <1>5 DEF OwedBook
  <1>7. \A v \in Users, s \in Reserves : v # u \/ s # d =>
            scaledDebt'[s][v] = scaledDebt[s][v] /\ stableDebt'[s][v] = stableDebt[s][v]
    BY <1>2, <1>5
  <1>8. OwedBook' = [OwedBook EXCEPT ![d][u] = OwedBook[d][u] - amount]
    BY <1>1, <1>6, <1>7, OneOwed
  <1> QED
    BY <1>1, <1>6, <1>8, OwedBookType

(* The balances b of one asset after a liquidator was paid, and after the fee. *)
PaidOut(b, u, l, taken, kept) ==
    IF kept THEN Move(b, u, l, taken) ELSE [b EXCEPT ![u] = @ - taken]

SeizedFrom(b, u, l, taken, fee, kept) ==
    Move(PaidOut(b, u, l, taken, kept), u, Treasury,
         Least(fee, PaidOut(b, u, l, taken, kept)[u]))

(* What the ledger says of claims seized, from what happens to one balance. *)
LEMMA SeizedClaims ==
    ASSUME NEW b \in [Accounts -> Nat], NEW u \in Users, NEW l \in Users,
           NEW taken \in Nat, NEW fee \in Nat, taken + fee <= b[u], NEW kept \in BOOLEAN
    PROVE  /\ SeizedFrom(b, u, l, taken, fee, kept) \in [Accounts -> Int]
           /\ \A a \in Accounts : SeizedFrom(b, u, l, taken, fee, kept)[a] =
                  b[a] - (IF a = u THEN taken + fee ELSE 0)
                       + (IF a = l /\ kept THEN taken ELSE 0)
                       + (IF a = Treasury THEN fee ELSE 0)
  <1> DEFINE after == PaidOut(b, u, l, taken, kept)
  <1> HIDE DEF after
  <1>1. /\ u \in Accounts /\ l \in Accounts /\ Treasury \in Accounts
        /\ u # Treasury /\ l # Treasury
    BY NamesAssumption DEF Accounts
  <1>2. /\ after \in [Accounts -> Int]
        /\ \A a \in Accounts : after[a] = b[a] - (IF a = u THEN taken ELSE 0)
                                              + (IF a = l /\ kept THEN taken ELSE 0)
    <2>1. CASE kept /\ u # l
      <3>1. after = [b EXCEPT ![u] = @ - taken, ![l] = @ + taken]
        BY <2>1 DEF after, Move, PaidOut
      <3> QED
        BY <1>1, <2>1, <3>1
    <2>2. CASE kept /\ u = l
      <3>1. after = b
        BY <2>2 DEF after, Move, PaidOut
      <3> QED
        BY <1>1, <2>2, <3>1
    <2>3. CASE ~kept
      <3>1. after = [b EXCEPT ![u] = @ - taken]
        BY <2>3 DEF after, PaidOut
      <3> QED
        BY <1>1, <2>3, <3>1
    <2> QED
      BY <2>1, <2>2, <2>3
  <1>3. Least(fee, after[u]) = fee
    <2>1. after[u] >= fee /\ after[u] \in Int
      BY <1>1, <1>2
    <2> QED
      BY <2>1 DEF Least
  <1>4. Move(after, u, Treasury, fee) = [after EXCEPT ![u] = @ - fee, ![Treasury] = @ + fee]
    BY <1>1 DEF Move
  <1>5. ASSUME NEW a \in Accounts
        PROVE  [after EXCEPT ![u] = @ - fee, ![Treasury] = @ + fee][a]
                   = b[a] - (IF a = u THEN taken + fee ELSE 0)
                          + (IF a = l /\ kept THEN taken ELSE 0)
                          + (IF a = Treasury THEN fee ELSE 0)
    <2>1. b[a] \in Nat /\ after[a] \in Int
      BY <1>2
    <2>2. [after EXCEPT ![u] = @ - fee, ![Treasury] = @ + fee][a]
              = after[a] - (IF a = u THEN fee ELSE 0) + (IF a = Treasury THEN fee ELSE 0)
      BY <1>1, <1>2, <2>1
    <2> QED
      BY <1>1, <1>2, <2>1, <2>2
  <1>6. [after EXCEPT ![u] = @ - fee, ![Treasury] = @ + fee] \in [Accounts -> Int]
    BY <1>1, <1>2
  <1>7. SeizedFrom(b, u, l, taken, fee, kept) =
            [after EXCEPT ![u] = @ - fee, ![Treasury] = @ + fee]
    BY <1>3, <1>4 DEF after, SeizedFrom
  <1> QED
    BY <1>5, <1>6, <1>7

LEMMA LiquidationEntry ==
    ASSUME Typed, Flat, NEW l \in Users, NEW u \in Users, NEW c \in Reserves,
           NEW d \in Reserves, NEW cover \in Nat, NEW receive \in BOOLEAN,
           LiquidationCall(l, u, c, d, cover, receive)
    PROVE  Ledger!Liquidate(l, u, c, d)
  <1>1. /\ TypeOK /\ TypeInv /\ u \in Accounts
        /\ OwedBook[d][u] \in Nat
        /\ scaledBalance \in [Reserves -> [Accounts -> Nat]]
    <2>1. TypeOK /\ TypeInv
      BY DEF Typed, TypeInv
    <2>2. OwedBook \in [Reserves -> [Users -> Nat]]
      BY <2>1, OwedBookType
    <2>3. scaledBalance \in [Reserves -> [Accounts -> Nat]]
      BY <2>1 DEF TypeOK
    <2> QED
      BY <2>1, <2>2, <2>3 DEF Accounts
  <1>2. PICK amounts, taken, fee, paid :
            /\ amounts = LiquidationAmounts(u, c, d, Least(cover, MaxLiquidatableDebt(u, d)))
            /\ taken = amounts.collateral /\ fee = amounts.fee /\ paid = amounts.debt
    OBVIOUS
  <1>3. /\ taken \in Nat /\ fee \in Nat /\ paid \in Nat
        /\ taken + fee <= scaledBalance[c][u]
    <2>1. TypeInv /\ Least(cover, MaxLiquidatableDebt(u, d)) \in Nat
      BY MaxLiquidatableType, LeastType DEF Typed
    <2>2. config[c].liquidationThreshold # 0
      BY DEF LiquidationCall, ValidLiquidation
    <2>3. Balance(u, c) = scaledBalance[c][u]
      BY <1>1, FlatAmounts
    <2> QED
      BY <1>2, <2>1, <2>2, <2>3, LiquidationAmountsType
  <1>4. RayDiv(taken, liquidityIndex[c]) = taken /\ RayDiv(fee, liquidityIndex[c]) = fee
    BY <1>1, <1>3, FlatAmounts
  <1>5. PICK seized : seized = SeizedFrom(scaledBalance[c], u, l, taken, fee, receive)
    OBVIOUS
  <1>6. /\ Debt(u, d) # 0
        /\ ~receive => taken <= availableLiquidity[c]
        /\ BurnLiquidatedDebt(u, d, paid)
        /\ scaledBalance' = [scaledBalance EXCEPT ![c] = seized]
        /\ availableLiquidity' = [r \in Reserves |->
               availableLiquidity[r] - (IF r = c THEN IF receive THEN 0 ELSE taken ELSE 0)
                                     + (IF r = d THEN paid ELSE 0)]
    BY <1>2, <1>4, <1>5 DEF LiquidationCall, ValidLiquidation, SeizedFrom, PaidOut
  <1>7. OwedBook[d][u] # 0
    <2>1. Debt(u, d) = scaledDebt[d][u] + stableDebt[d][u]
      BY <1>1, FlatAmounts
    <2> QED
      BY <1>6, <2>1 DEF OwedBook
  <1>8. /\ OwedBook' = [OwedBook EXCEPT ![d][u] = @ - paid]
        /\ paid <= OwedBook[d][u]
    BY <1>3, <1>6, LiquidatedOwed
  <1>9. Ledger!Seize(l, u, c, d, paid, taken, fee, receive)
    <2>1. /\ seized \in [Accounts -> Int]
          /\ \A a \in Accounts : seized[a] =
                 scaledBalance[c][a] - (IF a = u THEN taken + fee ELSE 0)
                                     + (IF a = l /\ receive THEN taken ELSE 0)
                                     + (IF a = Treasury THEN fee ELSE 0)
      <3>1. scaledBalance[c] \in [Accounts -> Nat]
        BY <1>1
      <3> QED
        BY <1>3, <1>5, <3>1, SeizedClaims
    <2>2. seized = [a \in Accounts |->
              scaledBalance[c][a] - (IF a = u THEN taken + fee ELSE 0)
                                  + (IF a = l /\ receive THEN taken ELSE 0)
                                  + (IF a = Treasury THEN fee ELSE 0)]
      BY <2>1
    <2>3. scaledBalance' = [scaledBalance EXCEPT ![c] = [a \in Accounts |->
              scaledBalance[c][a] - (IF a = u THEN taken + fee ELSE 0)
                                  + (IF a = l /\ receive THEN taken ELSE 0)
                                  + (IF a = Treasury THEN fee ELSE 0)]]
      BY <1>6, <2>1, <2>2, Zenon
    <2>4. availableLiquidity' = [r \in Reserves |->
              availableLiquidity[r] - (IF r = c /\ ~receive THEN taken ELSE 0)
                                    + (IF r = d THEN paid ELSE 0)]
      BY <1>6
    <2> QED
      BY <1>3, <2>3, <2>4 DEF Ledger!Seize, Accounts
  <1>10. /\ paid \in 0 .. OwedBook[d][u]
         /\ taken \in 0 .. scaledBalance[c][u]
         /\ fee \in 0 .. scaledBalance[c][u]
    BY <1>1, <1>3, <1>8
  <1> QED
    BY <1>6, <1>7, <1>8, <1>9, <1>10 DEF Ledger!Liquidate

LEMMA UserStepEntry ==
    ASSUME Typed, Flat, NEW u \in Users, NEW r \in Reserves, UserStep(u, r)
    PROVE  \/ Ledger!UserEntry(u, r)
           \/ UNCHANGED <<availableLiquidity, scaledBalance, OwedBook>>
  <1>1. \A amount \in Amounts[r] \cup Requests(r) : amount \in Nat
    BY RequestAssumption, NamesAssumption DEF Requests
  <1>2. CASE \E caller \in {u} \cup IsolatedSuppliers, amount \in Amounts[r] :
                 Supply(caller, u, r, amount)
    BY <1>1, <1>2, SupplyEntry DEF Ledger!UserEntry
  <1>3. CASE \E amount \in Requests(r), forgo \in BOOLEAN :
               (forgo => r \in Forgoing) /\ Withdraw(u, r, amount, forgo)
    BY <1>1, <1>3, WithdrawEntry DEF Ledger!UserEntry
  <1>4. CASE \E to \in Users, amount \in Amounts[r] : Transfer(u, to, r, amount)
    BY <1>1, <1>4, TransferEntry DEF Ledger!UserEntry
  <1>5. CASE \E use \in BOOLEAN : SetUserUseReserveAsCollateral(u, r, use)
    BY <1>5, SameOwedBook DEF SetUserUseReserveAsCollateral
  <1>6. CASE \E amount \in Amounts[r], mode \in Modes : Borrow(u, r, amount, mode)
    BY <1>1, <1>6, BorrowEntry DEF Ledger!UserEntry
  <1>7. CASE \E amount \in Requests(r), mode \in Modes : Repay(u, r, amount, mode)
    BY <1>1, <1>7, RepayEntry DEF Ledger!UserEntry
  <1>8. CASE \E amount \in Requests(r), mode \in Modes : RepayWithRSTokens(u, r, amount, mode)
    BY <1>1, <1>8, RepayWithRSTokensEntry DEF Ledger!UserEntry
  <1>9. CASE \E mode \in Modes : SwapBorrowRateMode(u, r, mode)
    BY <1>9, SwapEntry
  <1> QED
    BY <1>2, <1>3, <1>4, <1>5, <1>6, <1>7, <1>8, <1>9 DEF UserStep

LEMMA StepEntry ==
    ASSUME NothingAccrues, Typed, Flat, [Next]_vars
    PROVE  Ledger!Next \/ UNCHANGED <<availableLiquidity, scaledBalance, OwedBook>>
  <1>1. TypeOK
    BY DEF Typed, TypeInv
  <1>2. CASE UNCHANGED <<availableLiquidity, scaledBalance, debts>>
    BY <1>2, SameOwedBook
  <1>3. CASE \E u \in Users, r \in Reserves : UserStep(u, r)
    BY <1>3, UserStepEntry DEF Ledger!Next
  <1>4. CASE \E u \in Users, c \in Categories \cup {0} : SetUserEMode(u, c)
    BY <1>2, <1>4 DEF SetUserEMode
  <1>5. CASE Liquidate
    <2>1. PICK l \in Users, u \in Users, c \in Reserves, d \in Reserves, receive \in BOOLEAN,
               cover \in Nat : LiquidationCall(l, u, c, d, cover, receive)
      BY <1>5, RequestType DEF Liquidate
    <2> QED
      BY <2>1, LiquidationEntry DEF Ledger!Next
  <1>6. CASE Environment
    <2>1. UNCHANGED positions
      BY <1>1, <1>6, FlatStep DEF Environment, SetPrice, SetSentinel
    <2> QED
      BY <1>2, <2>1 DEF positions
  <1>7. CASE UNCHANGED vars
    BY <1>2, <1>7 DEF vars
  <1> QED
    BY <1>3, <1>4, <1>5, <1>6, <1>7 DEF Next

LEMMA InitEntry == Init => Ledger!Init
  <1> SUFFICES ASSUME Init PROVE Ledger!Init
    OBVIOUS
  <1>1. OwedBook = [r \in Reserves |-> [u \in Users |-> 0]]
    BY DEF Init, OwedBook
  <1> QED
    BY <1>1 DEF Init, Ledger!Init, Accounts

(***************************************************************************)
(* While nothing accrues, the pool with all that decides whether an        *)
(* operation may be made (rate modes, bits, eMode, isolation, caps,        *)
(* prices, the sentinel) is an implementation of a ledger of cash, claims  *)
(* and debts: each of its steps makes the one entry its name says, or none *)
(* at all.  Nobody's claims shrink but by his own act or by a liquidation  *)
(* while he owes, and nobody's debt grows but by a loan paid out to him.   *)
(* A withdrawal to the RSToken itself is the entry Forgo: claims given up, *)
(* for which nothing is paid.                                              *)
(***************************************************************************)
THEOREM LedgerHolds ==
    ASSUME NothingAccrues
    PROVE  Spec => KeepsTheLedger
  <1>1. BooksInv /\ [Next]_vars => [Ledger!Next]_<<availableLiquidity, scaledBalance, OwedBook>>
    <2> SUFFICES ASSUME BooksInv, [Next]_vars
                 PROVE  Ledger!Next \/ UNCHANGED <<availableLiquidity, scaledBalance, OwedBook>>
      OBVIOUS
    <2> QED
      BY StepEntry, StepType DEF BooksInv, TypeInv, Typed
  <1>2. Init => Ledger!Init
    BY InitEntry
  <1> QED
    BY <1>1, <1>2, BooksInductive, PTL DEF Spec, KeepsTheLedger, Ledger!Spec, Ledger!books

-----------------------------------------------------------------------------
(* What counts against debt ceilings. *)

(* Debt without collateral is not healthy. *)
HealthNeedsCollateral ==
    FlagInv => \A u \in Users :
        usingAsCollateral[u] = {} /\ (borrowing[u] # {} => IsHealthy(u, eMode[u]))
            => \A r \in Reserves : Owes(u, r) = 0

LEMMA AssetPriceType ==
    ASSUME TypeOK, NEW r \in Reserves, NEW c \in Categories \cup {0}
    PROVE  AssetPrice(r, c) \in Nat \ {0}
  <1>1. price \in [Reserves \cup PriceSources -> Nat \ {0}]
    BY DEF TypeOK
  <1>2. CASE IsInEModeCategory(r, c) /\ EModePrice(c) # 0
    <2>1. c \in Categories /\ categories[c].priceSource # NoSource
      BY <1>2 DEF EModePrice
    <2>2. categories[c].priceSource \in PriceSources
      BY <2>1 DEF TypeOK, EModeCategory
    <2>3. EModePrice(c) = price[categories[c].priceSource]
      BY <1>2 DEF EModePrice
    <2> QED
      BY <1>1, <1>2, <2>2, <2>3 DEF AssetPrice
  <1>3. CASE ~(IsInEModeCategory(r, c) /\ EModePrice(c) # 0)
    BY <1>1, <1>3 DEF AssetPrice
  <1> QED
    BY <1>2, <1>3

LEMMA NoCollateralNoHealth == HealthNeedsCollateral
  <1> SUFFICES ASSUME FlagInv, NEW u \in Users, usingAsCollateral[u] = {},
                      borrowing[u] # {} => IsHealthy(u, eMode[u]), NEW r \in Reserves
               PROVE  Owes(u, r) = 0
    BY DEF HealthNeedsCollateral
  <1>1. TypeOK /\ scaledDebt[r][u] \in Nat /\ stableDebt[r][u] \in Nat
    BY DEF FlagInv, TypeInv, TypeOK
  <1>2. CASE r \notin borrowing[u]
    BY <1>1, <1>2 DEF FlagInv, DebtIsFlagged, Owes
  <1>3. CASE r \in borrowing[u]
    <2>1. PICK c \in Categories \cup {0} : c = eMode[u]
      BY <1>1 DEF TypeOK
    <2>2. borrowing[u] \in SUBSET Reserves /\ IsFiniteSet(borrowing[u])
      BY <1>1, NamesAssumption, FS_Subset DEF TypeOK
    <2>3. PICK owed : owed = [s \in borrowing[u] |-> Debt(u, s) * AssetPrice(s, c)]
      OBVIOUS
    <2>4. owed \in [borrowing[u] -> Nat]
      <3>1. \A s \in borrowing[u] : Debt(u, s) * AssetPrice(s, c) \in Nat
        <4> SUFFICES ASSUME NEW s \in borrowing[u] PROVE Debt(u, s) * AssetPrice(s, c) \in Nat
          OBVIOUS
        <4>1. Debt(u, s) \in Nat /\ AssetPrice(s, c) \in Nat
          BY <1>1, <2>2, VariableDebtType, AssetPriceType
        <4> QED
          BY <4>1
      <3> QED
        BY <2>3, <3>1
    <2>5. PICK debt \in Nat : debt = SumFunctionOnSet(owed, borrowing[u])
      BY <2>2, <2>4, SumType
    <2>6. UserAccountData(u, c).healthFactor =
              IF debt = 0 THEN MaxUint ELSE WadDiv(PercentMul(0, 0), debt)
      <3>1. {s \in usingAsCollateral[u] : config[s].liquidationThreshold # 0} = {}
        OBVIOUS
      <3>2. SumFunctionOnSet([s \in {} |->
                [v \in {} |-> Balance(u, v) * AssetPrice(v, c)][s]], {}) = 0
        BY SumEmpty
      <3> QED
        BY <2>3, <2>5, <3>1, <3>2 DEF UserAccountData, SumOver
    <2>7. debt = 0
      <3> SUFFICES ASSUME debt # 0 PROVE FALSE
        OBVIOUS
      <3>1. PercentMul(0, 0) = 0
        <4>1. PERCENTAGE_FACTOR \in Nat \ {0}
          BY UnitAssumption
        <4>2. (PERCENTAGE_FACTOR \div 2) \in Nat /\ PERCENTAGE_FACTOR \div 2 < PERCENTAGE_FACTOR
          BY <4>1, HalfBounds
        <4>3. (PERCENTAGE_FACTOR \div 2) \div PERCENTAGE_FACTOR = 0
          BY <4>1, <4>2, DivUnique
        <4> QED
          BY <4>2, <4>3 DEF PercentMul
      <3>2. WadDiv(0, debt) = 0
        <4>1. (debt \div 2) \in Nat /\ debt \div 2 < debt
          BY HalfBounds
        <4>2. (debt \div 2) \div debt = 0
          BY <4>1, DivUnique
        <4>3. 0 * WAD + (debt \div 2) = debt \div 2
          BY <4>1, UnitAssumption
        <4> QED
          BY <4>2, <4>3 DEF WadDiv
      <3>3. HealthFactor(u, c) = 0
        BY <1>3, <2>6, <3>1, <3>2 DEF HealthFactor
      <3>4. HealthFactor(u, c) >= WAD
        BY <1>3, <2>1 DEF IsHealthy
      <3> QED
        BY <3>3, <3>4, UnitAssumption
    <2>8. owed[r] = 0
      <3>1. owed[r] <= debt /\ owed[r] \in Nat
        BY <1>3, <2>2, <2>4, <2>5, SumBound
      <3> QED
        BY <2>7, <3>1
    <2>9. Debt(u, r) = 0
      <3>1. Debt(u, r) \in Nat /\ AssetPrice(r, c) \in Nat \ {0}
        BY <1>1, VariableDebtType, AssetPriceType
      <3>2. Debt(u, r) * AssetPrice(r, c) = 0
        BY <1>3, <2>3, <2>8
      <3> QED
        BY <3>1, <3>2
    <2>10. VariableDebt(u, r) = 0 /\ stableDebt[r][u] = 0
      <3>1. VariableDebt(u, r) \in Nat
        BY <1>1, VariableDebtType
      <3> QED
        BY <1>1, <2>9, <3>1 DEF Debt
    <2> QED
      BY <1>1, <2>10, NoDebt DEF Owes
  <1> QED
    BY <1>2, <1>3

LEMMA NoCollateralNoHealthNext == HealthNeedsCollateral'
  BY NoCollateralNoHealth, PTL

(* The debts of u of all assets; what of it counts against the ceiling of k; and what
   counts of everybody's. *)
Exposure(u) == SumFunctionOnSet([r \in Reserves |-> OwedBook[r][u]], Reserves)

Counted(u, k) == IF usingAsCollateral[u] = {k} THEN Exposure(u) ELSE 0

Exposed(k) == SumFunctionOnSet([u \in Users |-> Counted(u, k)], Users)

Covered == \A u \in Users : usingAsCollateral[u] = {} => \A r \in Reserves : Owes(u, r) = 0

ExposureCounted ==
    \A k \in Reserves : isolationModeTotalDebt[k] =
        IF config[k].debtCeiling # 0 THEN Exposed(k) ELSE 0

WholeUnits == \A r \in Reserves : config[r].debtUnit = 1

CeilingInv ==
    /\ FlagInv /\ Flat /\ IsolatedCollateralIsAlone /\ WholeUnits
    /\ Covered /\ ExposureCounted

LEMMA OwedIsOwed ==
    \A u \in Users, r \in Reserves : OwedBook[r][u] = Owes(u, r)
  BY DEF OwedBook, Owes

LEMMA ExposureType ==
    ASSUME TypeOK, NEW u \in Users
    PROVE  /\ Exposure(u) \in Nat
           /\ \A k : Counted(u, k) \in Nat
           /\ \A r \in Reserves : OwedBook[r][u] <= Exposure(u)
  <1>1. PICK f \in [Reserves -> Nat] : f = [r \in Reserves |-> OwedBook[r][u]]
    BY OwedBookType
  <1>2. SumFunctionOnSet(f, Reserves) \in Nat
    BY NamesAssumption, SumType
  <1>3. \A r \in Reserves : f[r] <= SumFunctionOnSet(f, Reserves)
    BY NamesAssumption, SumBound
  <1>4. Exposure(u) = SumFunctionOnSet(f, Reserves)
    BY <1>1 DEF Exposure
  <1>5. \A r \in Reserves : OwedBook[r][u] = f[r]
    BY <1>1
  <1> QED
    BY <1>2, <1>3, <1>4, <1>5 DEF Counted

LEMMA ExposedType ==
    ASSUME TypeOK, NEW k
    PROVE  /\ Exposed(k) \in Nat
           /\ \A u \in Users : Counted(u, k) <= Exposed(k)
  <1>1. \A u \in Users : Counted(u, k) \in Nat
    BY ExposureType
  <1>2. PICK f \in [Users -> Nat] : f = [u \in Users |-> Counted(u, k)]
    BY <1>1
  <1>3. SumFunctionOnSet(f, Users) \in Nat
    BY NamesAssumption, SumType
  <1>4. \A u \in Users : f[u] <= SumFunctionOnSet(f, Users)
    BY NamesAssumption, SumBound
  <1>5. Exposed(k) = SumFunctionOnSet(f, Users)
    BY <1>2 DEF Exposed
  <1>6. \A u \in Users : Counted(u, k) = f[u]
    BY <1>2
  <1> QED
    BY <1>3, <1>4, <1>5, <1>6

(* Nobody who owes nothing counts. *)
LEMMA NoExposure ==
    ASSUME NEW u \in Users, \A r \in Reserves : Owes(u, r) = 0
    PROVE  Exposure(u) = 0
  <1>1. \A r \in Reserves : [s \in Reserves |-> OwedBook[s][u]][r] = 0
    BY OwedIsOwed
  <1> QED
    BY <1>1, NamesAssumption, SumOfZeros DEF Exposure

(* The exposure that the model sums over the isolated users. *)
LEMMA CeilingsAreExact ==
    ASSUME CeilingInv
    PROVE  IsolatedDebtIsExact
  <1> SUFFICES ASSUME NEW k \in Reserves, config[k].debtCeiling # 0
               PROVE  SumOver(LAMBDA u : SumOver(LAMBDA r : Debt(u, r), Reserves),
                          {u \in Users : usingAsCollateral[u] = {k}}) = Exposed(k)
    BY DEF IsolatedDebtIsExact, CeilingInv, ExposureCounted
  <1> DEFINE Isolated == {u \in Users : usingAsCollateral[u] = {k}}
  <1>1. TypeOK /\ Flat
    BY DEF CeilingInv, FlagInv, TypeInv
  <1>2. \A u \in Users : Counted(u, k) \in Nat
    BY <1>1, ExposureType
  <1>3. \A u \in Users : SumFunctionOnSet([r \in Reserves |-> Debt(u, r)], Reserves) = Exposure(u)
    <2> SUFFICES ASSUME NEW u \in Users
                 PROVE  SumFunctionOnSet([r \in Reserves |-> Debt(u, r)], Reserves) = Exposure(u)
      OBVIOUS
    <2>1. \A r \in Reserves : Debt(u, r) = OwedBook[r][u]
      BY <1>1, FlatAmounts DEF OwedBook
    <2>2. [r \in Reserves |-> Debt(u, r)] = [r \in Reserves |-> OwedBook[r][u]]
      BY <2>1
    <2> QED
      BY <2>2 DEF Exposure
  <1>4. PICK e : e = [u \in Isolated |->
                         SumFunctionOnSet([r \in Reserves |-> Debt(u, r)], Reserves)]
    OBVIOUS
  <1>5. PICK f : f = [u \in Users |-> Counted(u, k)]
    OBVIOUS
  <1>6. Isolated \in SUBSET Users
    OBVIOUS
  <1>7. \A u \in Isolated : e[u] = f[u] /\ f[u] \in Nat
    BY <1>2, <1>3, <1>4, <1>5 DEF Counted
  <1>8. \A u \in Users : u \notin Isolated => f[u] = 0
    BY <1>5 DEF Counted
  <1>9. SumFunctionOnSet(e, Isolated) = SumFunctionOnSet(f, Users)
    <2> HIDE DEF Isolated
    <2> QED
      BY <1>6, <1>7, <1>8, NamesAssumption, SumOfPart
  <1> QED
    BY <1>4, <1>5, <1>9 DEF SumOver, Exposed

(* What a transaction may do to the bits of u: the bit it sets is a valid collateral,
   and nobody who clears the last one owes anything. *)
BitStep(u) ==
    \/ usingAsCollateral'[u] = usingAsCollateral[u]
    \/ \E r \in Reserves : /\ ValidUseAsCollateral(u, r)
                           /\ usingAsCollateral'[u] = usingAsCollateral[u] \cup {r}
    \/ \E r \in Reserves : /\ usingAsCollateral'[u] = usingAsCollateral[u] \ {r}
                           /\ usingAsCollateral'[u] = {} =>
                                  \A s \in Reserves : Owes(u, s) = 0

(* Whoever enters or leaves isolation in k owes nothing. *)
LEMMA IsolationChange ==
    ASSUME CeilingInv, NEW u \in Users, NEW k \in Reserves, config[k].debtCeiling # 0, BitStep(u),
           (usingAsCollateral[u] = {k}) # (usingAsCollateral'[u] = {k})
    PROVE  \A r \in Reserves : Owes(u, r) = 0
  <1>1. usingAsCollateral[u] \in SUBSET Reserves
    BY DEF CeilingInv, FlagInv, TypeInv, TypeOK
  <1>2. CASE \E r \in Reserves : /\ ValidUseAsCollateral(u, r)
                                 /\ usingAsCollateral'[u] = usingAsCollateral[u] \cup {r}
    <2>1. usingAsCollateral[u] # {k}
      <3> SUFFICES ASSUME usingAsCollateral[u] = {k} PROVE FALSE
        OBVIOUS
      <3>1. IsolationModeActive(u)
        BY DEF IsolationModeActive, IsolationCollateral
      <3> QED
        BY <1>2, <3>1 DEF ValidUseAsCollateral
    <2>2. usingAsCollateral[u] = {}
      <3> SUFFICES ASSUME usingAsCollateral[u] # {} PROVE FALSE
        OBVIOUS
      <3>1. k \in usingAsCollateral'[u] /\ k \notin usingAsCollateral[u]
            /\ usingAsCollateral'[u] = {k}
        BY <1>2, <2>1
      <3> QED
        BY <1>2, <3>1
    <2> QED
      BY <2>2 DEF CeilingInv, Covered
  <1>3. CASE \E r \in Reserves : /\ usingAsCollateral'[u] = usingAsCollateral[u] \ {r}
                                 /\ usingAsCollateral'[u] = {} =>
                                        \A s \in Reserves : Owes(u, s) = 0
    <2>1. usingAsCollateral[u] = {k}
      <3> SUFFICES ASSUME usingAsCollateral'[u] = {k} PROVE usingAsCollateral[u] = {k}
        OBVIOUS
      <3>1. k \in usingAsCollateral[u]
        BY <1>3
      <3> QED
        BY <3>1 DEF CeilingInv, IsolatedCollateralIsAlone
    <2>2. usingAsCollateral'[u] = {}
      BY <1>3, <2>1
    <2> QED
      BY <1>3, <2>2
  <1> QED
    BY <1>2, <1>3 DEF BitStep

(* Bits alone change. *)
LEMMA BitsStep ==
    ASSUME CeilingInv, \A u \in Users : BitStep(u),
           UNCHANGED <<config, OwedBook, isolationModeTotalDebt>>
    PROVE  Covered' /\ ExposureCounted'
  <1>1. \A u \in Users, r \in Reserves : /\ OwedBook[r][u] = Owes(u, r)
                                         /\ OwedBook'[r][u] = Owes(u, r)'
    BY DEF OwedBook, Owes
  <1>2. \A u \in Users : Exposure(u)' = Exposure(u)
    BY DEF Exposure
  <1>3. \A u \in Users, r \in Reserves : Owes(u, r)' = Owes(u, r)
    BY <1>1
  <1>4. Covered'
    <2> SUFFICES ASSUME NEW u \in Users, usingAsCollateral'[u] = {}
                 PROVE  \A r \in Reserves : Owes(u, r) = 0
      BY <1>3 DEF Covered
    <2> QED
      BY DEF BitStep, CeilingInv, Covered
  <1>5. ASSUME NEW k \in Reserves, config[k].debtCeiling # 0
        PROVE  Exposed(k)' = Exposed(k)
    <2>1. \A u \in Users : Counted(u, k)' = Counted(u, k)
      <3> SUFFICES ASSUME NEW u \in Users PROVE Counted(u, k)' = Counted(u, k)
        OBVIOUS
      <3>1. CASE (usingAsCollateral[u] = {k}) = (usingAsCollateral'[u] = {k})
        BY <1>2, <3>1 DEF Counted
      <3>2. CASE (usingAsCollateral[u] = {k}) # (usingAsCollateral'[u] = {k})
        <4>1. Exposure(u) = 0
          BY <1>5, <3>2, IsolationChange, NoExposure
        <4> QED
          BY <1>2, <4>1 DEF Counted
      <3> QED
        BY <3>1, <3>2
    <2>2. [u \in Users |-> Counted(u, k)'] = [u \in Users |-> Counted(u, k)]
      BY <2>1
    <2> QED
      BY <2>2 DEF Exposed
  <1> QED
    BY <1>4, <1>5 DEF CeilingInv, ExposureCounted

SameIsolation(u) ==
    \A k \in Reserves : config[k].debtCeiling # 0 =>
        (usingAsCollateral'[u] = {k} <=> usingAsCollateral[u] = {k})

(* The debt of u in r becomes `owes`, and what counts against the ceiling of the asset
   u is isolated in changes by as much. *)
DebtStep(u, r, owes) ==
    /\ OwedBook' = [OwedBook EXCEPT ![r][u] = owes]
    /\ SameIsolation(u)
    /\ owes <= OwedBook[r][u] \/ usingAsCollateral'[u] # {}
    /\ isolationModeTotalDebt' = [k \in Reserves |->
           IF usingAsCollateral[u] = {k} /\ config[k].debtCeiling # 0
           THEN isolationModeTotalDebt[k] - OwedBook[r][u] + owes
           ELSE isolationModeTotalDebt[k]]

LEMMA ExposureChange ==
    ASSUME TypeOK, NEW u \in Users, NEW r \in Reserves, NEW owes \in Nat,
           DebtStep(u, r, owes)
    PROVE  /\ Exposure(u)' = Exposure(u) - OwedBook[r][u] + owes
           /\ \A v \in Users : v # u => Exposure(v)' = Exposure(v)
           /\ \A v \in Users, s \in Reserves : v # u \/ s # r => OwedBook'[s][v] = OwedBook[s][v]
           /\ OwedBook'[r][u] = owes
  <1>1. OwedBook \in [Reserves -> [Users -> Nat]]
    BY OwedBookType
  <1>2. /\ OwedBook'[r][u] = owes
        /\ \A v \in Users, s \in Reserves : v # u \/ s # r => OwedBook'[s][v] = OwedBook[s][v]
    BY <1>1 DEF DebtStep
  <1>3. PICK e, f : /\ e = [s \in Reserves |-> OwedBook[s][u]]
                    /\ f = [s \in Reserves |-> OwedBook'[s][u]]
    OBVIOUS
  <1>4. /\ e \in [Reserves -> Nat] /\ f \in [Reserves -> Nat]
        /\ e[r] = OwedBook[r][u] /\ f[r] = owes
        /\ \A s \in Reserves : s # r => f[s] = e[s]
    BY <1>1, <1>2, <1>3
  <1>5. SumFunctionOnSet(f, Reserves) = SumFunctionOnSet(e, Reserves) - e[r] + f[r]
    BY <1>4, NamesAssumption, SumChange
  <1>6. Exposure(u) = SumFunctionOnSet(e, Reserves) /\ Exposure(u)' = SumFunctionOnSet(f, Reserves)
    BY <1>3 DEF Exposure
  <1>7. ASSUME NEW v \in Users, v # u PROVE Exposure(v)' = Exposure(v)
    <2>1. [s \in Reserves |-> OwedBook'[s][v]] = [s \in Reserves |-> OwedBook[s][v]]
      BY <1>2, <1>7
    <2> QED
      BY <2>1 DEF Exposure
  <1> QED
    BY <1>2, <1>4, <1>5, <1>6, <1>7

LEMMA DebtSteps ==
    ASSUME CeilingInv, TypeOK', config' = config, \A v \in Users : BitStep(v),
           NEW u \in Users, NEW r \in Reserves, NEW owes \in Nat, DebtStep(u, r, owes)
    PROVE  Covered' /\ ExposureCounted'
  <1>1. TypeOK
    BY DEF CeilingInv, FlagInv, TypeInv
  <1>2. /\ Exposure(u)' = Exposure(u) - OwedBook[r][u] + owes
        /\ \A v \in Users : v # u => Exposure(v)' = Exposure(v)
        /\ \A v \in Users, s \in Reserves : v # u \/ s # r => OwedBook'[s][v] = OwedBook[s][v]
        /\ OwedBook'[r][u] = owes
    BY <1>1, ExposureChange
  <1>3. \A v \in Users, s \in Reserves : /\ OwedBook[s][v] = Owes(v, s)
                                         /\ OwedBook'[s][v] = Owes(v, s)'
    BY DEF OwedBook, Owes
  <1>4. Covered'
    <2> SUFFICES ASSUME NEW v \in Users, usingAsCollateral'[v] = {}, NEW s \in Reserves
                 PROVE  OwedBook'[s][v] = 0
      BY <1>3 DEF Covered
    <2>1. OwedBook[s][v] = 0
      BY <1>3 DEF BitStep, CeilingInv, Covered
    <2>2. CASE v # u \/ s # r
      BY <1>2, <2>1, <2>2
    <2>3. CASE v = u /\ s = r
      BY <1>2, <2>1, <2>3 DEF DebtStep
    <2> QED
      BY <2>2, <2>3
  <1>5. ASSUME NEW k \in Reserves, config[k].debtCeiling # 0
        PROVE  Exposed(k)' = IF usingAsCollateral[u] = {k}
                             THEN Exposed(k) - OwedBook[r][u] + owes ELSE Exposed(k)
    <2>1. ASSUME NEW v \in Users, v # u PROVE Counted(v, k)' = Counted(v, k)
      <3>1. CASE (usingAsCollateral[v] = {k}) = (usingAsCollateral'[v] = {k})
        BY <1>2, <2>1, <3>1 DEF Counted
      <3>2. CASE (usingAsCollateral[v] = {k}) # (usingAsCollateral'[v] = {k})
        <4>1. Exposure(v) = 0
          BY <1>5, <3>2, IsolationChange, NoExposure
        <4> QED
          BY <1>2, <2>1, <4>1 DEF Counted
      <3> QED
        BY <3>1, <3>2
    <2>2. PICK e, f : /\ e = [v \in Users |-> Counted(v, k)]
                      /\ f = [v \in Users |-> Counted(v, k)']
      OBVIOUS
    <2>3. \A v \in Users : Counted(v, k) \in Nat /\ Counted(v, k)' \in Nat
      <3>1. \A v \in Users : Counted(v, k) \in Nat
        BY <1>1, ExposureType
      <3>2. Counted(u, k)' \in Nat
        <4>1. Exposure(u) \in Nat /\ OwedBook[r][u] <= Exposure(u) /\ OwedBook[r][u] \in Nat
          BY <1>1, ExposureType, OwedBookType
        <4>2. Exposure(u)' \in Nat
          BY <1>2, <4>1
        <4> QED
          BY <4>2 DEF Counted
      <3> QED
        BY <2>1, <3>1, <3>2
    <2>4. /\ e \in [Users -> Nat] /\ f \in [Users -> Nat]
          /\ \A v \in Users : v # u => f[v] = e[v]
          /\ e[u] = Counted(u, k) /\ f[u] = Counted(u, k)'
      BY <2>1, <2>2, <2>3
    <2>5. SumFunctionOnSet(f, Users) = SumFunctionOnSet(e, Users) - e[u] + f[u]
      BY <2>4, NamesAssumption, SumChange
    <2>6. Exposed(k) = SumFunctionOnSet(e, Users) /\ Exposed(k)' = SumFunctionOnSet(f, Users)
      BY <2>2 DEF Exposed
    <2>7. SumFunctionOnSet(e, Users) \in Nat /\ Exposure(u) \in Nat /\ OwedBook[r][u] \in Nat
      BY <1>1, <2>4, NamesAssumption, SumType, ExposureType, OwedBookType
    <2>8. CASE usingAsCollateral[u] = {k}
      <3>1. e[u] = Exposure(u) /\ f[u] = Exposure(u) - OwedBook[r][u] + owes
        BY <1>2, <1>5, <2>4, <2>8 DEF Counted, DebtStep, SameIsolation
      <3> QED
        BY <2>5, <2>6, <2>7, <2>8, <3>1
    <2>9. CASE usingAsCollateral[u] # {k}
      <3>1. e[u] = 0 /\ f[u] = 0
        BY <1>5, <2>4, <2>9 DEF Counted, DebtStep, SameIsolation
      <3> QED
        BY <2>5, <2>6, <2>7, <2>9, <3>1
    <2> QED
      BY <2>8, <2>9
  <1>6. ASSUME NEW k \in Reserves
        PROVE  isolationModeTotalDebt'[k] = IF config[k].debtCeiling # 0 THEN Exposed(k)' ELSE 0
    <2>1. isolationModeTotalDebt[k] = IF config[k].debtCeiling # 0 THEN Exposed(k) ELSE 0
      BY DEF CeilingInv, ExposureCounted
    <2>2. isolationModeTotalDebt'[k] =
              IF usingAsCollateral[u] = {k} /\ config[k].debtCeiling # 0
              THEN isolationModeTotalDebt[k] - OwedBook[r][u] + owes
              ELSE isolationModeTotalDebt[k]
      BY DEF DebtStep
    <2> QED
      BY <1>5, <2>1, <2>2
  <1> QED
    BY <1>4, <1>6 DEF ExposureCounted

CeilingStep ==
    /\ \A v \in Users : BitStep(v)
    /\ \/ UNCHANGED <<OwedBook, isolationModeTotalDebt>>
       \/ \E u \in Users, r \in Reserves : \E owes \in Nat : DebtStep(u, r, owes)

LEMMA CeilingSteps ==
    ASSUME CeilingInv, FlagInv', Flat', config' = config, CeilingStep
    PROVE  CeilingInv'
  <1>1. Covered' /\ ExposureCounted'
    BY BitsStep, DebtSteps DEF CeilingStep, FlagInv, TypeInv
  <1>2. CollateralInv /\ \A u \in Users : CollateralStep(u)
    BY DEF CeilingStep, BitStep, CeilingInv, CollateralInv, CollateralStep, FlagInv
  <1>3. IsolatedCollateralIsAlone'
    BY <1>2, CollateralSteps
  <1> QED
    BY <1>1, <1>3 DEF CeilingInv, WholeUnits

(* A bit is cleared by a health check that the debts pass without the collateral. *)
LEMMA ClearedBit ==
    ASSUME FlagInv', UNCHANGED <<debts, borrowing>>, NEW u \in Users, NEW r \in Reserves,
           usingAsCollateral'[u] = usingAsCollateral[u] \ {r},
           r \in usingAsCollateral[u] /\ borrowing[u] # {} => IsHealthy(u, eMode[u])'
    PROVE  BitStep(u)
  <1>1. CASE r \notin usingAsCollateral[u]
    BY <1>1 DEF BitStep
  <1>2. CASE r \in usingAsCollateral[u]
    <2>1. ASSUME usingAsCollateral'[u] = {} PROVE \A s \in Reserves : Owes(u, s) = 0
      <3>1. borrowing'[u] # {} => IsHealthy(u, eMode[u])'
        BY <1>2
      <3>2. \A s \in Reserves : Owes(u, s)' = 0
        BY <2>1, <3>1, NoCollateralNoHealthNext DEF HealthNeedsCollateral
      <3> QED
        BY <3>2 DEF Owes, debts
    <2> QED
      BY <2>1 DEF BitStep
  <1> QED
    BY <1>1, <1>2

LEMMA SupplyBits ==
    ASSUME TypeOK, NEW caller, NEW u \in Users, NEW r \in Reserves, NEW amount,
           Supply(caller, u, r, amount)
    PROVE  CeilingStep
  <1>1. UNCHANGED <<OwedBook, isolationModeTotalDebt>>
    BY SameOwedBook DEF Supply
  <1>2. usingAsCollateral \in [Users -> SUBSET Reserves]
    BY DEF TypeOK
  <1>3. \A v \in Users : BitStep(v)
    BY <1>2 DEF Supply, AutomaticUseAsCollateral, BitStep
  <1> QED
    BY <1>1, <1>3 DEF CeilingStep

LEMMA WithdrawBits ==
    ASSUME TypeOK, FlagInv', NEW u \in Users, NEW r \in Reserves, NEW amount, NEW forgo,
           Withdraw(u, r, amount, forgo)
    PROVE  CeilingStep
  <1>1. UNCHANGED <<OwedBook, isolationModeTotalDebt>> /\ UNCHANGED <<debts, borrowing>>
    BY SameOwedBook DEF Withdraw
  <1>2. usingAsCollateral \in [Users -> SUBSET Reserves]
    BY DEF TypeOK
  <1>3. \A v \in Users : v # u => usingAsCollateral'[v] = usingAsCollateral[v]
    BY <1>2 DEF Withdraw
  <1>4. \/ usingAsCollateral'[u] = usingAsCollateral[u]
        \/ usingAsCollateral'[u] = usingAsCollateral[u] \ {r}
    BY <1>2 DEF Withdraw
  <1>5. r \in usingAsCollateral[u] /\ borrowing[u] # {} => IsHealthy(u, eMode[u])'
    BY DEF Withdraw, ValidHFAndLtv
  <1>6. BitStep(u)
    <2>1. CASE usingAsCollateral'[u] = usingAsCollateral[u]
      BY <2>1 DEF BitStep
    <2>2. CASE usingAsCollateral'[u] = usingAsCollateral[u] \ {r}
      BY <1>1, <1>5, <2>2, ClearedBit
    <2> QED
      BY <1>4, <2>1, <2>2
  <1> QED
    BY <1>1, <1>3, <1>6 DEF CeilingStep, BitStep

LEMMA TransferBits ==
    ASSUME TypeOK, FlagInv', NEW from \in Users, NEW to \in Users, NEW r \in Reserves, NEW amount,
           Transfer(from, to, r, amount)
    PROVE  CeilingStep
  <1>1. UNCHANGED <<OwedBook, isolationModeTotalDebt>> /\ UNCHANGED <<debts, borrowing>>
    BY SameOwedBook DEF Transfer
  <1>2. usingAsCollateral \in [Users -> SUBSET Reserves] /\ from # to
    BY DEF TypeOK, Transfer
  <1>3. \A v \in Users : v # from => BitStep(v)
    BY <1>2 DEF Transfer, AutomaticUseAsCollateral, BitStep
  <1>4. \/ usingAsCollateral'[from] = usingAsCollateral[from]
        \/ usingAsCollateral'[from] = usingAsCollateral[from] \ {r}
    BY <1>2 DEF Transfer
  <1>5. r \in usingAsCollateral[from] /\ borrowing[from] # {} => IsHealthy(from, eMode[from])'
    BY DEF Transfer, ValidHFAndLtv
  <1>6. BitStep(from)
    <2>1. CASE usingAsCollateral'[from] = usingAsCollateral[from]
      BY <2>1 DEF BitStep
    <2>2. CASE usingAsCollateral'[from] = usingAsCollateral[from] \ {r}
      BY <1>1, <1>5, <2>2, ClearedBit
    <2> QED
      BY <1>4, <2>1, <2>2
  <1> QED
    BY <1>1, <1>3, <1>6 DEF CeilingStep

LEMMA SwitchBits ==
    ASSUME TypeOK, FlagInv', NEW u \in Users, NEW r \in Reserves, NEW use \in BOOLEAN,
           SetUserUseReserveAsCollateral(u, r, use)
    PROVE  CeilingStep
  <1>1. UNCHANGED <<OwedBook, isolationModeTotalDebt>> /\ UNCHANGED <<debts, borrowing>>
    BY SameOwedBook DEF SetUserUseReserveAsCollateral
  <1>2. usingAsCollateral \in [Users -> SUBSET Reserves]
    BY DEF TypeOK
  <1>3. \A v \in Users : v # u => usingAsCollateral'[v] = usingAsCollateral[v]
    BY <1>2 DEF SetUserUseReserveAsCollateral
  <1>4. BitStep(u)
    <2>1. CASE use
      BY <1>2, <2>1 DEF SetUserUseReserveAsCollateral, BitStep
    <2>2. CASE ~use
      <3>1. usingAsCollateral'[u] = usingAsCollateral[u] \ {r} /\ IsHealthy(u, eMode[u])'
        BY <1>2, <2>2 DEF SetUserUseReserveAsCollateral, ValidHFAndLtv
      <3> QED
        BY <1>1, <3>1, ClearedBit
    <2> QED
      BY <2>1, <2>2
  <1> QED
    BY <1>1, <1>3, <1>4 DEF CeilingStep, BitStep

(* While units are whole a ceiling counts amounts as they are. *)
LEMMA WholeAmount ==
    ASSUME WholeUnits, NEW r \in Reserves, NEW amount \in Nat
    PROVE  CeilingAmount(r, amount) = amount
  <1>1. amount \div 1 = amount
    BY DivUnique
  <1> QED
    BY <1>1 DEF WholeUnits, CeilingAmount

LEMMA BorrowCounts ==
    ASSUME CeilingInv, Typed, NEW u \in Users, NEW r \in Reserves, NEW amount \in Nat, NEW mode,
           Borrow(u, r, amount, mode)
    PROVE  CeilingStep
  <1>1. TypeOK /\ Flat /\ OwedBook[r][u] \in Nat
    BY OwedBookType DEF CeilingInv, FlagInv, TypeInv
  <1>2. CeilingAmount(r, amount) = amount
    BY WholeAmount DEF CeilingInv
  <1>3. usingAsCollateral[u] # {}
    <2> SUFFICES ASSUME usingAsCollateral[u] = {} PROVE FALSE
      OBVIOUS
    <2>1. UserAccountData(u, eMode[u]).totalCollateral # 0
      BY DEF Borrow, BorrowAs, ValidBorrow
    <2>2. {s \in usingAsCollateral[u] : config[s].liquidationThreshold # 0} = {}
      OBVIOUS
    <2>3. SumFunctionOnSet([s \in {} |->
              [v \in {} |-> Balance(u, v) * AssetPrice(v, eMode[u])][s]], {}) = 0
      BY SumEmpty
    <2> QED
      BY <2>1, <2>2, <2>3 DEF UserAccountData, SumOver
  <1>4. OwedBook' = [OwedBook EXCEPT ![r][u] = OwedBook[r][u] + amount]
    <2>1. MintDebt(u, r, amount, mode)
      BY DEF Borrow, BorrowAs
    <2>2. OwedBook' = [OwedBook EXCEPT ![r][u] = @ + amount]
      BY <1>1, <2>1, MintOwed
    <2> QED
      BY <1>1, <2>2, OwedBookType
  <1>5. usingAsCollateral' = usingAsCollateral
    BY DEF Borrow, BorrowAs
  <1>6. isolationModeTotalDebt' = [k \in Reserves |->
            IF usingAsCollateral[u] = {k} /\ config[k].debtCeiling # 0
            THEN isolationModeTotalDebt[k] - OwedBook[r][u] + (OwedBook[r][u] + amount)
            ELSE isolationModeTotalDebt[k]]
    <2>1. \A k \in Reserves : /\ isolationModeTotalDebt[k] \in Nat
                              /\ k \in IsolationCollateral(usingAsCollateral[u]) <=>
                                     usingAsCollateral[u] = {k} /\ config[k].debtCeiling # 0
      BY <1>1 DEF IsolationCollateral, TypeOK
    <2>2. \A k \in Reserves : isolationModeTotalDebt[k] - OwedBook[r][u] + (OwedBook[r][u] + amount)
                                  = isolationModeTotalDebt[k] + amount
      BY <1>1, <2>1
    <2> QED
      BY <1>2, <2>1, <2>2 DEF Borrow, BorrowAs
  <1>7. DebtStep(u, r, OwedBook[r][u] + amount)
    BY <1>3, <1>4, <1>5, <1>6 DEF DebtStep, SameIsolation
  <1>8. OwedBook[r][u] + amount \in Nat
    BY <1>1
  <1> QED
    BY <1>5, <1>7, <1>8 DEF CeilingStep, BitStep

(* A payment for u, of no more than u owes. *)
LEMMA PaidOff ==
    ASSUME CeilingInv, NEW u \in Users, NEW r \in Reserves, NEW paid \in Nat,
           OwedBook' = [OwedBook EXCEPT ![r][u] = @ - paid], paid <= OwedBook[r][u],
           SameIsolation(u),
           isolationModeTotalDebt' = IsolatedDebtAfterRepayment(usingAsCollateral'[u], r, paid)
    PROVE  \E owes \in Nat : DebtStep(u, r, owes)
  <1>1. TypeOK /\ OwedBook[r][u] \in Nat /\ OwedBook \in [Reserves -> [Users -> Nat]]
    BY OwedBookType DEF CeilingInv, FlagInv, TypeInv
  <1>2. PICK owes \in Nat : owes = OwedBook[r][u] - paid
    BY <1>1
  <1>3. OwedBook' = [OwedBook EXCEPT ![r][u] = owes]
    BY <1>1, <1>2
  <1>4. ASSUME NEW k \in Reserves
        PROVE  IsolatedDebtAfterRepayment(usingAsCollateral'[u], r, paid)[k] =
                   IF usingAsCollateral[u] = {k} /\ config[k].debtCeiling # 0
                   THEN isolationModeTotalDebt[k] - OwedBook[r][u] + owes
                   ELSE isolationModeTotalDebt[k]
    <2>1. k \in IsolationCollateral(usingAsCollateral'[u]) <=>
              usingAsCollateral[u] = {k} /\ config[k].debtCeiling # 0
      BY DEF IsolationCollateral, SameIsolation
    <2>2. isolationModeTotalDebt[k] \in Nat
      BY <1>1 DEF TypeOK
    <2>3. CASE usingAsCollateral[u] = {k} /\ config[k].debtCeiling # 0
      <3>1. isolationModeTotalDebt[k] = Exposed(k)
        BY <2>3 DEF CeilingInv, ExposureCounted
      <3>2. /\ Counted(u, k) <= Exposed(k) /\ Exposed(k) \in Nat
            /\ Counted(u, k) = Exposure(u) /\ Exposure(u) \in Nat
            /\ OwedBook[r][u] <= Exposure(u)
        BY <1>1, <2>3, ExposedType, ExposureType DEF Counted
      <3>3. Least(isolationModeTotalDebt[k], CeilingAmount(r, paid)) = paid
        <4>1. CeilingAmount(r, paid) = paid
          BY WholeAmount DEF CeilingInv
        <4>2. paid <= isolationModeTotalDebt[k]
          BY <1>1, <3>1, <3>2
        <4> QED
          BY <2>2, <4>1, <4>2 DEF Least
      <3>4. isolationModeTotalDebt[k] - paid = isolationModeTotalDebt[k] - OwedBook[r][u] + owes
        BY <1>1, <1>2, <2>2
      <3> QED
        BY <2>1, <2>3, <3>3, <3>4 DEF IsolatedDebtAfterRepayment
    <2>4. CASE ~(usingAsCollateral[u] = {k} /\ config[k].debtCeiling # 0)
      BY <2>1, <2>4 DEF IsolatedDebtAfterRepayment
    <2> QED
      BY <2>3, <2>4
  <1>5. isolationModeTotalDebt' = [k \in Reserves |->
            IF usingAsCollateral[u] = {k} /\ config[k].debtCeiling # 0
            THEN isolationModeTotalDebt[k] - OwedBook[r][u] + owes
            ELSE isolationModeTotalDebt[k]]
    <2>1. PICK f : f = IsolatedDebtAfterRepayment(usingAsCollateral'[u], r, paid)
      OBVIOUS
    <2>2. f = [k \in Reserves |-> f[k]]
      BY <2>1 DEF IsolatedDebtAfterRepayment
    <2> QED
      BY <1>4, <2>1, <2>2
  <1>6. owes <= OwedBook[r][u]
    BY <1>1, <1>2
  <1> QED
    BY <1>3, <1>5, <1>6 DEF DebtStep

LEMMA RepayCounts ==
    ASSUME CeilingInv, Typed, NEW u \in Users, NEW r \in Reserves, NEW payback \in Nat, NEW mode,
           RepayDebt(u, r, payback, mode), UNCHANGED usingAsCollateral
    PROVE  CeilingStep
  <1>1. /\ OwedBook' = [OwedBook EXCEPT ![r][u] = @ - payback]
        /\ payback <= OwedBook[r][u]
    BY BurnOwed DEF RepayDebt, CeilingInv
  <1>2. SameIsolation(u)
    BY DEF SameIsolation
  <1>3. \E owes \in Nat : DebtStep(u, r, owes)
    BY <1>1, <1>2, PaidOff DEF RepayDebt
  <1> QED
    BY <1>3 DEF CeilingStep, BitStep

LEMMA UserStepCounts ==
    ASSUME CeilingInv, Typed, FlagInv', NEW u \in Users, NEW r \in Reserves, UserStep(u, r)
    PROVE  CeilingStep
  <1>1. TypeOK /\ TypeInv /\ u \in Accounts
    BY DEF CeilingInv, FlagInv, TypeInv, Accounts
  <1>2. \A amount \in Amounts[r] \cup Requests(r) : amount \in Nat
    BY RequestAssumption, NamesAssumption DEF Requests
  <1>3. CASE \E caller \in {u} \cup IsolatedSuppliers, amount \in Amounts[r] :
                 Supply(caller, u, r, amount)
    BY <1>1, <1>3, SupplyBits
  <1>4. CASE \E amount \in Requests(r), forgo \in BOOLEAN : Withdraw(u, r, amount, forgo)
    BY <1>1, <1>4, WithdrawBits
  <1>5. CASE \E to \in Users, amount \in Amounts[r] : Transfer(u, to, r, amount)
    BY <1>1, <1>5, TransferBits
  <1>6. CASE \E use \in BOOLEAN : SetUserUseReserveAsCollateral(u, r, use)
    BY <1>1, <1>6, SwitchBits
  <1>7. CASE \E amount \in Amounts[r], mode \in Modes : Borrow(u, r, amount, mode)
    BY <1>2, <1>7, BorrowCounts
  <1>8. CASE \E amount \in Requests(r), mode \in Modes : Repay(u, r, amount, mode)
    <2>1. PICK amount \in Requests(r), mode \in Modes : Repay(u, r, amount, mode)
      BY <1>8
    <2>2. Least(amount, DebtOf(u, r, mode)) \in Nat
      BY <1>1, <1>2, DebtOfType, LeastType
    <2> QED
      BY <2>1, <2>2, RepayCounts DEF Repay
  <1>9. CASE \E amount \in Requests(r), mode \in Modes : RepayWithRSTokens(u, r, amount, mode)
    <2>1. PICK amount \in Requests(r), mode \in Modes : RepayWithRSTokens(u, r, amount, mode)
      BY <1>9
    <2>2. PICK offered : offered = IF amount = MaxUint THEN Balance(u, r) ELSE amount
      OBVIOUS
    <2>3. Least(offered, DebtOf(u, r, mode)) \in Nat
      BY <1>1, <1>2, <2>2, BalanceType, DebtOfType, LeastType
    <2>4. RepayDebt(u, r, Least(offered, DebtOf(u, r, mode)), mode) /\ UNCHANGED usingAsCollateral
      BY <2>1, <2>2 DEF RepayWithRSTokens
    <2> QED
      BY <2>3, <2>4, RepayCounts
  <1>10. CASE \E mode \in Modes : SwapBorrowRateMode(u, r, mode)
    <2>1. UNCHANGED <<OwedBook, isolationModeTotalDebt, usingAsCollateral>>
      BY <1>10, SwapEntry DEF SwapBorrowRateMode, CeilingInv, flags
    <2> QED
      BY <2>1 DEF CeilingStep, BitStep
  <1> QED
    BY <1>3, <1>4, <1>5, <1>6, <1>7, <1>8, <1>9, <1>10 DEF UserStep

(* A liquidation counts as a payment if it leaves whoever had collateral with some. *)
LEMMA LiquidationCounts ==
    ASSUME CeilingInv, Typed, NEW l \in Users, NEW u \in Users, NEW c \in Reserves,
           NEW d \in Reserves, NEW cover \in Nat, NEW receive \in BOOLEAN,
           LiquidationCall(l, u, c, d, cover, receive),
           \A v \in Users : usingAsCollateral'[v] = {} => usingAsCollateral[v] = {}
    PROVE  CeilingStep
  <1>1. TypeOK /\ TypeInv /\ usingAsCollateral \in [Users -> SUBSET Reserves]
    BY DEF CeilingInv, FlagInv, TypeInv, TypeOK
  <1>2. PICK amounts :
            amounts = LiquidationAmounts(u, c, d, Least(cover, MaxLiquidatableDebt(u, d)))
    OBVIOUS
  <1>3. amounts.debt \in Nat
    <2>1. Least(cover, MaxLiquidatableDebt(u, d)) \in Nat
      BY <1>1, MaxLiquidatableType, LeastType
    <2>2. config[c].liquidationThreshold # 0
      BY DEF LiquidationCall, ValidLiquidation
    <2> QED
      BY <1>1, <1>2, <2>1, <2>2, LiquidationAmountsType
  <1>4. PICK ofU \in {usingAsCollateral[u], usingAsCollateral[u] \ {c}},
             ofL \in {usingAsCollateral[l], usingAsCollateral[l] \cup {c}} :
            /\ ofL # usingAsCollateral[l] => ValidUseAsCollateral(l, c)
            /\ usingAsCollateral' = [usingAsCollateral EXCEPT ![l] = ofL, ![u] = ofU]
            /\ isolationModeTotalDebt' = IsolatedDebtAfterRepayment(ofU, d, amounts.debt)
    BY <1>2 DEF LiquidationCall, AutomaticUseAsCollateral
  <1>5. usingAsCollateral'[u] = ofU /\ (ofU = {} => usingAsCollateral[u] = {})
    BY <1>1, <1>4
  <1>6. \A v \in Users : BitStep(v)
    <2>1. BitStep(u)
      BY <1>4, <1>5 DEF BitStep
    <2>2. ASSUME NEW v \in Users, v # u PROVE BitStep(v)
      BY <1>1, <1>4, <2>2 DEF BitStep
    <2> QED
      BY <2>1, <2>2
  <1>7. SameIsolation(u)
    <2> SUFFICES ASSUME NEW k \in Reserves, config[k].debtCeiling # 0, ofU # usingAsCollateral[u]
                 PROVE  ofU = {k} <=> usingAsCollateral[u] = {k}
      BY <1>5 DEF SameIsolation
    <2>1. c \in usingAsCollateral[u] /\ ofU = usingAsCollateral[u] \ {c} /\ ofU # {}
      BY <1>4, <1>5
    <2>2. usingAsCollateral[u] # {k}
      BY <2>1
    <2>3. ofU # {k}
      BY <2>1, <2>2 DEF CeilingInv, IsolatedCollateralIsAlone
    <2> QED
      BY <2>2, <2>3
  <1>8. /\ OwedBook' = [OwedBook EXCEPT ![d][u] = @ - amounts.debt]
        /\ amounts.debt <= OwedBook[d][u]
    <2>1. BurnLiquidatedDebt(u, d, amounts.debt)
      BY <1>2 DEF LiquidationCall
    <2> QED
      BY <1>3, <2>1, LiquidatedOwed DEF CeilingInv
  <1>9. \E owes \in Nat : DebtStep(u, d, owes)
    BY <1>3, <1>4, <1>5, <1>7, <1>8, PaidOff
  <1> QED
    BY <1>6, <1>9 DEF CeilingStep

(* No liquidation takes the last collateral of a borrower. *)
LiquidationLeavesCollateral ==
    Liquidate => \A u \in Users : usingAsCollateral'[u] = {} => usingAsCollateral[u] = {}

LEMMA StepCounts ==
    ASSUME NothingAccrues, CeilingInv, FlagInv', [Next]_vars, LiquidationLeavesCollateral
    PROVE  CeilingStep
  <1>1. TypeOK /\ Typed /\ Flat
    BY DEF CeilingInv, FlagInv, TypeInv, Typed
  <1>2. CASE UNCHANGED <<debts, usingAsCollateral, isolationModeTotalDebt>>
    BY <1>2, SameOwedBook DEF CeilingStep, BitStep
  <1>3. CASE \E u \in Users, r \in Reserves : UserStep(u, r)
    BY <1>1, <1>3, UserStepCounts
  <1>4. CASE \E u \in Users, c \in Categories \cup {0} : SetUserEMode(u, c)
    BY <1>2, <1>4 DEF SetUserEMode, flags
  <1>5. CASE Liquidate
    <2>1. PICK l \in Users, u \in Users, c \in Reserves, d \in Reserves, receive \in BOOLEAN,
               cover \in Nat : LiquidationCall(l, u, c, d, cover, receive)
      BY <1>5, RequestType DEF Liquidate
    <2> QED
      BY <1>1, <1>5, <2>1, LiquidationCounts DEF LiquidationLeavesCollateral
  <1>6. CASE Environment
    <2>1. UNCHANGED positions
      BY <1>1, <1>6, FlatStep DEF Environment, SetPrice, SetSentinel
    <2> QED
      BY <1>2, <2>1 DEF positions, flags
  <1>7. CASE UNCHANGED vars
    BY <1>2, <1>7 DEF vars, flags
  <1> QED
    BY <1>3, <1>4, <1>5, <1>6, <1>7 DEF Next

LEMMA StepCeilings ==
    ASSUME NothingAccrues, CeilingInv, [Next]_vars, LiquidationLeavesCollateral
    PROVE  CeilingInv'
  <1>1. FlagInv' /\ Flat'
    BY StepType, StepFlags, FlatStep DEF CeilingInv, FlagInv, TypeInv
  <1>2. config' = config
    BY FixedSettings DEF settings
  <1> QED
    BY <1>1, <1>2, StepCounts, CeilingSteps

LEMMA InitCeilings ==
    ASSUME Init, \A r \in Reserves : InitialConfig[r].debtUnit = 1
    PROVE  CeilingInv
  <1>1. FlagInv /\ Flat /\ IsolatedCollateralIsAlone /\ WholeUnits
    BY InitType DEF Init, FlagInv, Flat, DebtIsFlagged, IsolatedCollateralIsAlone, WholeUnits
  <1>2. \A u \in Users, r \in Reserves : Owes(u, r) = 0
    BY DEF Init, Owes
  <1>3. \A k \in Reserves : Exposed(k) = 0
    <2>1. \A u \in Users, k \in Reserves : Counted(u, k) = 0
      BY DEF Init, Counted
    <2> SUFFICES ASSUME NEW k \in Reserves PROVE Exposed(k) = 0
      OBVIOUS
    <2>2. \A u \in Users : [v \in Users |-> Counted(v, k)][u] = 0
      BY <2>1
    <2> QED
      BY <2>2, NamesAssumption, SumOfZeros DEF Exposed
  <1>4. ExposureCounted
    BY <1>3 DEF Init, ExposureCounted
  <1> QED
    BY <1>1, <1>2, <1>4 DEF CeilingInv, Covered

(***************************************************************************)
(* While nothing accrues, and for assets whose unit is the smallest amount *)
(* there is, the debt counted against the ceiling of an isolated           *)
(* collateral (updated by executeBorrow and by                             *)
(* updateIsolatedDebtIfIsolated) is what its users owe, of all assets      *)
(* together.  It is exact as long as no liquidation leaves a borrower      *)
(* without collateral: executeLiquidationCall clears the bit of a          *)
(* collateral it takes whole before it asks whether the borrower is        *)
(* isolated, and then nobody's count goes down.  Whoever has no collateral *)
(* owes nothing else, for the health check of the operation that cleared   *)
(* the last bit would have failed.                                         *)
(***************************************************************************)
THEOREM IsolatedDebtHolds ==
    ASSUME NothingAccrues, \A r \in Reserves : InitialConfig[r].debtUnit = 1
    PROVE  Spec /\ [][LiquidationLeavesCollateral]_vars => []IsolatedDebtIsExact
  <1>1. Init => CeilingInv
    BY InitCeilings
  <1>2. CeilingInv /\ [Next]_vars /\ [LiquidationLeavesCollateral]_vars => CeilingInv'
    <2> SUFFICES ASSUME CeilingInv, [Next]_vars, [LiquidationLeavesCollateral]_vars
                 PROVE  CeilingInv'
      OBVIOUS
    <2>1. CASE LiquidationLeavesCollateral
      BY <2>1, StepCeilings
    <2>2. CASE UNCHANGED vars
      <3>1. usingAsCollateral' = usingAsCollateral
        BY <2>2 DEF vars, flags
      <3> QED
        BY <3>1, StepCeilings DEF LiquidationLeavesCollateral
    <2> QED
      BY <2>1, <2>2
  <1>3. CeilingInv => IsolatedDebtIsExact
    BY CeilingsAreExact
  <1> QED
    BY <1>1, <1>2, <1>3, PTL DEF Spec
=============================================================================
