------------------------ MODULE PoolConfigurator_proofs ------------------------
(***************************************************************************)
(* Theorems of PoolConfigurator: what still holds of positions when the    *)
(* admins change the settings of reserves and categories meanwhile, for    *)
(* every pool and every choice of settings the setters accept.             *)
(***************************************************************************)
EXTENDS PoolConfigurator, PoolProperties_proofs

-----------------------------------------------------------------------------
(* Admins change settings, never positions. *)

LEMMA AdminLeaves ==
    ASSUME Administration
    PROVE  UNCHANGED <<market, availableLiquidity, scaledBalance, debts, flags, eMode>>
  BY DEF Administration, AdminStep, SetFlag, SetDebtCeiling, ConfigureReserveAsCollateral,
         SetAssetEModeCategory, SetLimit, SetConfiguration, SetPoolPause, SetEModeCategory

-----------------------------------------------------------------------------
(* Type correctness, with collateral that stays liquidatable. *)

LEMMA FlagUpdate ==
    ASSUME NEW map \in ReserveConfiguration, NEW flag \in FlagNames, NEW value \in BOOLEAN
    PROVE  /\ [map EXCEPT ![flag] = value] \in ReserveConfiguration
           /\ Collateralizable(map) => Collateralizable([map EXCEPT ![flag] = value])
           /\ [map EXCEPT ![flag] = value][flag] = value
           /\ \A other \in FlagNames :
                  other # flag => [map EXCEPT ![flag] = value][other] = map[other]
  BY DEF ReserveConfiguration, FlagNames, Collateralizable

LEMMA PauseUpdate ==
    ASSUME NEW map \in ReserveConfiguration, NEW value \in BOOLEAN
    PROVE  /\ [map EXCEPT !.paused = value] \in ReserveConfiguration
           /\ Collateralizable(map) => Collateralizable([map EXCEPT !.paused = value])
  BY DEF ReserveConfiguration, Collateralizable

LEMMA LimitUpdate ==
    ASSUME NEW map \in ReserveConfiguration, NEW limit \in LimitNames, NEW value \in Nat,
           limit = "liquidationProtocolFee" => value <= PERCENTAGE_FACTOR
    PROVE  /\ [map EXCEPT ![limit] = value] \in ReserveConfiguration
           /\ Collateralizable(map) => Collateralizable([map EXCEPT ![limit] = value])
  <1>1. PERCENTAGE_FACTOR \in Nat
    BY UnitAssumption
  <1> QED
    BY <1>1 DEF ReserveConfiguration, LimitNames, Collateralizable

LEMMA CeilingUpdate ==
    ASSUME NEW map \in ReserveConfiguration, NEW ceiling \in Nat
    PROVE  /\ [map EXCEPT !.debtCeiling = ceiling] \in ReserveConfiguration
           /\ Collateralizable(map) => Collateralizable([map EXCEPT !.debtCeiling = ceiling])
  BY DEF ReserveConfiguration, Collateralizable

LEMMA AssignmentUpdate ==
    ASSUME NEW map \in ReserveConfiguration, NEW c \in Categories \cup {0}
    PROVE  /\ [map EXCEPT !.eModeCategory = c] \in ReserveConfiguration
           /\ Collateralizable(map) => Collateralizable([map EXCEPT !.eModeCategory = c])
  BY DEF ReserveConfiguration, Collateralizable

(* A threshold over 100% would leave nothing for the bonus. *)
LEMMA CollateralUpdate ==
    ASSUME NEW map \in ReserveConfiguration,
           NEW s \in [ltv : Nat, liquidationThreshold : Nat, liquidationBonus : Nat],
           s.ltv <= s.liquidationThreshold,
           s.liquidationThreshold # 0 => SoundParameters(s)
    PROVE  LET new == [map EXCEPT !.ltv = s.ltv,
                                  !.liquidationThreshold = s.liquidationThreshold,
                                  !.liquidationBonus = s.liquidationBonus]
           IN  new \in ReserveConfiguration /\ Collateralizable(new)
  <1>1. PERCENTAGE_FACTOR \in Nat
    BY UnitAssumption
  <1>2. s.ltv \in Nat /\ s.liquidationThreshold \in Nat /\ s.liquidationBonus \in Nat
    OBVIOUS
  <1>3. s.liquidationThreshold <= PERCENTAGE_FACTOR
    <2>1. CASE s.liquidationThreshold = 0
      BY <1>1, <2>1
    <2>2. CASE s.liquidationThreshold # 0
      <3>1. /\ s.liquidationBonus >= PERCENTAGE_FACTOR
            /\ PercentMul(s.liquidationThreshold, s.liquidationBonus) <= PERCENTAGE_FACTOR
        BY <1>1, <1>2, <2>2 DEF SoundParameters
      <3>2. PercentMul(s.liquidationThreshold, s.liquidationBonus) >= s.liquidationThreshold
        BY <1>2, <3>1, PercentMulAtLeast
      <3>3. PercentMul(s.liquidationThreshold, s.liquidationBonus) \in Nat
        BY <1>2, PercentMulType
      <3> QED
        BY <1>1, <1>2, <3>1, <3>2, <3>3
    <2> QED
      BY <2>1, <2>2
  <1>4. s.ltv \in 0 .. PERCENTAGE_FACTOR /\ s.liquidationThreshold \in 0 .. PERCENTAGE_FACTOR
    BY <1>1, <1>2, <1>3
  <1> QED
    BY <1>2, <1>4 DEF ReserveConfiguration, Collateralizable, SoundParameters

(* One reserve's configuration is replaced by a sound one. *)
LEMMA ConfigurationType ==
    ASSUME TypeInv, NEW r \in Reserves, NEW map \in ReserveConfiguration, Collateralizable(map),
           SetConfiguration(r, map), isolationModeTotalDebt' \in [Reserves -> Nat]
    PROVE  TypeInv'
  <1>1. /\ config' = [config EXCEPT ![r] = map]
        /\ config' \in [Reserves -> ReserveConfiguration]
        /\ UNCHANGED <<categories, market, availableLiquidity, scaledBalance, debts, flags, eMode>>
    BY DEF SetConfiguration, TypeInv, TypeOK
  <1>2. TypeOK'
    BY <1>1 DEF TypeInv, TypeOK, market, debts, flags
  <1>3. Sound'
    BY <1>1 DEF TypeInv, TypeOK, Sound
  <1> QED
    BY <1>2, <1>3 DEF TypeInv

LEMMA AdminStepType ==
    ASSUME TypeInv, NEW r \in Reserves, AdminStep(r)
    PROVE  TypeInv'
  <1>1. config[r] \in ReserveConfiguration /\ Collateralizable(config[r])
    BY DEF TypeInv, TypeOK, Sound
  <1>2. isolationModeTotalDebt \in [Reserves -> Nat]
    BY DEF TypeInv, TypeOK
  <1>3. CASE \E flag \in Switches[r], value \in BOOLEAN : SetFlag(flag, r, value)
    <2>1. PICK flag \in FlagNames, value \in BOOLEAN : SetFlag(flag, r, value)
      BY <1>3, AdminAssumption
    <2> QED
      BY <1>1, <1>2, <2>1, FlagUpdate, ConfigurationType DEF SetFlag
  <1>4. CASE \E ceiling \in DebtCeilings[r] : SetDebtCeiling(r, ceiling)
    <2>1. PICK ceiling \in Nat : SetDebtCeiling(r, ceiling)
      BY <1>4, AdminAssumption
    <2>2. isolationModeTotalDebt' \in [Reserves -> Nat]
      BY <1>2, <2>1 DEF SetDebtCeiling
    <2> QED
      BY <1>1, <2>1, <2>2, CeilingUpdate, ConfigurationType DEF SetDebtCeiling
  <1>5. CASE \E s \in CollateralSettings[r] : ConfigureReserveAsCollateral(r, s)
    <2>1. PICK s \in [ltv : Nat, liquidationThreshold : Nat, liquidationBonus : Nat] :
              ConfigureReserveAsCollateral(r, s)
      BY <1>5, AdminAssumption
    <2>2. /\ s.ltv <= s.liquidationThreshold
          /\ s.liquidationThreshold # 0 => SoundParameters(s)
      BY <2>1 DEF ConfigureReserveAsCollateral
    <2> QED
      BY <1>1, <1>2, <2>1, <2>2, CollateralUpdate, ConfigurationType
         DEF ConfigureReserveAsCollateral
  <1>6. CASE \E c \in Assignments[r] : SetAssetEModeCategory(r, c)
    <2>1. PICK c \in Categories \cup {0} : SetAssetEModeCategory(r, c)
      BY <1>6, AdminAssumption
    <2> QED
      BY <1>1, <1>2, <2>1, AssignmentUpdate, ConfigurationType DEF SetAssetEModeCategory
  <1>7. CASE \E limit \in Limits[r] : SetLimit(limit[1], r, limit[2])
    <2>1. PICK name \in LimitNames, value \in Nat : SetLimit(name, r, value)
      BY <1>7, AdminAssumption
    <2> QED
      BY <1>1, <1>2, <2>1, LimitUpdate, ConfigurationType DEF SetLimit
  <1> QED
    BY <1>3, <1>4, <1>5, <1>6, <1>7 DEF AdminStep

LEMMA AdminType ==
    ASSUME TypeInv, Administration
    PROVE  TypeInv'
  <1>1. CASE \E r \in Reserves : AdminStep(r)
    BY <1>1, AdminStepType
  <1>2. CASE \E value \in BOOLEAN : SetPoolPause(value)
    <2>1. PICK value \in BOOLEAN : SetPoolPause(value)
      BY <1>2
    <2>2. \A r \in Reserves : /\ config[r] \in ReserveConfiguration
                              /\ Collateralizable(config[r])
      BY DEF TypeInv, TypeOK, Sound
    <2>3. /\ config' = [r \in Reserves |-> [config[r] EXCEPT !.paused = value]]
          /\ UNCHANGED <<categories, market, availableLiquidity, scaledBalance, debts, flags,
                         eMode, isolationModeTotalDebt>>
      BY <2>1 DEF SetPoolPause
    <2>4. \A r \in Reserves : /\ config'[r] \in ReserveConfiguration
                              /\ Collateralizable(config'[r])
      BY <2>2, <2>3, PauseUpdate
    <2>5. TypeOK'
      BY <2>3, <2>4 DEF TypeInv, TypeOK, market, debts, flags
    <2>6. Sound'
      BY <2>3, <2>4 DEF TypeInv, Sound
    <2> QED
      BY <2>5, <2>6 DEF TypeInv
  <1>3. CASE \E c \in Categories : \E s \in CategorySettings[c] : SetEModeCategory(c, s)
    <2>1. PICK c \in Categories : \E s \in CategorySettings[c] : SetEModeCategory(c, s)
      BY <1>3
    <2>2. PICK s \in EModeCategory : SetEModeCategory(c, s)
      BY <2>1, AdminAssumption
    <2>3. /\ categories' = [categories EXCEPT ![c] = s]
          /\ s.liquidationThreshold # 0 /\ Collateralizable(s)
          /\ UNCHANGED <<config, market, availableLiquidity, scaledBalance, debts, flags,
                         eMode, isolationModeTotalDebt>>
      BY <2>2 DEF SetEModeCategory, SoundParameters, Collateralizable
    <2>4. TypeOK'
      BY <2>3 DEF TypeInv, TypeOK, market, debts, flags
    <2>5. Sound'
      BY <2>3 DEF TypeInv, TypeOK, Sound
    <2> QED
      BY <2>4, <2>5 DEF TypeInv
  <1> QED
    BY <1>1, <1>2, <1>3 DEF Administration

LEMMA ConfiguredStepType == TypeInv /\ [ConfiguredNext]_vars => TypeInv'
  BY AdminType, StepType DEF ConfiguredNext

LEMMA ConfiguredTypes == ConfiguredSpec => []TypeInv
  BY InitType, ConfiguredStepType, PTL DEF ConfiguredSpec

-----------------------------------------------------------------------------
(* What the setters of flags make sure of. *)

FlagGuards(r) ==
    /\ config[r].active /\ ~config'[r].active => NoSuppliers(r)
    /\ ~config[r].siloed /\ config'[r].siloed => NoBorrowers(r)
    /\ (config[r].stableRateBorrowing => config[r].borrowingEnabled)
           => (config'[r].stableRateBorrowing => config'[r].borrowingEnabled)

LEMMA FlagsKept ==
    ASSUME TypeInv, NEW r \in Reserves, NEW s \in Reserves, NEW map \in ReserveConfiguration,
           SetConfiguration(r, map),
           \A flag \in {"active", "siloed", "stableRateBorrowing", "borrowingEnabled"} :
               map[flag] = config[r][flag]
    PROVE  FlagGuards(s)
  <1>1. /\ map.active = config[r].active /\ map.siloed = config[r].siloed
        /\ map.stableRateBorrowing = config[r].stableRateBorrowing
        /\ map.borrowingEnabled = config[r].borrowingEnabled
    OBVIOUS
  <1>2. config' = [config EXCEPT ![r] = map] /\ config \in [Reserves -> ReserveConfiguration]
    BY DEF SetConfiguration, TypeInv, TypeOK
  <1> QED
    BY <1>1, <1>2 DEF FlagGuards

LEMMA SetFlagGuards ==
    ASSUME TypeInv, NEW r \in Reserves, NEW s \in Reserves, NEW flag \in FlagNames,
           NEW value \in BOOLEAN, SetFlag(flag, r, value)
    PROVE  FlagGuards(s)
  <1>1. config[r] \in ReserveConfiguration /\ config \in [Reserves -> ReserveConfiguration]
    BY DEF TypeInv, TypeOK
  <1>2. PICK map : map = [config[r] EXCEPT ![flag] = value]
    OBVIOUS
  <1>3. /\ config' = [config EXCEPT ![r] = map]
        /\ map[flag] = value
        /\ \A other \in FlagNames : other # flag => map[other] = config[r][other]
    BY <1>1, <1>2, FlagUpdate DEF SetFlag, SetConfiguration
  <1>4. CASE s # r
    BY <1>1, <1>3, <1>4 DEF FlagGuards
  <1>5. CASE s = r
    <2>1. config'[s] = map
      BY <1>1, <1>3, <1>5
    <2>2. MaySet(flag, r, value)
      BY DEF SetFlag
    <2>3. map.active = IF flag = "active" THEN value ELSE config[r].active
      BY <1>3 DEF FlagNames
    <2>4. map.siloed = IF flag = "siloed" THEN value ELSE config[r].siloed
      BY <1>3 DEF FlagNames
    <2>5. map.stableRateBorrowing =
              IF flag = "stableRateBorrowing" THEN value ELSE config[r].stableRateBorrowing
      BY <1>3 DEF FlagNames
    <2>6. map.borrowingEnabled =
              IF flag = "borrowingEnabled" THEN value ELSE config[r].borrowingEnabled
      BY <1>3 DEF FlagNames
    <2>7. CASE flag = "stableRateBorrowing"
      BY <1>5, <2>1, <2>2, <2>3, <2>4, <2>5, <2>6, <2>7 DEF FlagGuards, MaySet
    <2>8. CASE flag # "stableRateBorrowing"
      BY <1>5, <2>1, <2>2, <2>3, <2>4, <2>5, <2>6, <2>8 DEF FlagGuards, MaySet
    <2> QED
      BY <2>7, <2>8
  <1> QED
    BY <1>4, <1>5

LEMMA AdminGuards ==
    ASSUME TypeInv, Administration, NEW s \in Reserves
    PROVE  FlagGuards(s)
  <1>1. config \in [Reserves -> ReserveConfiguration]
    BY DEF TypeInv, TypeOK
  <1>2. CASE \E r \in Reserves : AdminStep(r)
    <2>1. PICK r \in Reserves : AdminStep(r)
      BY <1>2
    <2>2. config[r] \in ReserveConfiguration /\ Collateralizable(config[r])
      BY DEF TypeInv, TypeOK, Sound
    <2>3. CASE \E flag \in Switches[r], value \in BOOLEAN : SetFlag(flag, r, value)
      <3>1. PICK flag \in FlagNames, value \in BOOLEAN : SetFlag(flag, r, value)
        BY <2>3, AdminAssumption
      <3> QED
        BY <3>1, SetFlagGuards
    <2>4. CASE \E ceiling \in DebtCeilings[r] : SetDebtCeiling(r, ceiling)
      <3>1. PICK ceiling \in Nat : SetDebtCeiling(r, ceiling)
        BY <2>4, AdminAssumption
      <3>2. PICK map : map = [config[r] EXCEPT !.debtCeiling = ceiling]
        OBVIOUS
      <3>3. map \in ReserveConfiguration /\ SetConfiguration(r, map)
        BY <2>2, <3>1, <3>2, CeilingUpdate DEF SetDebtCeiling
      <3>4. \A flag \in {"active", "siloed", "stableRateBorrowing", "borrowingEnabled"} :
                map[flag] = config[r][flag]
        BY <2>2, <3>2 DEF ReserveConfiguration
      <3> QED
        BY <3>3, <3>4, FlagsKept
    <2>5. CASE \E p \in CollateralSettings[r] : ConfigureReserveAsCollateral(r, p)
      <3>1. PICK p \in [ltv : Nat, liquidationThreshold : Nat, liquidationBonus : Nat] :
                ConfigureReserveAsCollateral(r, p)
        BY <2>5, AdminAssumption
      <3>2. PICK map : map = [config[r] EXCEPT !.ltv = p.ltv,
                                               !.liquidationThreshold = p.liquidationThreshold,
                                               !.liquidationBonus = p.liquidationBonus]
        OBVIOUS
      <3>3. map \in ReserveConfiguration /\ SetConfiguration(r, map)
        BY <2>2, <3>1, <3>2, CollateralUpdate DEF ConfigureReserveAsCollateral
      <3>4. \A flag \in {"active", "siloed", "stableRateBorrowing", "borrowingEnabled"} :
                map[flag] = config[r][flag]
        BY <2>2, <3>2 DEF ReserveConfiguration
      <3> QED
        BY <3>3, <3>4, FlagsKept
    <2>6. CASE \E c \in Assignments[r] : SetAssetEModeCategory(r, c)
      <3>1. PICK c \in Categories \cup {0} : SetAssetEModeCategory(r, c)
        BY <2>6, AdminAssumption
      <3>2. PICK map : map = [config[r] EXCEPT !.eModeCategory = c]
        OBVIOUS
      <3>3. map \in ReserveConfiguration /\ SetConfiguration(r, map)
        BY <2>2, <3>1, <3>2, AssignmentUpdate DEF SetAssetEModeCategory
      <3>4. \A flag \in {"active", "siloed", "stableRateBorrowing", "borrowingEnabled"} :
                map[flag] = config[r][flag]
        BY <2>2, <3>2 DEF ReserveConfiguration
      <3> QED
        BY <3>3, <3>4, FlagsKept
    <2>7. CASE \E limit \in Limits[r] : SetLimit(limit[1], r, limit[2])
      <3>1. PICK name \in LimitNames, value \in Nat : SetLimit(name, r, value)
        BY <2>7, AdminAssumption
      <3>2. PICK map : map = [config[r] EXCEPT ![name] = value]
        OBVIOUS
      <3>3. map \in ReserveConfiguration /\ SetConfiguration(r, map)
        BY <2>2, <3>1, <3>2, LimitUpdate DEF SetLimit
      <3>4. \A flag \in {"active", "siloed", "stableRateBorrowing", "borrowingEnabled"} :
                map[flag] = config[r][flag]
        BY <2>2, <3>2 DEF ReserveConfiguration, LimitNames
      <3> QED
        BY <3>3, <3>4, FlagsKept
    <2> QED
      BY <2>1, <2>3, <2>4, <2>5, <2>6, <2>7 DEF AdminStep
  <1>3. CASE \E value \in BOOLEAN : SetPoolPause(value)
    <2>1. PICK value \in BOOLEAN :
              config' = [r \in Reserves |-> [config[r] EXCEPT !.paused = value]]
      BY <1>3 DEF SetPoolPause
    <2>2. config'[s] = [config[s] EXCEPT !.paused = value] /\ config[s] \in ReserveConfiguration
      BY <1>1, <2>1
    <2>3. /\ config'[s].active = config[s].active /\ config'[s].siloed = config[s].siloed
          /\ config'[s].stableRateBorrowing = config[s].stableRateBorrowing
          /\ config'[s].borrowingEnabled = config[s].borrowingEnabled
      BY <2>2 DEF ReserveConfiguration
    <2> QED
      BY <2>3 DEF FlagGuards
  <1>4. CASE \E c \in Categories : \E p \in CategorySettings[c] : SetEModeCategory(c, p)
    BY <1>4 DEF SetEModeCategory, FlagGuards
  <1> QED
    BY <1>2, <1>3, <1>4 DEF Administration

-----------------------------------------------------------------------------
(* The debts' bits and the books. *)

(***************************************************************************)
(* No debt escapes the health factor while admins change the settings      *)
(* either: they touch no position.                                         *)
(***************************************************************************)
THEOREM ConfiguredDebtFlagged == ConfiguredSpec => []DebtIsFlagged
  <1>1. Init => FlagInv
    BY InitType DEF Init, FlagInv, DebtIsFlagged
  <1>2. FlagInv /\ [ConfiguredNext]_vars => FlagInv'
    <2> SUFFICES ASSUME FlagInv, [ConfiguredNext]_vars PROVE FlagInv'
      OBVIOUS
    <2>1. TypeInv'
      BY ConfiguredStepType DEF FlagInv
    <2>2. CASE [Next]_vars
      BY <2>1, <2>2, StepFlags DEF FlagInv
    <2>3. CASE Administration
      BY <2>1, <2>3, AdminLeaves DEF FlagInv, DebtIsFlagged, debts, flags
    <2> QED
      BY <2>2, <2>3 DEF ConfiguredNext
  <1>3. FlagInv => DebtIsFlagged
    BY DEF FlagInv
  <1> QED
    BY <1>1, <1>2, <1>3, PTL DEF ConfiguredSpec

LEMMA ConfiguredBooks ==
    ASSUME NothingAccrues, TypeInv, Flat, [ConfiguredNext]_vars
    PROVE  Flat' /\ \A s \in Reserves : BookStep(s)
  <1>1. Typed /\ TypeOK /\ TypeOK'
    BY ConfiguredStepType DEF TypeInv, Typed
  <1>2. CASE [Next]_vars
    BY <1>1, <1>2, FlatStep, StepBooks
  <1>3. CASE Administration
    <2>1. UNCHANGED <<market, availableLiquidity, scaledBalance, debts>>
      BY <1>3, AdminLeaves
    <2>2. Flat'
      BY <2>1 DEF Flat, market
    <2> QED
      BY <1>1, <2>1, <2>2, SameBooks DEF debts
  <1> QED
    BY <1>2, <1>3 DEF ConfiguredNext

(* An inactive reserve has nothing to pay out and nobody to collect from. *)
InactiveInv == BooksInv /\ InactiveReserveIsEmpty

LEMMA StepInactive ==
    ASSUME NothingAccrues, InactiveInv, [ConfiguredNext]_vars
    PROVE  InactiveReserveIsEmpty'
  <1>1. TypeInv /\ TypeOK /\ TypeOK' /\ Flat /\ ClaimsAreBacked
    BY ConfiguredStepType DEF InactiveInv, BooksInv, TypeInv
  <1> SUFFICES ASSUME NEW r \in Reserves, ~config'[r].active
               PROVE  /\ TotalSupplyScaled(r)' = 0
                      /\ r \notin Forgoing =>
                             TotalScaledDebt(r)' = 0 /\ TotalStableDebt(r)' = 0
    BY DEF InactiveReserveIsEmpty
  <1>2. BookStep(r)
    BY <1>1, ConfiguredBooks
  <1>3. /\ TotalSupplyScaled(r) \in Nat /\ TotalScaledDebt(r) \in Nat
        /\ TotalStableDebt(r) \in Nat /\ availableLiquidity[r] \in Nat
        /\ Owed(r) = TotalScaledDebt(r) + TotalStableDebt(r)
    BY <1>1, Totals DEF TypeOK, Owed
  <1>4. /\ TotalSupplyScaled(r)' \in Nat /\ TotalScaledDebt(r)' \in Nat
        /\ TotalStableDebt(r)' \in Nat
        /\ Owed(r)' = TotalScaledDebt(r)' + TotalStableDebt(r)'
    BY <1>1, NextTotals
  <1>5. CASE ~config[r].active
    <2>1. /\ TotalSupplyScaled(r) = 0
          /\ r \notin Forgoing => TotalScaledDebt(r) = 0 /\ TotalStableDebt(r) = 0
      BY <1>5 DEF InactiveInv, InactiveReserveIsEmpty
    <2>2. ~(TotalSupplyScaled(r)' > TotalSupplyScaled(r)) /\ ~(Owed(r)' > Owed(r))
      BY <1>2, <1>5 DEF BookStep, WithinCaps
    <2> QED
      BY <1>3, <1>4, <2>1, <2>2
  <1>6. CASE config[r].active
    <2>1. ~(UNCHANGED settings)
      BY <1>6 DEF settings
    <2>2. Administration
      BY <2>1, FixedSettings DEF ConfiguredNext
    <2>3. NoSuppliers(r)
      BY <1>1, <1>6, <2>2, AdminGuards DEF FlagGuards
    <2>4. TotalSupplyScaled(r) = 0
      BY <1>1, <1>3, <2>3, FlatAmounts DEF NoSuppliers
    <2>5. r \notin Forgoing => TotalScaledDebt(r) = 0 /\ TotalStableDebt(r) = 0
      BY <1>1, <1>3, <2>4 DEF ClaimsAreBacked, Backing
    <2>6. UNCHANGED <<scaledBalance, scaledDebt, stableDebt>>
      BY <2>2, AdminLeaves DEF debts
    <2>7. TotalSupplyScaled(r)' = TotalSupplyScaled(r) /\ Owed(r)' = Owed(r)
      BY <1>1, <2>6, SameSupply, SameDebt
    <2> QED
      BY <1>3, <1>4, <2>4, <2>5, <2>7
  <1> QED
    BY <1>5, <1>6

LEMMA InactiveInductive ==
    ASSUME NothingAccrues
    PROVE  ConfiguredSpec => []InactiveInv
  <1>1. Init => InactiveInv
    BY InitBooks, ListingAssumption DEF Init, InactiveInv, InactiveReserveIsEmpty
  <1>2. InactiveInv /\ [ConfiguredNext]_vars => InactiveInv'
    <2> SUFFICES ASSUME InactiveInv, [ConfiguredNext]_vars PROVE InactiveInv'
      OBVIOUS
    <2>1. TypeInv' /\ TypeOK /\ TypeOK' /\ TypeInv /\ Flat /\ ClaimsAreBacked
      BY ConfiguredStepType DEF InactiveInv, BooksInv, TypeInv
    <2>2. Flat' /\ \A s \in Reserves : BookStep(s)
      BY <2>1, ConfiguredBooks
    <2>3. ClaimsAreBacked'
      BY <2>1, <2>2, BackedStep
    <2> QED
      BY <2>1, <2>2, <2>3, StepInactive DEF InactiveInv, BooksInv
  <1> QED
    BY <1>1, <1>2, PTL DEF ConfiguredSpec

(***************************************************************************)
(* The books balance while admins change caps, flags, parameters and       *)
(* categories too (nothing accruing), but for claims that are given up.    *)
(***************************************************************************)
THEOREM ConfiguredClaimsBacked ==
    ASSUME NothingAccrues
    PROVE  ConfiguredSpec => []ClaimsAreBacked
  <1>1. InactiveInv => ClaimsAreBacked
    BY DEF InactiveInv, BooksInv
  <1> QED
    BY <1>1, InactiveInductive, PTL

(***************************************************************************)
(* Nobody has a claim on a deactivated reserve.  Nobody owes it anything   *)
(* either, although setReserveActive looks at the suppliers alone, unless  *)
(* suppliers have given claims up: where none may (outside Forgoing) no    *)
(* claims mean no debts, because the books balance                         *)
(* (ConfiguredClaimsBacked).  And nobody can supply or borrow until the    *)
(* reserve is activated again (nothing accruing).                          *)
(***************************************************************************)
THEOREM InactiveHolds ==
    ASSUME NothingAccrues
    PROVE  ConfiguredSpec => []InactiveReserveIsEmpty
  <1>1. InactiveInv => InactiveReserveIsEmpty
    BY DEF InactiveInv
  <1> QED
    BY <1>1, InactiveInductive, PTL

(***************************************************************************)
(* No transaction makes the supply or the debt of a reserve grow past the  *)
(* cap in force when it runs, in either rate mode, although admins raise,  *)
(* lower and lift caps between transactions (nothing accruing).            *)
(***************************************************************************)
THEOREM CapsHold ==
    ASSUME NothingAccrues
    PROVE  ConfiguredSpec => GrowthRespectsCaps
  <1>1. InactiveInv /\ [ConfiguredNext]_vars =>
            [\A r \in Reserves : UNCHANGED <<market, settings>> =>
               /\ config[r].supplyCap # 0 /\ TotalSupplyScaled(r)' > TotalSupplyScaled(r)
                      => TotalSupplyScaled(r)' <= config[r].supplyCap
               /\ config[r].borrowCap # 0
                      /\ TotalScaledDebt(r)' + TotalStableDebt(r)'
                             > TotalScaledDebt(r) + TotalStableDebt(r)
                      => TotalScaledDebt(r)' + TotalStableDebt(r)' <= config[r].borrowCap]_vars
    <2> SUFFICES ASSUME InactiveInv, [ConfiguredNext]_vars, NEW r \in Reserves
                 PROVE  /\ config[r].supplyCap # 0 /\ TotalSupplyScaled(r)' > TotalSupplyScaled(r)
                               => TotalSupplyScaled(r)' <= config[r].supplyCap
                        /\ config[r].borrowCap # 0
                               /\ TotalScaledDebt(r)' + TotalStableDebt(r)'
                                      > TotalScaledDebt(r) + TotalStableDebt(r)
                               => TotalScaledDebt(r)' + TotalStableDebt(r)' <= config[r].borrowCap
      OBVIOUS
    <2>1. TypeInv /\ Flat /\ TypeOK'
      BY ConfiguredStepType DEF InactiveInv, BooksInv, TypeInv
    <2>2. BookStep(r)
      BY <2>1, ConfiguredBooks
    <2>3. Owed(r) = TotalScaledDebt(r) + TotalStableDebt(r)
      BY DEF Owed
    <2>4. Owed(r)' = TotalScaledDebt(r)' + TotalStableDebt(r)'
      BY <2>1, NextTotals
    <2> QED
      BY <2>2, <2>3, <2>4 DEF BookStep, WithinCaps
  <1> QED
    BY <1>1, InactiveInductive, PTL DEF ConfiguredSpec, GrowthRespectsCaps

-----------------------------------------------------------------------------
(* A paused reserve is still. *)

(* Interest is seen in an index. *)
LEMMA AccrualMoves ==
    ASSUME TypeOK, NEW r \in Reserves, NEW earned \in {0, 1}, NEW charged \in {0, 1},
           NEW growth, Accrue(r, earned, charged, growth)
    PROVE  ~ UNCHANGED market
  <1> SUFFICES ASSUME UNCHANGED market PROVE FALSE
    OBVIOUS
  <1>1. /\ liquidityIndex \in [Reserves -> Nat] /\ liquidityIndex' = liquidityIndex
        /\ variableIndex \in [Reserves -> Nat] /\ variableIndex' = variableIndex
    BY DEF TypeOK, market
  <1>2. /\ liquidityIndex' = [liquidityIndex EXCEPT ![r] = @ + earned]
        /\ variableIndex' = [variableIndex EXCEPT ![r] = @ + charged]
        /\ earned + charged # 0
    BY DEF Accrue
  <1>3. /\ liquidityIndex[r] + earned = liquidityIndex[r] /\ liquidityIndex[r] \in Nat
        /\ variableIndex[r] + charged = variableIndex[r] /\ variableIndex[r] \in Nat
    BY <1>1, <1>2
  <1> QED
    BY <1>2, <1>3

(* What the holders of a reserve have and owe in it. *)
Still(r) == /\ availableLiquidity'[r] = availableLiquidity[r]
            /\ scaledBalance'[r] = scaledBalance[r]
            /\ scaledDebt'[r] = scaledDebt[r]
            /\ stableDebt'[r] = stableDebt[r]

LEMMA PausedUserStep ==
    ASSUME TypeOK, NEW r \in Reserves, config[r].paused,
           NEW u \in Users, NEW s \in Reserves, UserStep(u, s)
    PROVE  Still(r)
  <1>1. /\ availableLiquidity \in [Reserves -> Nat]
        /\ scaledBalance \in [Reserves -> [Accounts -> Nat]]
        /\ scaledDebt \in [Reserves -> [Users -> Nat]]
        /\ stableDebt \in [Reserves -> [Users -> Nat]]
    BY DEF TypeOK
  <1>2. CASE UNCHANGED <<availableLiquidity, scaledBalance, debts>>
    BY <1>2 DEF Still, debts
  <1>3. ASSUME NEW caller, NEW amount, Supply(caller, u, s, amount) PROVE Still(r)
    <2>1. s # r
      BY <1>3 DEF Supply, ValidSupply, Usable
    <2> QED
      BY <1>1, <1>3, <2>1 DEF Supply, Still, debts
  <1>4. ASSUME NEW amount, NEW forgo, Withdraw(u, s, amount, forgo) PROVE Still(r)
    <2>1. s # r
      BY <1>4 DEF Withdraw, Usable
    <2> QED
      BY <1>1, <1>4, <2>1 DEF Withdraw, Still, debts
  <1>5. ASSUME NEW to, NEW amount, Transfer(u, to, s, amount) PROVE Still(r)
    <2>1. s # r
      BY <1>5 DEF Transfer
    <2> QED
      BY <1>1, <1>5, <2>1 DEF Transfer, Still, debts
  <1>6. ASSUME NEW amount, NEW mode, Borrow(u, s, amount, mode) PROVE Still(r)
    <2>1. s # r
      BY <1>6 DEF Borrow, BorrowAs, ValidBorrow, OpenToBorrowing, Usable
    <2> QED
      BY <1>1, <1>6, <2>1 DEF Borrow, BorrowAs, MintDebt, Still
  <1>7. ASSUME NEW amount, NEW mode, Repay(u, s, amount, mode) PROVE Still(r)
    <2>1. s # r
      BY <1>7 DEF Repay, RepayDebt, Usable
    <2> QED
      BY <1>1, <1>7, <2>1 DEF Repay, RepayDebt, BurnDebt, Still
  <1>8. ASSUME NEW amount, NEW mode, RepayWithRSTokens(u, s, amount, mode) PROVE Still(r)
    <2>1. s # r
      BY <1>8 DEF RepayWithRSTokens, RepayDebt, Usable
    <2> QED
      BY <1>1, <1>8, <2>1 DEF RepayWithRSTokens, RepayDebt, BurnDebt, Still
  <1>9. ASSUME NEW mode, SwapBorrowRateMode(u, s, mode) PROVE Still(r)
    <2>1. s # r
      BY <1>9 DEF SwapBorrowRateMode, ValidSwapRateMode, Usable
    <2> QED
      BY <1>1, <1>9, <2>1 DEF SwapBorrowRateMode, Still
  <1>10. CASE \E use \in BOOLEAN : SetUserUseReserveAsCollateral(u, s, use)
    BY <1>2, <1>10 DEF SetUserUseReserveAsCollateral
  <1> QED
    BY <1>3, <1>4, <1>5, <1>6, <1>7, <1>8, <1>9, <1>10 DEF UserStep

LEMMA PausedLiquidation ==
    ASSUME TypeOK, NEW r \in Reserves, config[r].paused, NEW l, NEW u, NEW c \in Reserves,
           NEW d \in Reserves, NEW cover, NEW receive,
           LiquidationCall(l, u, c, d, cover, receive)
    PROVE  Still(r)
  <1>1. /\ availableLiquidity \in [Reserves -> Nat]
        /\ scaledBalance \in [Reserves -> [Accounts -> Nat]]
        /\ scaledDebt \in [Reserves -> [Users -> Nat]]
        /\ stableDebt \in [Reserves -> [Users -> Nat]]
    BY DEF TypeOK
  <1>2. c # r /\ d # r
    BY DEF LiquidationCall, ValidLiquidation, Usable
  <1>3. PICK balances, paid, covered :
            /\ scaledBalance' = [scaledBalance EXCEPT ![c] = balances]
            /\ availableLiquidity' = [s \in Reserves |->
                   availableLiquidity[s] - (IF s = c THEN paid ELSE 0)
                                         + (IF s = d THEN covered ELSE 0)]
            /\ BurnLiquidatedDebt(u, d, covered)
    BY DEF LiquidationCall
  <1>4. availableLiquidity'[r] = availableLiquidity[r] /\ scaledBalance'[r] = scaledBalance[r]
    BY <1>1, <1>2, <1>3
  <1>5. scaledDebt'[r] = scaledDebt[r] /\ stableDebt'[r] = stableDebt[r]
    BY <1>1, <1>2, <1>3 DEF BurnLiquidatedDebt
  <1> QED
    BY <1>4, <1>5 DEF Still

(***************************************************************************)
(* No operation of a user moves what anybody has or owes in a paused       *)
(* reserve or pays out of it, be it on the reserve or a liquidation of     *)
(* which it is the collateral or the debt, whoever pauses and unpauses     *)
(* reserves, or the pool, in between; only interest accrues.               *)
(***************************************************************************)
THEOREM PauseHolds == ConfiguredSpec => PausedReserveIsStill
  <1>1. TypeInv /\ [ConfiguredNext]_vars =>
            [\A r \in Reserves : config[r].paused /\ UNCHANGED market =>
               /\ availableLiquidity'[r] >= availableLiquidity[r]
               /\ \A u \in Users : UNCHANGED <<scaledBalance[r][u], scaledDebt[r][u],
                                               stableDebt[r][u]>>]_vars
    <2> SUFFICES ASSUME TypeInv, ConfiguredNext, NEW r \in Reserves, config[r].paused,
                        UNCHANGED market
                 PROVE  Still(r)
      BY DEF Still, TypeInv, TypeOK
    <2>1. TypeOK
      BY DEF TypeInv
    <2>2. CASE UNCHANGED <<availableLiquidity, scaledBalance, debts>>
      BY <2>2 DEF Still, debts
    <2>3. CASE \E u \in Users, s \in Reserves : UserStep(u, s)
      BY <2>1, <2>3, PausedUserStep
    <2>4. CASE \E u \in Users, c \in Categories \cup {0} : SetUserEMode(u, c)
      BY <2>2, <2>4 DEF SetUserEMode
    <2>5. CASE Liquidate
      BY <2>1, <2>5, PausedLiquidation DEF Liquidate
    <2>6. CASE Environment
      <3>1. CASE \E s \in Reserves, earned, charged \in {0, 1}, growth \in [Users -> {0, 1}] :
                     Accrue(s, earned, charged, growth)
        BY <2>1, <3>1, AccrualMoves
      <3>2. CASE UNCHANGED positions
        BY <2>2, <3>2 DEF positions
      <3> QED
        BY <2>6, <3>1, <3>2 DEF Environment, SetPrice, SetSentinel
    <2>7. CASE Administration
      BY <2>2, <2>7, AdminLeaves
    <2> QED
      BY <2>3, <2>4, <2>5, <2>6, <2>7 DEF ConfiguredNext, Next
  <1> QED
    BY <1>1, ConfiguredTypes, PTL DEF ConfiguredSpec, PausedReserveIsStill

-----------------------------------------------------------------------------
(* No stable debt where borrowing is disabled. *)

(* The swap of rate modes relies on what the two setters keep between them. *)
StableInv ==
    /\ TypeInv
    /\ \A r \in Reserves : config[r].stableRateBorrowing => config[r].borrowingEnabled

LEMMA StableInductive == ConfiguredSpec => []StableInv
  <1>1. Init => StableInv
    BY InitType, ListingAssumption DEF Init, StableInv
  <1>2. StableInv /\ [ConfiguredNext]_vars => StableInv'
    <2> SUFFICES ASSUME StableInv, [ConfiguredNext]_vars PROVE StableInv'
      OBVIOUS
    <2>1. TypeInv /\ TypeInv'
      BY ConfiguredStepType DEF StableInv
    <2>2. CASE [Next]_vars
      BY <2>1, <2>2, FixedSettings DEF StableInv, settings
    <2>3. CASE Administration
      BY <2>1, <2>3, AdminGuards DEF StableInv, FlagGuards
    <2> QED
      BY <2>2, <2>3 DEF ConfiguredNext
  <1> QED
    BY <1>1, <1>2, PTL DEF ConfiguredSpec

NoMoreStableDebt(r) == \A u \in Users : stableDebt'[r][u] <= stableDebt[r][u]

LEMMA SameStableDebt ==
    ASSUME TypeOK, NEW r \in Reserves, stableDebt'[r] = stableDebt[r]
    PROVE  NoMoreStableDebt(r)
  BY DEF TypeOK, NoMoreStableDebt

LEMMA RepaidStableDebt ==
    ASSUME TypeOK, NEW r \in Reserves, NEW u \in Users, NEW s \in Reserves,
           NEW payback \in Nat, NEW mode, RepayDebt(u, s, payback, mode)
    PROVE  NoMoreStableDebt(r)
  <1>1. stableDebt \in [Reserves -> [Users -> Nat]]
    BY DEF TypeOK
  <1>2. \/ stableDebt' = [stableDebt EXCEPT ![s][u] = @ - payback]
        \/ stableDebt' = stableDebt
    BY DEF RepayDebt, BurnDebt
  <1> QED
    BY <1>1, <1>2 DEF NoMoreStableDebt

LEMMA StableUserStep ==
    ASSUME StableInv, NEW r \in Reserves, ~config[r].borrowingEnabled,
           NEW u \in Users, NEW s \in Reserves, UserStep(u, s)
    PROVE  NoMoreStableDebt(r)
  <1>1. TypeOK /\ stableDebt \in [Reserves -> [Users -> Nat]]
    BY DEF StableInv, TypeInv, TypeOK
  <1>2. CASE UNCHANGED stableDebt
    BY <1>1, <1>2, SameStableDebt
  <1>3. \A amount \in Amounts[s] \cup Requests(s) : amount \in Nat
    BY RequestAssumption, NamesAssumption DEF Requests
  <1>4. ASSUME NEW amount, NEW mode, Borrow(u, s, amount, mode) PROVE NoMoreStableDebt(r)
    <2>1. s # r
      BY <1>4 DEF Borrow, BorrowAs, ValidBorrow, OpenToBorrowing
    <2>2. stableDebt'[r] = stableDebt[r]
      BY <1>1, <1>4, <2>1 DEF Borrow, BorrowAs, MintDebt
    <2> QED
      BY <1>1, <2>2, SameStableDebt
  <1>5. ASSUME NEW amount \in Nat, NEW mode \in Modes, Repay(u, s, amount, mode)
        PROVE  NoMoreStableDebt(r)
    <2>1. Least(amount, DebtOf(u, s, mode)) \in Nat
      BY <1>1, DebtOfType, LeastType
    <2> QED
      BY <1>1, <1>5, <2>1, RepaidStableDebt DEF Repay
  <1>6. ASSUME NEW amount \in Nat, NEW mode \in Modes, RepayWithRSTokens(u, s, amount, mode)
        PROVE  NoMoreStableDebt(r)
    <2>1. PICK offered : offered = IF amount = MaxUint THEN Balance(u, s) ELSE amount
      OBVIOUS
    <2>2. offered \in Nat
      BY <1>1, <2>1, BalanceType DEF Accounts
    <2>3. Least(offered, DebtOf(u, s, mode)) \in Nat
      BY <1>1, <2>2, DebtOfType, LeastType
    <2>4. RepayDebt(u, s, Least(offered, DebtOf(u, s, mode)), mode)
      BY <1>6, <2>1 DEF RepayWithRSTokens
    <2> QED
      BY <1>1, <2>3, <2>4, RepaidStableDebt
  <1>7. ASSUME NEW mode \in Modes, SwapBorrowRateMode(u, s, mode) PROVE NoMoreStableDebt(r)
    <2>1. CASE mode = "stable"
      <3>1. stableDebt' = [stableDebt EXCEPT ![s][u] = 0]
        BY <1>7, <2>1 DEF SwapBorrowRateMode
      <3> QED
        BY <1>1, <3>1 DEF NoMoreStableDebt
    <2>2. CASE mode = "variable"
      <3>1. config[s].stableRateBorrowing
        BY <1>7, <2>2 DEF SwapBorrowRateMode, ValidSwapRateMode
      <3>2. s # r
        BY <3>1 DEF StableInv
      <3>3. stableDebt'[r] = stableDebt[r]
        BY <1>1, <1>7, <2>2, <3>2 DEF SwapBorrowRateMode
      <3> QED
        BY <1>1, <3>3, SameStableDebt
    <2> QED
      BY <2>1, <2>2 DEF Modes
  <1>8. CASE \/ \E caller \in {u} \cup IsolatedSuppliers, amount \in Amounts[s] :
                    Supply(caller, u, s, amount)
             \/ \E amount \in Requests(s), forgo \in BOOLEAN : Withdraw(u, s, amount, forgo)
             \/ \E to \in Users, amount \in Amounts[s] : Transfer(u, to, s, amount)
             \/ \E use \in BOOLEAN : SetUserUseReserveAsCollateral(u, s, use)
    BY <1>2, <1>8 DEF Supply, Withdraw, Transfer, SetUserUseReserveAsCollateral, debts
  <1> QED
    BY <1>3, <1>4, <1>5, <1>6, <1>7, <1>8 DEF UserStep

(***************************************************************************)
(* Where borrowing is disabled no debt at a stable rate grows but by       *)
(* interest, although swapRate never asks whether borrowing is enabled:    *)
(* the setters let an asset have stable rates only with borrowing on, and  *)
(* borrowing go only with stable rates off, in whatever order admins call  *)
(* them (the invariant StableInv).                                         *)
(***************************************************************************)
THEOREM NoStableDebtHolds == ConfiguredSpec => NoStableDebtWhereClosed
  <1>1. StableInv /\ [ConfiguredNext]_vars =>
            [UNCHANGED market => \A r \in Reserves, u \in Users :
               ~config[r].borrowingEnabled => stableDebt'[r][u] <= stableDebt[r][u]]_vars
    <2> SUFFICES ASSUME StableInv, ConfiguredNext, UNCHANGED market,
                        NEW r \in Reserves, ~config[r].borrowingEnabled
                 PROVE  NoMoreStableDebt(r)
      BY DEF NoMoreStableDebt
    <2>1. TypeInv /\ TypeOK
      BY DEF StableInv, TypeInv
    <2>2. CASE UNCHANGED stableDebt
      BY <2>1, <2>2, SameStableDebt
    <2>3. CASE \E u \in Users, s \in Reserves : UserStep(u, s)
      BY <2>3, StableUserStep
    <2>4. CASE \E u \in Users, c \in Categories \cup {0} : SetUserEMode(u, c)
      BY <2>2, <2>4 DEF SetUserEMode, debts
    <2>5. CASE Liquidate
      <3>1. PICK l \in Users, u \in Users, c \in Reserves, d \in Reserves, receive \in BOOLEAN,
                 cover \in Nat : LiquidationCall(l, u, c, d, cover, receive)
        BY <2>5, RequestType DEF Liquidate
      <3>2. Least(cover, MaxLiquidatableDebt(u, d)) \in Nat
        BY <2>1, MaxLiquidatableType, LeastType
      <3>3. config[c].liquidationThreshold # 0
        BY <3>1 DEF LiquidationCall, ValidLiquidation
      <3>4. PICK amount \in Nat : BurnLiquidatedDebt(u, d, amount)
        BY <2>1, <3>1, <3>2, <3>3, LiquidationAmountsType DEF LiquidationCall
      <3>5. PICK variable : variable = Least(amount, VariableDebt(u, d))
        OBVIOUS
      <3>6. variable \in Nat /\ variable <= amount
        BY <2>1, <3>5, VariableDebtType, LeastType
      <3>7. stableDebt' = [stableDebt EXCEPT ![d][u] = @ - (amount - variable)]
        BY <3>4, <3>5 DEF BurnLiquidatedDebt
      <3>8. stableDebt \in [Reserves -> [Users -> Nat]]
        BY <2>1 DEF TypeOK
      <3> QED
        BY <3>6, <3>7, <3>8 DEF NoMoreStableDebt
    <2>6. CASE Environment
      <3>1. CASE \E s \in Reserves, earned, charged \in {0, 1}, growth \in [Users -> {0, 1}] :
                     Accrue(s, earned, charged, growth)
        BY <2>1, <3>1, AccrualMoves
      <3>2. CASE UNCHANGED positions
        BY <2>2, <3>2 DEF positions, debts
      <3> QED
        BY <2>6, <3>1, <3>2 DEF Environment, SetPrice, SetSentinel
    <2>7. CASE Administration
      BY <2>2, <2>7, AdminLeaves DEF debts
    <2> QED
      BY <2>3, <2>4, <2>5, <2>6, <2>7 DEF ConfiguredNext, Next
  <1> QED
    BY <1>1, StableInductive, PTL DEF ConfiguredSpec, NoStableDebtWhereClosed

-----------------------------------------------------------------------------
(* Siloed debt is alone, also where an asset becomes siloed later. *)

(* In a flat market a bit is cleared with the last of the debt. *)
BitsAreOwed == \A u \in Users : \A r \in borrowing[u] : Owes(u, r) # 0

(* At most one debt of one user changes. *)
LEMMA OneDebt ==
    ASSUME TypeOK, BitsAreOwed, NEW u \in Users, NEW r \in Reserves,
           \A v \in Users, s \in Reserves : v # u \/ s # r =>
               /\ scaledDebt'[s][v] = scaledDebt[s][v] /\ stableDebt'[s][v] = stableDebt[s][v]
               /\ s \in borrowing'[v] => s \in borrowing[v],
           \A v \in Users : borrowing'[v] \subseteq Reserves,
           r \in borrowing'[u] => scaledDebt'[r][u] + stableDebt'[r][u] # 0
    PROVE  BitsAreOwed'
  <1> SUFFICES ASSUME NEW v \in Users, NEW s \in borrowing'[v]
               PROVE  scaledDebt'[s][v] + stableDebt'[s][v] # 0
    BY DEF BitsAreOwed, Owes
  <1>1. s \in Reserves
    OBVIOUS
  <1> QED
    BY <1>1 DEF BitsAreOwed, Owes

LEMMA BorrowOwed ==
    ASSUME TypeOK, Flat, BitsAreOwed, NEW u \in Users, NEW c, NEW r \in Reserves,
           NEW amount \in Nat, NEW mode, NEW release,
           BorrowAs(u, c, r, amount, mode, release)
    PROVE  BitsAreOwed'
  <1>1. /\ scaledDebt \in [Reserves -> [Users -> Nat]]
        /\ stableDebt \in [Reserves -> [Users -> Nat]]
        /\ borrowing \in [Users -> SUBSET Reserves]
        /\ RayDiv(amount, variableIndex[r]) = amount
    BY FlatAmounts DEF TypeOK
  <1>2. /\ amount # 0
        /\ \/ /\ stableDebt' = [stableDebt EXCEPT ![r][u] = @ + amount]
              /\ scaledDebt' = scaledDebt
           \/ /\ scaledDebt' = [scaledDebt EXCEPT ![r][u] = @ + amount]
              /\ stableDebt' = stableDebt
        /\ \/ borrowing' = [borrowing EXCEPT ![u] = @ \cup {r}]
           \/ borrowing' = borrowing
    BY <1>1 DEF BorrowAs, ValidBorrow, MintDebt
  <1>3. scaledDebt'[r][u] + stableDebt'[r][u] # 0
    BY <1>1, <1>2
  <1>4. /\ \A v \in Users, s \in Reserves : v # u \/ s # r =>
               /\ scaledDebt'[s][v] = scaledDebt[s][v] /\ stableDebt'[s][v] = stableDebt[s][v]
               /\ s \in borrowing'[v] => s \in borrowing[v]
        /\ \A v \in Users : borrowing'[v] \subseteq Reserves
    BY <1>1, <1>2
  <1> QED
    BY <1>3, <1>4, OneDebt

LEMMA RepayOwed ==
    ASSUME TypeOK, Flat, BitsAreOwed, NEW u \in Users, NEW r \in Reserves,
           NEW payback \in Nat, NEW mode, RepayDebt(u, r, payback, mode)
    PROVE  BitsAreOwed'
  <1>1. /\ scaledDebt \in [Reserves -> [Users -> Nat]]
        /\ stableDebt \in [Reserves -> [Users -> Nat]]
        /\ borrowing \in [Users -> SUBSET Reserves]
        /\ RayDiv(payback, variableIndex[r]) = payback
        /\ Debt(u, r) = scaledDebt[r][u] + stableDebt[r][u]
    BY FlatAmounts DEF TypeOK
  <1>2. /\ \/ /\ stableDebt' = [stableDebt EXCEPT ![r][u] = @ - payback]
              /\ scaledDebt' = scaledDebt
           \/ /\ scaledDebt' = [scaledDebt EXCEPT ![r][u] = @ - payback]
              /\ stableDebt' = stableDebt
        /\ borrowing' = IF scaledDebt[r][u] + stableDebt[r][u] = payback
                        THEN [borrowing EXCEPT ![u] = @ \ {r}] ELSE borrowing
    BY <1>1 DEF RepayDebt, BurnDebt
  <1>3. scaledDebt'[r][u] + stableDebt'[r][u] = scaledDebt[r][u] + stableDebt[r][u] - payback
    BY <1>1, <1>2
  <1>4. r \in borrowing'[u] => scaledDebt'[r][u] + stableDebt'[r][u] # 0
    <2>1. CASE scaledDebt[r][u] + stableDebt[r][u] = payback
      BY <1>1, <1>2, <2>1
    <2>2. CASE scaledDebt[r][u] + stableDebt[r][u] # payback
      <3>1. scaledDebt[r][u] \in Nat /\ stableDebt[r][u] \in Nat
        BY <1>1
      <3>2. scaledDebt[r][u] + stableDebt[r][u] - payback # 0
        BY ONLY <2>2, <3>1, payback \in Nat
      <3> QED
        BY <1>3, <3>2
    <2> QED
      BY <2>1, <2>2
  <1>5. /\ \A v \in Users, s \in Reserves : v # u \/ s # r =>
               /\ scaledDebt'[s][v] = scaledDebt[s][v] /\ stableDebt'[s][v] = stableDebt[s][v]
               /\ s \in borrowing'[v] => s \in borrowing[v]
        /\ \A v \in Users : borrowing'[v] \subseteq Reserves
    <2>1. \A v \in Users, s \in Reserves : v # u \/ s # r =>
              scaledDebt'[s][v] = scaledDebt[s][v] /\ stableDebt'[s][v] = stableDebt[s][v]
      BY <1>1, <1>2
    <2>2. \A v \in Users : borrowing'[v] \subseteq borrowing[v]
      BY <1>1, <1>2
    <2> QED
      BY <1>1, <2>1, <2>2
  <1> QED
    BY <1>4, <1>5, OneDebt

LEMMA SwapOwed ==
    ASSUME TypeOK, Flat, BitsAreOwed, NEW u \in Users, NEW r \in Reserves, NEW mode,
           SwapBorrowRateMode(u, r, mode)
    PROVE  BitsAreOwed'
  <1>1. /\ scaledDebt \in [Reserves -> [Users -> Nat]]
        /\ stableDebt \in [Reserves -> [Users -> Nat]]
        /\ borrowing \in [Users -> SUBSET Reserves]
        /\ borrowing' = borrowing
    BY DEF TypeOK, SwapBorrowRateMode, flags
  <1>2. /\ VariableDebt(u, r) = scaledDebt[r][u]
        /\ RayDiv(stableDebt[r][u], variableIndex[r]) = stableDebt[r][u]
        /\ RayDiv(scaledDebt[r][u], variableIndex[r]) = scaledDebt[r][u]
    BY <1>1, FlatAmounts
  <1>3. \/ /\ stableDebt' = [stableDebt EXCEPT ![r][u] = 0]
           /\ scaledDebt' = [scaledDebt EXCEPT ![r][u] = @ + stableDebt[r][u]]
        \/ /\ stableDebt' = [stableDebt EXCEPT ![r][u] = @ + scaledDebt[r][u]]
           /\ scaledDebt' = [scaledDebt EXCEPT ![r][u] = @ - scaledDebt[r][u]]
    BY <1>2 DEF SwapBorrowRateMode
  <1>4. scaledDebt'[r][u] + stableDebt'[r][u] = scaledDebt[r][u] + stableDebt[r][u]
    BY <1>1, <1>3
  <1>5. r \in borrowing'[u] => scaledDebt'[r][u] + stableDebt'[r][u] # 0
    BY <1>1, <1>4 DEF BitsAreOwed, Owes
  <1>6. /\ \A v \in Users, s \in Reserves : v # u \/ s # r =>
               /\ scaledDebt'[s][v] = scaledDebt[s][v] /\ stableDebt'[s][v] = stableDebt[s][v]
               /\ s \in borrowing'[v] => s \in borrowing[v]
        /\ \A v \in Users : borrowing'[v] \subseteq Reserves
    BY <1>1, <1>3
  <1> QED
    BY <1>5, <1>6, OneDebt

LEMMA LiquidationOwed ==
    ASSUME TypeInv, Flat, BitsAreOwed, NEW l \in Users, NEW u \in Users, NEW c \in Reserves,
           NEW d \in Reserves, NEW cover \in Nat, NEW receive \in BOOLEAN,
           LiquidationCall(l, u, c, d, cover, receive)
    PROVE  BitsAreOwed'
  <1>1. /\ TypeOK
        /\ scaledDebt \in [Reserves -> [Users -> Nat]]
        /\ stableDebt \in [Reserves -> [Users -> Nat]]
        /\ borrowing \in [Users -> SUBSET Reserves]
    BY DEF TypeInv, TypeOK
  <1>2. PICK amount \in Nat : /\ BurnLiquidatedDebt(u, d, amount)
                              /\ borrowing' = IF Debt(u, d) = amount
                                              THEN [borrowing EXCEPT ![u] = @ \ {d}] ELSE borrowing
    <2>1. Least(cover, MaxLiquidatableDebt(u, d)) \in Nat
      BY MaxLiquidatableType, LeastType
    <2>2. config[c].liquidationThreshold # 0
      BY DEF LiquidationCall, ValidLiquidation
    <2> QED
      BY <2>1, <2>2, LiquidationAmountsType DEF LiquidationCall
  <1>3. PICK variable : variable = Least(amount, VariableDebt(u, d))
    OBVIOUS
  <1>4. /\ variable \in Nat /\ variable <= amount
        /\ RayDiv(variable, variableIndex[d]) = variable
        /\ Debt(u, d) = scaledDebt[d][u] + stableDebt[d][u]
    BY <1>1, <1>3, VariableDebtType, LeastType, FlatAmounts
  <1>5. /\ scaledDebt' = [scaledDebt EXCEPT ![d][u] = @ - variable]
        /\ stableDebt' = [stableDebt EXCEPT ![d][u] = @ - (amount - variable)]
    BY <1>2, <1>3, <1>4 DEF BurnLiquidatedDebt
  <1>6. scaledDebt'[d][u] + stableDebt'[d][u] = scaledDebt[d][u] + stableDebt[d][u] - amount
    BY <1>1, <1>4, <1>5
  <1>7. d \in borrowing'[u] => scaledDebt'[d][u] + stableDebt'[d][u] # 0
    <2>1. CASE scaledDebt[d][u] + stableDebt[d][u] = amount
      BY <1>1, <1>2, <1>4, <2>1
    <2>2. CASE scaledDebt[d][u] + stableDebt[d][u] # amount
      <3>1. scaledDebt[d][u] \in Nat /\ stableDebt[d][u] \in Nat
        BY <1>1
      <3>2. scaledDebt[d][u] + stableDebt[d][u] - amount # 0
        BY ONLY <2>2, <3>1, amount \in Nat
      <3> QED
        BY <1>6, <3>2
    <2> QED
      BY <2>1, <2>2
  <1>8. /\ \A v \in Users, s \in Reserves : v # u \/ s # d =>
               /\ scaledDebt'[s][v] = scaledDebt[s][v] /\ stableDebt'[s][v] = stableDebt[s][v]
               /\ s \in borrowing'[v] => s \in borrowing[v]
        /\ \A v \in Users : borrowing'[v] \subseteq Reserves
    BY <1>1, <1>2, <1>5
  <1> QED
    BY <1>1, <1>7, <1>8, OneDebt

LEMMA OwedOfNext ==
    ASSUME NothingAccrues, TypeInv, Flat, BitsAreOwed, [Next]_vars
    PROVE  BitsAreOwed'
  <1>1. TypeOK
    BY DEF TypeInv
  <1>2. CASE UNCHANGED <<debts, borrowing>>
    BY <1>2 DEF BitsAreOwed, Owes, debts
  <1>3. CASE \E u \in Users, r \in Reserves : UserStep(u, r)
    <2>1. PICK u \in Users, r \in Reserves : UserStep(u, r)
      BY <1>3
    <2>2. \A amount \in Amounts[r] \cup Requests(r) : amount \in Nat
      BY RequestAssumption, NamesAssumption DEF Requests
    <2>3. ASSUME NEW amount \in Nat, NEW mode, Borrow(u, r, amount, mode) PROVE BitsAreOwed'
      BY <1>1, <2>3, BorrowOwed DEF Borrow
    <2>4. ASSUME NEW amount \in Nat, NEW mode \in Modes, Repay(u, r, amount, mode)
          PROVE  BitsAreOwed'
      <3>1. Least(amount, DebtOf(u, r, mode)) \in Nat
        BY <1>1, DebtOfType, LeastType
      <3> QED
        BY <1>1, <2>4, <3>1, RepayOwed DEF Repay
    <2>5. ASSUME NEW amount \in Nat, NEW mode \in Modes, RepayWithRSTokens(u, r, amount, mode)
          PROVE  BitsAreOwed'
      <3>1. PICK offered : offered = IF amount = MaxUint THEN Balance(u, r) ELSE amount
        OBVIOUS
      <3>2. offered \in Nat
        BY <1>1, <3>1, BalanceType DEF Accounts
      <3>3. Least(offered, DebtOf(u, r, mode)) \in Nat
        BY <1>1, <3>2, DebtOfType, LeastType
      <3>4. RepayDebt(u, r, Least(offered, DebtOf(u, r, mode)), mode)
        BY <2>5, <3>1 DEF RepayWithRSTokens
      <3> QED
        BY <1>1, <3>3, <3>4, RepayOwed
    <2>6. ASSUME NEW mode, SwapBorrowRateMode(u, r, mode) PROVE BitsAreOwed'
      BY <1>1, <2>6, SwapOwed
    <2>7. CASE \/ \E caller \in {u} \cup IsolatedSuppliers, amount \in Amounts[r] :
                      Supply(caller, u, r, amount)
               \/ \E amount \in Requests(r), forgo \in BOOLEAN : Withdraw(u, r, amount, forgo)
               \/ \E to \in Users, amount \in Amounts[r] : Transfer(u, to, r, amount)
               \/ \E use \in BOOLEAN : SetUserUseReserveAsCollateral(u, r, use)
      BY <1>2, <2>7 DEF Supply, Withdraw, Transfer, SetUserUseReserveAsCollateral
    <2> QED
      BY <2>1, <2>2, <2>3, <2>4, <2>5, <2>6, <2>7 DEF UserStep
  <1>4. CASE \E u \in Users, c \in Categories \cup {0} : SetUserEMode(u, c)
    BY <1>2, <1>4 DEF SetUserEMode, flags
  <1>5. CASE Liquidate
    <2>1. PICK l \in Users, u \in Users, c \in Reserves, d \in Reserves, receive \in BOOLEAN,
               cover \in Nat : LiquidationCall(l, u, c, d, cover, receive)
      BY <1>5, RequestType DEF Liquidate
    <2> QED
      BY <2>1, LiquidationOwed
  <1>6. CASE Environment
    <2>1. UNCHANGED positions
      BY <1>1, <1>6, FlatStep DEF Environment, SetPrice, SetSentinel
    <2> QED
      BY <1>2, <2>1 DEF positions, flags
  <1>7. CASE UNCHANGED vars
    BY <1>2, <1>7 DEF vars, flags
  <1> QED
    BY <1>3, <1>4, <1>5, <1>6, <1>7 DEF Next

(* Nobody borrows an asset whose debts add up to nothing. *)
LEMMA NobodyBorrows ==
    ASSUME TypeOK, Flat, BitsAreOwed, NEW r \in Reserves, NoBorrowers(r)
    PROVE  \A u \in Users : r \notin borrowing[u]
  <1>1. /\ TotalScaledDebt(r) = 0 /\ TotalStableDebt(r) = 0
    <2>1. TotalScaledDebt(r) \in Nat /\ TotalStableDebt(r) \in Nat
      BY Totals
    <2>2. RayMul(TotalScaledDebt(r), variableIndex[r]) = TotalScaledDebt(r)
      BY <2>1, FlatAmounts
    <2> QED
      BY <2>1, <2>2 DEF NoBorrowers
  <1>2. scaledDebt[r] \in [Users -> Nat] /\ stableDebt[r] \in [Users -> Nat]
    BY DEF TypeOK
  <1>3. ASSUME NEW u \in Users PROVE scaledDebt[r][u] = 0 /\ stableDebt[r][u] = 0
    <2>1. /\ scaledDebt[r][u] <= SumFunctionOnSet(scaledDebt[r], Users)
          /\ stableDebt[r][u] <= SumFunctionOnSet(stableDebt[r], Users)
      BY <1>2, FiniteAccounts, SumBound
    <2>2. scaledDebt[r][u] \in Nat /\ stableDebt[r][u] \in Nat
      BY <1>2
    <2> QED
      BY <1>1, <2>1, <2>2, Totals
  <1> QED
    BY <1>3 DEF BitsAreOwed, Owes

SiloInv == TypeInv /\ Flat /\ BitsAreOwed /\ SiloedDebtIsAlone

LEMMA AdminSilo ==
    ASSUME SiloInv, Administration
    PROVE  BitsAreOwed' /\ SiloedDebtIsAlone'
  <1>1. borrowing' = borrowing /\ UNCHANGED debts
    BY AdminLeaves DEF flags
  <1>2. BitsAreOwed'
    BY <1>1 DEF SiloInv, BitsAreOwed, Owes, debts
  <1>3. ASSUME NEW u \in Users, NEW r \in borrowing[u], config'[r].siloed
        PROVE  borrowing[u] = {r}
    <2>1. r \in Reserves
      BY DEF SiloInv, TypeInv, TypeOK
    <2>2. CASE config[r].siloed
      BY <2>2 DEF SiloInv, SiloedDebtIsAlone
    <2>3. CASE ~config[r].siloed
      <3>1. NoBorrowers(r)
        BY <1>3, <2>1, <2>3, AdminGuards DEF SiloInv, FlagGuards
      <3> QED
        BY <2>1, <3>1, NobodyBorrows DEF SiloInv, TypeInv
    <2> QED
      BY <2>2, <2>3
  <1> QED
    BY <1>1, <1>2, <1>3 DEF SiloedDebtIsAlone

(***************************************************************************)
(* A user who borrows a siloed asset borrows nothing else, although an     *)
(* admin may silo an asset that is borrowed at other times: the setter     *)
(* looks at the debt tokens' supplies, and nothing owed in sum means no    *)
(* bit set for anybody, because a bit is cleared with the last of its debt *)
(* (nothing accruing: with interest a rounded repayment may leave a bit    *)
(* that has no debt).                                                      *)
(***************************************************************************)
THEOREM ConfiguredSiloHolds ==
    ASSUME NothingAccrues
    PROVE  ConfiguredSpec => []SiloedDebtIsAlone
  <1>1. Init => SiloInv
    BY InitType DEF Init, SiloInv, Flat, BitsAreOwed, SiloedDebtIsAlone
  <1>2. SiloInv /\ [ConfiguredNext]_vars => SiloInv'
    <2> SUFFICES ASSUME SiloInv, [ConfiguredNext]_vars PROVE SiloInv'
      OBVIOUS
    <2>1. TypeInv /\ TypeOK /\ TypeInv' /\ Flat'
      BY ConfiguredStepType, ConfiguredBooks DEF SiloInv, TypeInv
    <2>2. CASE [Next]_vars
      BY <2>1, <2>2, OwedOfNext, SiloOfNext DEF SiloInv
    <2>3. CASE Administration
      BY <2>1, <2>3, AdminSilo DEF SiloInv
    <2> QED
      BY <2>2, <2>3 DEF ConfiguredNext
  <1>3. SiloInv => SiloedDebtIsAlone
    BY DEF SiloInv
  <1> QED
    BY <1>1, <1>2, <1>3, PTL DEF ConfiguredSpec

-----------------------------------------------------------------------------
(* Admins make no entries in the books. *)

(***************************************************************************)
(* The pool keeps the ledger of cash, claims and debts while nothing       *)
(* accrues, whatever the admins list, pause, freeze, cap, reassign or      *)
(* reconfigure between the users' transactions: no setting takes a claim   *)
(* from anybody or adds to a debt.                                         *)
(***************************************************************************)
THEOREM ConfiguredLedgerHolds ==
    ASSUME NothingAccrues
    PROVE  ConfiguredSpec => KeepsTheLedger
  <1>1. TypeInv /\ Flat /\ [ConfiguredNext]_vars => (TypeInv /\ Flat)'
    BY ConfiguredStepType, ConfiguredBooks
  <1>2. TypeInv /\ Flat /\ [ConfiguredNext]_vars =>
            [Ledger!Next]_<<availableLiquidity, scaledBalance, OwedBook>>
    <2> SUFFICES ASSUME TypeInv, Flat, [ConfiguredNext]_vars
                 PROVE  Ledger!Next \/ UNCHANGED <<availableLiquidity, scaledBalance, OwedBook>>
      OBVIOUS
    <2>1. Typed
      BY ConfiguredStepType DEF TypeInv, Typed
    <2>2. CASE [Next]_vars
      BY <2>1, <2>2, StepEntry
    <2>3. CASE Administration
      BY <2>3, AdminLeaves, SameOwedBook
    <2> QED
      BY <2>2, <2>3 DEF ConfiguredNext
  <1>3. Init => TypeInv /\ Flat /\ Ledger!Init
    BY InitBooks, InitEntry DEF BooksInv
  <1> QED
    BY <1>1, <1>2, <1>3, PTL
       DEF ConfiguredSpec, KeepsTheLedger, Ledger!Spec, Ledger!books

-----------------------------------------------------------------------------
(* EMode debt while admins reassign assets. *)

(* Only an assignment changes the category of an asset, and only its switch whether
   it may be borrowed. *)
AssignmentGuards(r) ==
    /\ config'[r].eModeCategory # config[r].eModeCategory => Assignments[r] # {}
    /\ config'[r].borrowingEnabled # config[r].borrowingEnabled =>
           "borrowingEnabled" \in Switches[r]

LEMMA AssignmentsKept ==
    ASSUME TypeInv, NEW r \in Reserves, NEW s \in Reserves, NEW map,
           SetConfiguration(r, map),
           map.eModeCategory = config[r].eModeCategory \/ Assignments[r] # {},
           \/ map.borrowingEnabled = config[r].borrowingEnabled
           \/ "borrowingEnabled" \in Switches[r]
    PROVE  AssignmentGuards(s)
  <1>1. config' = [config EXCEPT ![r] = map] /\ config \in [Reserves -> ReserveConfiguration]
    BY DEF SetConfiguration, TypeInv, TypeOK
  <1> QED
    BY <1>1 DEF AssignmentGuards

LEMMA AdminAssigns ==
    ASSUME TypeInv, Administration, NEW s \in Reserves
    PROVE  AssignmentGuards(s)
  <1>1. config \in [Reserves -> ReserveConfiguration]
    BY DEF TypeInv, TypeOK
  <1>2. CASE \E r \in Reserves : AdminStep(r)
    <2>1. PICK r \in Reserves : AdminStep(r)
      BY <1>2
    <2>2. config[r] \in ReserveConfiguration
      BY <1>1
    <2>3. CASE \E flag \in Switches[r], value \in BOOLEAN : SetFlag(flag, r, value)
      <3>1. PICK flag \in Switches[r], value \in BOOLEAN : SetFlag(flag, r, value)
        BY <2>3
      <3>2. PICK map : map = [config[r] EXCEPT ![flag] = value]
        OBVIOUS
      <3>3. /\ map.eModeCategory = config[r].eModeCategory
            /\ flag # "borrowingEnabled" => map.borrowingEnabled = config[r].borrowingEnabled
        <4>1. flag \in FlagNames
          BY <3>1, AdminAssumption
        <4> QED
          BY <2>2, <3>2, <4>1 DEF ReserveConfiguration, FlagNames
      <3>4. SetConfiguration(r, map)
        BY <3>1, <3>2 DEF SetFlag
      <3> QED
        BY <3>1, <3>3, <3>4, AssignmentsKept
    <2>4. CASE \E ceiling \in DebtCeilings[r] : SetDebtCeiling(r, ceiling)
      <3>1. PICK ceiling, map : /\ SetConfiguration(r, map)
                                /\ map = [config[r] EXCEPT !.debtCeiling = ceiling]
        BY <2>4 DEF SetDebtCeiling
      <3>2. /\ map.eModeCategory = config[r].eModeCategory
            /\ map.borrowingEnabled = config[r].borrowingEnabled
        BY <2>2, <3>1 DEF ReserveConfiguration
      <3> QED
        BY <3>1, <3>2, AssignmentsKept
    <2>5. CASE \E p \in CollateralSettings[r] : ConfigureReserveAsCollateral(r, p)
      <3>1. PICK p, map : /\ SetConfiguration(r, map)
                          /\ map = [config[r] EXCEPT !.ltv = p.ltv,
                                        !.liquidationThreshold = p.liquidationThreshold,
                                        !.liquidationBonus = p.liquidationBonus]
        BY <2>5 DEF ConfigureReserveAsCollateral
      <3>2. /\ map.eModeCategory = config[r].eModeCategory
            /\ map.borrowingEnabled = config[r].borrowingEnabled
        BY <2>2, <3>1 DEF ReserveConfiguration
      <3> QED
        BY <3>1, <3>2, AssignmentsKept
    <2>6. CASE \E c \in Assignments[r] : SetAssetEModeCategory(r, c)
      <3>1. PICK c, map : /\ SetConfiguration(r, map)
                          /\ map = [config[r] EXCEPT !.eModeCategory = c]
        BY <2>6 DEF SetAssetEModeCategory
      <3>2. map.borrowingEnabled = config[r].borrowingEnabled
        BY <2>2, <3>1 DEF ReserveConfiguration
      <3> QED
        BY <2>6, <3>1, <3>2, AssignmentsKept
    <2>7. CASE \E limit \in Limits[r] : SetLimit(limit[1], r, limit[2])
      <3>1. PICK name \in LimitNames, value \in Nat : SetLimit(name, r, value)
        BY <2>7, AdminAssumption
      <3>2. PICK map : map = [config[r] EXCEPT ![name] = value]
        OBVIOUS
      <3>3. /\ map.eModeCategory = config[r].eModeCategory
            /\ map.borrowingEnabled = config[r].borrowingEnabled
        BY <2>2, <3>2 DEF ReserveConfiguration, LimitNames
      <3>4. SetConfiguration(r, map)
        BY <3>1, <3>2 DEF SetLimit
      <3> QED
        BY <3>3, <3>4, AssignmentsKept
    <2> QED
      BY <2>1, <2>3, <2>4, <2>5, <2>6, <2>7 DEF AdminStep
  <1>3. CASE \E value \in BOOLEAN : SetPoolPause(value)
    <2>1. PICK value \in BOOLEAN :
              config' = [r \in Reserves |-> [config[r] EXCEPT !.paused = value]]
      BY <1>3 DEF SetPoolPause
    <2>2. config'[s] = [config[s] EXCEPT !.paused = value] /\ config[s] \in ReserveConfiguration
      BY <1>1, <2>1
    <2>3. /\ config'[s].eModeCategory = config[s].eModeCategory
          /\ config'[s].borrowingEnabled = config[s].borrowingEnabled
      BY <2>2 DEF ReserveConfiguration
    <2> QED
      BY <2>3 DEF AssignmentGuards
  <1>4. CASE \E c \in Categories : \E p \in CategorySettings[c] : SetEModeCategory(c, p)
    BY <1>4 DEF SetEModeCategory, AssignmentGuards
  <1> QED
    BY <1>2, <1>3, <1>4 DEF Administration

(* What setAssetEModeCategory leaves to the admins: an asset that somebody borrows
   stays in its category. *)
BorrowedAssetsStay ==
    [][\A r \in Reserves : config'[r].eModeCategory # config[r].eModeCategory =>
           \A u \in Users : r \notin borrowing[u]]_vars

(***************************************************************************)
(* "When in eMode, debt will always be in the same eMode category"         *)
(* (LiquidationLogic) also while admins reassign assets and retune         *)
(* categories, provided they reassign no asset that somebody borrows: no   *)
(* other setter, and no order of theirs with borrowing and entering eMode, *)
(* endangers it.                                                           *)
(***************************************************************************)
THEOREM ConfiguredEModeHolds ==
    ConfiguredSpec /\ BorrowedAssetsStay => []EModeDebtInCategory
  <1>1. Init => TypeInv /\ EModeDebtInCategory
    BY InitType DEF Init, EModeDebtInCategory
  <1>2. /\ TypeInv /\ EModeDebtInCategory
        /\ [ConfiguredNext]_vars
        /\ [\A r \in Reserves : config'[r].eModeCategory # config[r].eModeCategory =>
                \A u \in Users : r \notin borrowing[u]]_vars
        => (TypeInv /\ EModeDebtInCategory)'
    <2> SUFFICES ASSUME TypeInv, EModeDebtInCategory, [ConfiguredNext]_vars,
                        \/ \A r \in Reserves :
                               config'[r].eModeCategory # config[r].eModeCategory =>
                                   \A u \in Users : r \notin borrowing[u]
                        \/ UNCHANGED vars
                 PROVE  EModeDebtInCategory'
      BY ConfiguredStepType
    <2>1. TypeOK /\ borrowing \in [Users -> SUBSET Reserves]
      BY DEF TypeInv, TypeOK
    <2>2. CASE [Next]_vars
      BY <2>1, <2>2, EModeOfNext
    <2>3. CASE Administration
      <3>1. UNCHANGED <<borrowing, eMode>>
        BY <2>3, AdminLeaves DEF flags
      <3>2. ASSUME NEW u \in Users, NEW r \in borrowing[u]
            PROVE  config'[r].eModeCategory = config[r].eModeCategory
        BY <2>1 DEF vars, settings
      <3> QED
        BY <3>1, <3>2 DEF EModeDebtInCategory
    <2> QED
      BY <2>2, <2>3 DEF ConfiguredNext
  <1> QED
    BY <1>1, <1>2, PTL DEF ConfiguredSpec, BorrowedAssetsStay

(* An asset that admins may reassign is one that nobody may ever borrow. *)
OnlyCollateralIsReassigned ==
    \A r \in Reserves : Assignments[r] # {} =>
        ~InitialConfig[r].borrowingEnabled /\ "borrowingEnabled" \notin Switches[r]

CollateralOnly ==
    \A r \in Reserves : Assignments[r] # {} =>
        ~config[r].borrowingEnabled /\ \A u \in Users : r \notin borrowing[u]

LEMMA CollateralOnlyOfNext ==
    ASSUME TypeOK, CollateralOnly, [Next]_vars
    PROVE  CollateralOnly'
  <1>1. config' = config
    BY FixedSettings DEF settings
  <1>2. CASE \A v \in Users : BorrowingStep(v)
    BY <1>1, <1>2 DEF CollateralOnly, BorrowingStep, ValidBorrow, OpenToBorrowing
  <1>3. CASE \E u \in Users, c \in Categories \cup {0} : SetUserEMode(u, c)
    BY <1>1, <1>3 DEF SetUserEMode, flags, CollateralOnly
  <1> QED
    BY <1>2, <1>3, BorrowingOfNext

(***************************************************************************)
(* In particular eMode debt stays in its category when the admins reassign *)
(* only assets that serve as collateral alone and never open them to       *)
(* borrowing, whatever else they set.                                      *)
(***************************************************************************)
THEOREM ReassignedCollateralIsSafe ==
    ASSUME OnlyCollateralIsReassigned
    PROVE  ConfiguredSpec => []EModeDebtInCategory
  <1>1. Init => TypeInv /\ CollateralOnly
    BY InitType DEF Init, CollateralOnly, OnlyCollateralIsReassigned
  <1>2. TypeInv /\ CollateralOnly /\ [ConfiguredNext]_vars => (TypeInv /\ CollateralOnly)'
    <2> SUFFICES ASSUME TypeInv, CollateralOnly, [ConfiguredNext]_vars PROVE CollateralOnly'
      BY ConfiguredStepType
    <2>1. CASE [Next]_vars
      BY <2>1, CollateralOnlyOfNext DEF TypeInv
    <2>2. CASE Administration
      BY <2>2, AdminAssigns, AdminLeaves
         DEF CollateralOnly, AssignmentGuards, OnlyCollateralIsReassigned, flags
    <2> QED
      BY <2>1, <2>2 DEF ConfiguredNext
  <1>3. TypeInv /\ CollateralOnly /\ [ConfiguredNext]_vars =>
            [\A r \in Reserves : config'[r].eModeCategory # config[r].eModeCategory =>
                 \A u \in Users : r \notin borrowing[u]]_vars
    <2> SUFFICES ASSUME TypeInv, CollateralOnly, [ConfiguredNext]_vars, NEW r \in Reserves,
                        config'[r].eModeCategory # config[r].eModeCategory, NEW u \in Users
                 PROVE  r \notin borrowing[u]
      OBVIOUS
    <2>1. CASE [Next]_vars
      BY <2>1, FixedSettings DEF settings
    <2>2. CASE Administration
      BY <2>2, AdminAssigns DEF AssignmentGuards, CollateralOnly
    <2> QED
      BY <2>1, <2>2 DEF ConfiguredNext
  <1>4. ConfiguredSpec => BorrowedAssetsStay
    BY <1>1, <1>2, <1>3, PTL DEF ConfiguredSpec, BorrowedAssetsStay
  <1> QED
    BY <1>4, ConfiguredEModeHolds

-----------------------------------------------------------------------------
(* Debt ceilings that come and go. *)

(* Only a choice of ceilings changes a ceiling: it starts isolation where nobody has
   supplied, and ends it by forgetting what was counted. *)
CeilingGuards(r) ==
    /\ config'[r].debtUnit = config[r].debtUnit
    /\ config'[r].debtCeiling # config[r].debtCeiling =>
           DebtCeilings[r] # {} /\ (config[r].debtCeiling = 0 => NoSuppliers(r))
    /\ \/ /\ isolationModeTotalDebt'[r] = isolationModeTotalDebt[r]
          /\ config'[r].debtCeiling = 0 => config[r].debtCeiling = 0
       \/ isolationModeTotalDebt'[r] = 0 /\ config'[r].debtCeiling = 0

LEMMA CeilingKept ==
    ASSUME TypeInv, NEW r \in Reserves, NEW s \in Reserves, NEW map, SetConfiguration(r, map),
           map.debtUnit = config[r].debtUnit, map.debtCeiling = config[r].debtCeiling,
           isolationModeTotalDebt' = isolationModeTotalDebt
    PROVE  CeilingGuards(s)
  <1>1. config' = [config EXCEPT ![r] = map] /\ config \in [Reserves -> ReserveConfiguration]
    BY DEF SetConfiguration, TypeInv, TypeOK
  <1>2. /\ config'[s].debtUnit = config[s].debtUnit
        /\ config'[s].debtCeiling = config[s].debtCeiling
    BY <1>1
  <1> QED
    BY <1>2 DEF CeilingGuards

LEMMA AdminCeilings ==
    ASSUME TypeInv, Administration, NEW s \in Reserves
    PROVE  CeilingGuards(s)
  <1>1. config \in [Reserves -> ReserveConfiguration]
    BY DEF TypeInv, TypeOK
  <1>2. CASE \E r \in Reserves : AdminStep(r)
    <2>1. PICK r \in Reserves : AdminStep(r)
      BY <1>2
    <2>2. config[r] \in ReserveConfiguration
      BY <1>1
    <2>3. CASE \E flag \in Switches[r], value \in BOOLEAN : SetFlag(flag, r, value)
      <3>1. PICK flag \in FlagNames, value \in BOOLEAN : SetFlag(flag, r, value)
        BY <2>3, AdminAssumption
      <3>2. PICK map : map = [config[r] EXCEPT ![flag] = value]
        OBVIOUS
      <3>3. map.debtUnit = config[r].debtUnit /\ map.debtCeiling = config[r].debtCeiling
        BY <2>2, <3>2 DEF ReserveConfiguration, FlagNames
      <3>4. SetConfiguration(r, map) /\ isolationModeTotalDebt' = isolationModeTotalDebt
        BY <3>1, <3>2 DEF SetFlag
      <3> QED
        BY <3>3, <3>4, CeilingKept
    <2>4. CASE \E ceiling \in DebtCeilings[r] : SetDebtCeiling(r, ceiling)
      <3>1. PICK ceiling \in DebtCeilings[r] : SetDebtCeiling(r, ceiling)
        BY <2>4
      <3>2. PICK map : map = [config[r] EXCEPT !.debtCeiling = ceiling]
        OBVIOUS
      <3>3. map.debtUnit = config[r].debtUnit /\ map.debtCeiling = ceiling
        BY <2>2, <3>2 DEF ReserveConfiguration
      <3>4. /\ config' = [config EXCEPT ![r] = map]
            /\ config[r].debtCeiling = 0 => NoSuppliers(r)
            /\ isolationModeTotalDebt' =
                   IF ceiling = 0 THEN [isolationModeTotalDebt EXCEPT ![r] = 0]
                   ELSE isolationModeTotalDebt
        BY <3>1, <3>2 DEF SetDebtCeiling, SetConfiguration
      <3>5. isolationModeTotalDebt \in [Reserves -> Nat]
        BY DEF TypeInv, TypeOK
      <3>6. CASE s = r
        <4>1. config'[s] = map
          BY <1>1, <3>4, <3>6
        <4>2. isolationModeTotalDebt'[s] = IF ceiling = 0 THEN 0 ELSE isolationModeTotalDebt[s]
          BY <3>4, <3>5, <3>6
        <4> QED
          BY <3>1, <3>3, <3>4, <3>6, <4>1, <4>2 DEF CeilingGuards
      <3>7. CASE s # r
        <4>1. config'[s] = config[s] /\ isolationModeTotalDebt'[s] = isolationModeTotalDebt[s]
          BY <1>1, <3>4, <3>5, <3>7
        <4> QED
          BY <4>1 DEF CeilingGuards
      <3> QED
        BY <3>6, <3>7
    <2>5. CASE \E p \in CollateralSettings[r] : ConfigureReserveAsCollateral(r, p)
      <3>1. PICK p, map : /\ SetConfiguration(r, map)
                          /\ map = [config[r] EXCEPT !.ltv = p.ltv,
                                        !.liquidationThreshold = p.liquidationThreshold,
                                        !.liquidationBonus = p.liquidationBonus]
                          /\ isolationModeTotalDebt' = isolationModeTotalDebt
        BY <2>5 DEF ConfigureReserveAsCollateral
      <3>2. map.debtUnit = config[r].debtUnit /\ map.debtCeiling = config[r].debtCeiling
        BY <2>2, <3>1 DEF ReserveConfiguration
      <3> QED
        BY <3>1, <3>2, CeilingKept
    <2>6. CASE \E c \in Assignments[r] : SetAssetEModeCategory(r, c)
      <3>1. PICK c, map : /\ SetConfiguration(r, map)
                          /\ map = [config[r] EXCEPT !.eModeCategory = c]
                          /\ isolationModeTotalDebt' = isolationModeTotalDebt
        BY <2>6 DEF SetAssetEModeCategory
      <3>2. map.debtUnit = config[r].debtUnit /\ map.debtCeiling = config[r].debtCeiling
        BY <2>2, <3>1 DEF ReserveConfiguration
      <3> QED
        BY <3>1, <3>2, CeilingKept
    <2>7. CASE \E limit \in Limits[r] : SetLimit(limit[1], r, limit[2])
      <3>1. PICK name \in LimitNames, value \in Nat : SetLimit(name, r, value)
        BY <2>7, AdminAssumption
      <3>2. PICK map : map = [config[r] EXCEPT ![name] = value]
        OBVIOUS
      <3>3. map.debtUnit = config[r].debtUnit /\ map.debtCeiling = config[r].debtCeiling
        BY <2>2, <3>2 DEF ReserveConfiguration, LimitNames
      <3>4. SetConfiguration(r, map) /\ isolationModeTotalDebt' = isolationModeTotalDebt
        BY <3>1, <3>2 DEF SetLimit
      <3> QED
        BY <3>3, <3>4, CeilingKept
    <2> QED
      BY <2>1, <2>3, <2>4, <2>5, <2>6, <2>7 DEF AdminStep
  <1>3. CASE \E value \in BOOLEAN : SetPoolPause(value)
    <2>1. PICK value \in BOOLEAN :
              /\ config' = [r \in Reserves |-> [config[r] EXCEPT !.paused = value]]
              /\ isolationModeTotalDebt' = isolationModeTotalDebt
      BY <1>3 DEF SetPoolPause
    <2>2. config'[s] = [config[s] EXCEPT !.paused = value] /\ config[s] \in ReserveConfiguration
      BY <1>1, <2>1
    <2>3. /\ config'[s].debtUnit = config[s].debtUnit
          /\ config'[s].debtCeiling = config[s].debtCeiling
      BY <2>2 DEF ReserveConfiguration
    <2> QED
      BY <2>1, <2>3 DEF CeilingGuards
  <1>4. CASE \E c \in Categories : \E p \in CategorySettings[c] : SetEModeCategory(c, p)
    BY <1>4 DEF SetEModeCategory, CeilingGuards
  <1> QED
    BY <1>2, <1>3, <1>4 DEF Administration

(* What setDebtCeiling takes for granted when it finds no supply: nobody has the bit. *)
UnsuppliedIsUnused ==
    \A r \in Reserves : DebtCeilings[r] # {} /\ TotalSupplyScaled(r) = 0 =>
        \A u \in Users : r \notin usingAsCollateral[u]

LEMMA NoSuppliersNoSupply ==
    ASSUME TypeOK, NEW r \in Reserves, NoSuppliers(r)
    PROVE  TotalSupplyScaled(r) = 0
  <1>1. TotalSupplyScaled(r) \in Nat /\ liquidityIndex[r] \in Nat /\ liquidityIndex[r] >= RAY
    BY Totals DEF TypeOK
  <1>2. PICK supply, index \in Nat : supply = TotalSupplyScaled(r) /\ index = liquidityIndex[r]
    BY <1>1
  <1>3. RayMul(index, supply) >= supply
    BY <1>1, <1>2, RayMulGrows
  <1>4. RayMul(index, supply) = RayMul(supply, index)
    <2>1. index * supply = supply * index
      BY <1>1, <1>2
    <2> QED
      BY <2>1 DEF RayMul
  <1> QED
    BY <1>1, <1>2, <1>3, <1>4 DEF NoSuppliers

(* Only an asset that nobody uses becomes isolated. *)
LEMMA IsolatedUnused ==
    ASSUME TypeInv, UnsuppliedIsUnused, Administration, NEW r \in Reserves,
           config[r].debtCeiling = 0, config'[r].debtCeiling # 0, NEW u \in Users
    PROVE  r \notin usingAsCollateral[u]
  <1>1. DebtCeilings[r] # {} /\ NoSuppliers(r)
    BY AdminCeilings DEF CeilingGuards
  <1> QED
    BY <1>1, NoSuppliersNoSupply DEF UnsuppliedIsUnused, TypeInv

LEMMA AdminIsolation ==
    ASSUME CollateralInv, UnsuppliedIsUnused, Administration
    PROVE  IsolatedCollateralIsAlone'
  <1>1. usingAsCollateral' = usingAsCollateral
    BY AdminLeaves DEF flags
  <1> SUFFICES ASSUME NEW u \in Users, NEW r \in usingAsCollateral[u],
                      config'[r].debtCeiling # 0
               PROVE  usingAsCollateral[u] = {r}
    BY <1>1 DEF IsolatedCollateralIsAlone
  <1>2. r \in Reserves
    BY DEF CollateralInv, TypeInv, TypeOK
  <1>3. config[r].debtCeiling # 0
    BY <1>2, IsolatedUnused DEF CollateralInv
  <1> QED
    BY <1>3 DEF CollateralInv, IsolatedCollateralIsAlone

(***************************************************************************)
(* The admins may give an asset a debt ceiling or take it away while users *)
(* hold positions: an isolated collateral still stays the only one of its  *)
(* users.  setDebtCeiling sees to it by refusing a ceiling for an asset    *)
(* with supply (_checkNoSuppliers), so what has to hold of the pool is     *)
(* that nobody uses as collateral what nobody has supplied.  It can fail:  *)
(* executeRepay burns a whole balance and leaves the bit, and a liquidator *)
(* may be given the bit with no amount.                                    *)
(***************************************************************************)
THEOREM ConfiguredIsolationHolds ==
    ConfiguredSpec /\ []UnsuppliedIsUnused => []IsolatedCollateralIsAlone
  <1>1. Init => CollateralInv
    BY InitType DEF Init, CollateralInv, IsolatedCollateralIsAlone
  <1>2. CollateralInv /\ UnsuppliedIsUnused /\ [ConfiguredNext]_vars => CollateralInv'
    <2> SUFFICES ASSUME CollateralInv, UnsuppliedIsUnused, [ConfiguredNext]_vars
                 PROVE  IsolatedCollateralIsAlone'
      BY ConfiguredStepType DEF CollateralInv
    <2>1. CASE [Next]_vars
      BY <2>1, StepCollateral
    <2>2. CASE Administration
      BY <2>2, AdminIsolation
    <2> QED
      BY <2>1, <2>2 DEF ConfiguredNext
  <1>3. CollateralInv => IsolatedCollateralIsAlone
    BY DEF CollateralInv
  <1> QED
    BY <1>1, <1>2, <1>3, PTL DEF ConfiguredSpec

LEMMA AdminCounts ==
    ASSUME CeilingInv, FlagInv', Flat', UnsuppliedIsUnused, Administration
    PROVE  CeilingInv'
  <1>1. /\ UNCHANGED <<debts, usingAsCollateral>> /\ OwedBook' = OwedBook
        /\ TypeInv /\ TypeOK /\ CollateralInv
    BY AdminLeaves, SameOwedBook DEF flags, CeilingInv, FlagInv, TypeInv, CollateralInv
  <1>2. IsolatedCollateralIsAlone'
    BY <1>1, AdminIsolation
  <1>3. \A r \in Reserves : CeilingGuards(r)
    BY <1>1, AdminCeilings
  <1>4. WholeUnits'
    BY <1>3 DEF CeilingGuards, CeilingInv, WholeUnits
  <1>5. Covered'
    <2>1. \A u \in Users, r \in Reserves : Owes(u, r)' = Owes(u, r)
      BY <1>1 DEF Owes, debts
    <2> QED
      BY <1>1, <2>1 DEF CeilingInv, Covered
  <1>6. ASSUME NEW k \in Reserves
        PROVE  isolationModeTotalDebt'[k] = IF config'[k].debtCeiling # 0 THEN Exposed(k)' ELSE 0
    <2>1. Exposed(k)' = Exposed(k)
      <3>1. \A u \in Users : Counted(u, k)' = Counted(u, k)
        BY <1>1 DEF Counted, Exposure
      <3>2. [u \in Users |-> Counted(u, k)'] = [u \in Users |-> Counted(u, k)]
        BY <3>1
      <3> QED
        BY <3>2 DEF Exposed
    <2>2. isolationModeTotalDebt[k] = IF config[k].debtCeiling # 0 THEN Exposed(k) ELSE 0
      BY DEF CeilingInv, ExposureCounted
    <2>3. CASE config[k].debtCeiling = 0 /\ config'[k].debtCeiling # 0
      <3>1. \A u \in Users : k \notin usingAsCollateral[u]
        BY <1>1, <2>3, IsolatedUnused
      <3>2. \A u \in Users : [v \in Users |-> Counted(v, k)][u] = 0
        BY <3>1 DEF Counted
      <3>3. Exposed(k) = 0
        BY <3>2, NamesAssumption, SumOfZeros DEF Exposed
      <3> QED
        BY <1>3, <2>1, <2>2, <2>3, <3>3 DEF CeilingGuards
    <2>4. CASE ~(config[k].debtCeiling = 0 /\ config'[k].debtCeiling # 0)
      BY <1>3, <2>1, <2>2, <2>4 DEF CeilingGuards
    <2> QED
      BY <2>3, <2>4
  <1> QED
    BY <1>2, <1>4, <1>5, <1>6 DEF CeilingInv, ExposureCounted

(***************************************************************************)
(* Under the same condition, and that of IsolatedDebtHolds, the count      *)
(* against a debt ceiling is what the isolated users owe, though the       *)
(* admins move the ceilings: setDebtCeiling forgets the count when it      *)
(* takes a ceiling away, and an asset that gets one has no users to count. *)
(***************************************************************************)
THEOREM ConfiguredIsolatedDebtHolds ==
    ASSUME NothingAccrues, \A r \in Reserves : InitialConfig[r].debtUnit = 1
    PROVE  ConfiguredSpec /\ []UnsuppliedIsUnused /\ [][LiquidationLeavesCollateral]_vars
               => []IsolatedDebtIsExact
  <1>1. Init => CeilingInv
    BY InitCeilings
  <1>2. /\ CeilingInv /\ UnsuppliedIsUnused
        /\ [ConfiguredNext]_vars /\ [LiquidationLeavesCollateral]_vars
        => CeilingInv'
    <2> SUFFICES ASSUME CeilingInv, UnsuppliedIsUnused, [ConfiguredNext]_vars,
                        [LiquidationLeavesCollateral]_vars
                 PROVE  CeilingInv'
      OBVIOUS
    <2>1. LiquidationLeavesCollateral
      <3>1. CASE UNCHANGED vars
        BY <3>1 DEF vars, flags, LiquidationLeavesCollateral
      <3> QED
        BY <3>1
    <2>2. CASE [Next]_vars
      BY <2>1, <2>2, StepCeilings
    <2>3. CASE Administration
      <3>1. TypeInv' /\ Flat'
        BY ConfiguredStepType, ConfiguredBooks DEF CeilingInv, FlagInv
      <3>2. FlagInv'
        BY <2>3, <3>1, AdminLeaves DEF CeilingInv, FlagInv, DebtIsFlagged, debts, flags
      <3> QED
        BY <2>3, <3>1, <3>2, AdminCounts
    <2> QED
      BY <2>2, <2>3 DEF ConfiguredNext
  <1>3. CeilingInv => IsolatedDebtIsExact
    BY CeilingsAreExact
  <1> QED
    BY <1>1, <1>2, <1>3, PTL DEF ConfiguredSpec

(* Whoever uses s as collateral holds some. *)
HeldBy(s) == \A u \in Users : s \in usingAsCollateral[u] => scaledBalance[s][u] # 0

(* No liquidator is given the bit of an asset that may be isolated. *)
LiquidationAddsNoCollateral ==
    Liquidate => \A u \in Users : \A r \in usingAsCollateral'[u] :
                     DebtCeilings[r] # {} => r \in usingAsCollateral[u]

(* A user loses all of s only by a step that clears the bit, unless he repays with it. *)
LEMMA UserStepHeld ==
    ASSUME Typed, Flat, NEW u \in Users, NEW r \in Reserves, UserStep(u, r), NEW s \in Reserves,
           HeldBy(s), \A mode \in Modes : r = s => DebtOf(u, r, mode) = 0
    PROVE  HeldBy(s)'
  <1>1. /\ TypeOK /\ TypeInv /\ scaledBalance \in [Reserves -> [Accounts -> Nat]]
        /\ usingAsCollateral \in [Users -> SUBSET Reserves]
        /\ u \in Accounts /\ \A v \in Users : v \in Accounts
    BY DEF Typed, TypeInv, TypeOK, Accounts
  <1>2. /\ \A amount \in Amounts[r] \cup Requests(r) : amount \in Nat
        /\ \A n \in Nat : RayDiv(n, liquidityIndex[r]) = n
        /\ \A v \in Users : Balance(v, r) = scaledBalance[r][v]
    BY <1>1, RequestAssumption, NamesAssumption, FlatAmounts DEF Requests
  <1>3. CASE UNCHANGED <<scaledBalance, usingAsCollateral>>
    BY <1>3 DEF HeldBy
  <1>4. CASE \E caller \in {u} \cup IsolatedSuppliers, amount \in Amounts[r] :
                 Supply(caller, u, r, amount)
    <2>1. PICK amount \in Nat :
              /\ amount # 0
              /\ scaledBalance' = [scaledBalance EXCEPT ![r][u] = @ + amount]
              /\ \/ usingAsCollateral' = usingAsCollateral
                 \/ usingAsCollateral' = [usingAsCollateral EXCEPT ![u] = @ \cup {r}]
      BY <1>2, <1>4 DEF Supply, ValidSupply
    <2>2. ASSUME NEW v \in Users, s \in usingAsCollateral'[v] PROVE scaledBalance'[s][v] # 0
      <3>1. CASE v = u /\ s = r
        BY <1>1, <2>1, <3>1
      <3>2. CASE v # u \/ s # r
        BY <1>1, <2>1, <2>2, <3>2 DEF HeldBy
      <3> QED
        BY <3>1, <3>2
    <2> QED
      BY <2>2 DEF HeldBy
  <1>5. CASE \E amount \in Requests(r), forgo \in BOOLEAN : Withdraw(u, r, amount, forgo)
    <2>1. PICK amount \in Requests(r), forgo \in BOOLEAN : Withdraw(u, r, amount, forgo)
      BY <1>5
    <2>2. PICK balance, withdrawn \in Nat :
              /\ balance = scaledBalance[r][u]
              /\ withdrawn = IF amount = MaxUint THEN balance ELSE amount
      BY <1>1, <1>2
    <2>3. /\ withdrawn <= balance
          /\ scaledBalance' = [scaledBalance EXCEPT ![r][u] = balance - withdrawn]
          /\ usingAsCollateral' =
                 IF withdrawn = balance THEN [usingAsCollateral EXCEPT ![u] = @ \ {r}]
                 ELSE usingAsCollateral
      BY <1>1, <1>2, <2>1, <2>2 DEF Withdraw
    <2>4. ASSUME NEW v \in Users, s \in usingAsCollateral'[v] PROVE scaledBalance'[s][v] # 0
      <3>1. CASE v = u /\ s = r
        <4>1. withdrawn # balance
          BY <1>1, <2>3, <2>4, <3>1
        <4> QED
          BY <1>1, <2>3, <3>1, <4>1
      <3>2. CASE v # u \/ s # r
        BY <1>1, <2>3, <2>4, <3>2 DEF HeldBy
      <3> QED
        BY <3>1, <3>2
    <2> QED
      BY <2>4 DEF HeldBy
  <1>6. CASE \E to \in Users, amount \in Amounts[r] : Transfer(u, to, r, amount)
    <2>1. PICK to \in Users, amount \in Nat : Transfer(u, to, r, amount)
      BY <1>2, <1>6
    <2>2. /\ u # to /\ amount # 0 /\ amount <= scaledBalance[r][u]
          /\ scaledBalance' = [scaledBalance EXCEPT ![r] = Move(@, u, to, amount)]
          /\ usingAsCollateral'[u] = IF scaledBalance[r][u] = amount
                                     THEN usingAsCollateral[u] \ {r} ELSE usingAsCollateral[u]
          /\ usingAsCollateral'[to] \subseteq usingAsCollateral[to] \cup {r}
          /\ \A v \in Users : v # u /\ v # to => usingAsCollateral'[v] = usingAsCollateral[v]
      BY <1>1, <1>2, <2>1 DEF Transfer
    <2>3. Move(scaledBalance[r], u, to, amount) =
              [scaledBalance[r] EXCEPT ![u] = @ - amount, ![to] = @ + amount]
      BY <2>2 DEF Move
    <2>4. /\ scaledBalance'[r][u] = scaledBalance[r][u] - amount
          /\ scaledBalance'[r][to] = scaledBalance[r][to] + amount
          /\ \A v \in Users : v # u /\ v # to => scaledBalance'[r][v] = scaledBalance[r][v]
          /\ s # r => scaledBalance'[s] = scaledBalance[s]
      BY <1>1, <2>2, <2>3
    <2>5. ASSUME NEW v \in Users, s \in usingAsCollateral'[v] PROVE scaledBalance'[s][v] # 0
      <3>1. CASE s # r
        BY <2>2, <2>4, <2>5, <3>1 DEF HeldBy
      <3>2. CASE s = r /\ v = u
        <4>1. scaledBalance[r][u] # amount
          BY <2>2, <2>5, <3>2
        <4>2. PICK held \in Nat : held = scaledBalance[r][u]
          BY <1>1, <1>2
        <4>3. held # amount /\ held - amount # 0
          BY <2>1, <4>1, <4>2
        <4>4. scaledBalance'[r][u] # 0
          BY <2>4, <4>2, <4>3
        <4> QED
          BY <3>2, <4>4
      <3>3. CASE s = r /\ v = to
        BY <1>1, <2>2, <2>4, <3>3
      <3>4. CASE s = r /\ v # u /\ v # to
        BY <2>2, <2>4, <2>5, <3>4 DEF HeldBy
      <3> QED
        BY <3>1, <3>2, <3>3, <3>4
    <2> QED
      BY <2>5 DEF HeldBy
  <1>7. CASE \E use \in BOOLEAN : SetUserUseReserveAsCollateral(u, r, use)
    <2>1. PICK bits : /\ scaledBalance[r][u] # 0 /\ scaledBalance' = scaledBalance
                      /\ usingAsCollateral' = [usingAsCollateral EXCEPT ![u] = bits]
                      /\ bits \subseteq usingAsCollateral[u] \cup {r}
      BY <1>1, <1>2, <1>7 DEF SetUserUseReserveAsCollateral
    <2> QED
      BY <1>1, <2>1 DEF HeldBy
  <1>8. CASE \E amount \in Requests(r), mode \in Modes : RepayWithRSTokens(u, r, amount, mode)
    <2>1. r # s
      BY <1>8 DEF RepayWithRSTokens, RepayDebt
    <2>2. scaledBalance'[s] = scaledBalance[s] /\ usingAsCollateral' = usingAsCollateral
      BY <1>1, <1>8, <2>1 DEF RepayWithRSTokens
    <2> QED
      BY <2>2 DEF HeldBy
  <1> QED
    BY <1>3, <1>4, <1>5, <1>6, <1>7, <1>8
       DEF UserStep, Borrow, BorrowAs, Repay, SwapBorrowRateMode, flags

(* A borrower whose bit a liquidation leaves is left some of the collateral. *)
LEMMA LiquidationHeld ==
    ASSUME Typed, Flat, NEW l \in Users, NEW u \in Users, NEW c \in Reserves,
           NEW d \in Reserves, NEW cover \in Nat, NEW receive \in BOOLEAN,
           LiquidationCall(l, u, c, d, cover, receive), NEW s \in Reserves, HeldBy(s),
           \A v \in Users : s \in usingAsCollateral'[v] => s \in usingAsCollateral[v]
    PROVE  HeldBy(s)'
  <1>1. /\ TypeOK /\ TypeInv /\ scaledBalance \in [Reserves -> [Accounts -> Nat]]
        /\ usingAsCollateral \in [Users -> SUBSET Reserves]
        /\ u \in Accounts /\ \A v \in Users : v \in Accounts /\ v # Treasury
    BY NamesAssumption DEF Typed, TypeInv, TypeOK, Accounts
  <1>2. PICK amounts, taken, fee :
            /\ amounts = LiquidationAmounts(u, c, d, Least(cover, MaxLiquidatableDebt(u, d)))
            /\ taken = amounts.collateral /\ fee = amounts.fee
    OBVIOUS
  <1>3. /\ taken \in Nat /\ fee \in Nat /\ taken + fee <= scaledBalance[c][u]
        /\ Balance(u, c) = scaledBalance[c][u]
    <2>1. TypeInv /\ Least(cover, MaxLiquidatableDebt(u, d)) \in Nat
      BY <1>1, MaxLiquidatableType, LeastType
    <2>2. config[c].liquidationThreshold # 0
      BY DEF LiquidationCall, ValidLiquidation
    <2>3. Balance(u, c) = scaledBalance[c][u]
      BY <1>1, FlatAmounts
    <2> QED
      BY <1>2, <2>1, <2>2, <2>3, LiquidationAmountsType
  <1>4. RayDiv(taken, liquidityIndex[c]) = taken /\ RayDiv(fee, liquidityIndex[c]) = fee
    BY <1>1, <1>3, FlatAmounts
  <1>5. PICK seized : seized = SeizedFrom(scaledBalance[c], u, l, taken, fee, receive)
    OBVIOUS
  <1>6. scaledBalance' = [scaledBalance EXCEPT ![c] = seized]
    BY <1>2, <1>4, <1>5 DEF LiquidationCall, SeizedFrom, PaidOut
  <1>7. \A a \in Accounts : seized[a] =
            scaledBalance[c][a] - (IF a = u THEN taken + fee ELSE 0)
                                + (IF a = l /\ receive THEN taken ELSE 0)
                                + (IF a = Treasury THEN fee ELSE 0)
    <2>1. scaledBalance[c] \in [Accounts -> Nat]
      BY <1>1
    <2> QED
      BY <1>3, <1>5, <2>1, SeizedClaims
  <1>8. c \in usingAsCollateral'[u] => taken + fee # scaledBalance[c][u]
    <2>2. usingAsCollateral'[u] = IF taken + fee = scaledBalance[c][u]
                                  THEN usingAsCollateral[u] \ {c} ELSE usingAsCollateral[u]
      BY <1>1, <1>2, <1>3 DEF LiquidationCall
    <2> QED
      BY <2>2
  <1>9. ASSUME NEW v \in Users, s \in usingAsCollateral'[v] PROVE scaledBalance'[s][v] # 0
    <2>1. scaledBalance[s][v] # 0
      BY <1>9 DEF HeldBy
    <2>2. CASE s # c
      BY <1>1, <1>6, <2>1, <2>2
    <2>3. CASE s = c
      <3>1. scaledBalance'[s][v] = seized[v]
        BY <1>1, <1>6, <1>7, <2>3
      <3>2. seized[v] = scaledBalance[c][v] - (IF v = u THEN taken + fee ELSE 0)
                                            + (IF v = l /\ receive THEN taken ELSE 0)
        BY <1>1, <1>3, <1>7
      <3>3. PICK held \in Nat : held = scaledBalance[c][v] /\ held # 0
        BY <1>1, <2>1, <2>3
      <3>4. PICK gain \in Nat : gain = IF v = l /\ receive THEN taken ELSE 0
        BY <1>3
      <3>5. CASE v = u
        <4>1. held # taken + fee /\ taken + fee <= held
          BY <1>3, <1>8, <1>9, <2>3, <3>3, <3>5
        <4>2. seized[v] = held - (taken + fee) + gain
          BY <3>2, <3>3, <3>4, <3>5
        <4>3. seized[v] # 0
          BY <1>3, <4>1, <4>2
        <4> QED
          BY <3>1, <4>3
      <3>6. CASE v # u
        <4>1. seized[v] = held - 0 + gain
          BY <3>2, <3>3, <3>4, <3>6
        <4>2. seized[v] # 0
          BY <3>3, <4>1
        <4> QED
          BY <3>1, <4>2
      <3> QED
        BY <3>5, <3>6
    <2> QED
      BY <2>2, <2>3
  <1> QED
    BY <1>9 DEF HeldBy

LEMMA NextHeld ==
    ASSUME NothingAccrues, FlagInv, Flat, TypeOK', [Next]_vars, LiquidationAddsNoCollateral,
           NEW s \in Reserves, DebtCeilings[s] # {}, HeldBy(s),
           \A u \in Users : s \notin borrowing[u]
    PROVE  HeldBy(s)'
  <1>1. TypeOK /\ Typed
    BY DEF FlagInv, TypeInv, Typed
  <1>2. CASE UNCHANGED <<scaledBalance, usingAsCollateral>>
    BY <1>2 DEF HeldBy
  <1>3. CASE \E u \in Users, r \in Reserves : UserStep(u, r)
    <2>1. \A u \in Users : scaledDebt[s][u] = 0 /\ stableDebt[s][u] = 0
      BY DEF FlagInv, DebtIsFlagged
    <2>2. \A u \in Users, mode \in Modes : DebtOf(u, s, mode) = 0
      BY <1>1, <2>1, NoDebt DEF DebtOf
    <2> QED
      BY <1>1, <1>3, <2>2, UserStepHeld
  <1>4. CASE \E u \in Users, c \in Categories \cup {0} : SetUserEMode(u, c)
    BY <1>2, <1>4 DEF SetUserEMode, flags
  <1>5. CASE Liquidate
    <2>1. PICK l \in Users, u \in Users, c \in Reserves, d \in Reserves, receive \in BOOLEAN,
               cover \in Nat : LiquidationCall(l, u, c, d, cover, receive)
      BY <1>5, RequestType DEF Liquidate
    <2> QED
      BY <1>1, <1>5, <2>1, LiquidationHeld DEF LiquidationAddsNoCollateral
  <1>6. CASE Environment
    <2>1. UNCHANGED positions
      BY <1>1, <1>6, FlatStep DEF Environment, SetPrice, SetSentinel
    <2> QED
      BY <1>2, <2>1 DEF positions, flags
  <1>7. CASE UNCHANGED vars
    BY <1>2, <1>7 DEF vars, flags
  <1> QED
    BY <1>3, <1>4, <1>5, <1>6, <1>7 DEF Next

(* An asset that may come to be isolated, or cease to be, is one that nobody may ever borrow. *)
OnlyCollateralIsIsolated ==
    \A r \in Reserves : DebtCeilings[r] # {} =>
        ~InitialConfig[r].borrowingEnabled /\ "borrowingEnabled" \notin Switches[r]

IsolatedOnly ==
    \A r \in Reserves : DebtCeilings[r] # {} =>
        /\ ~config[r].borrowingEnabled
        /\ \A u \in Users : r \notin borrowing[u]
        /\ HeldBy(r)

UnusedInv == FlagInv /\ Flat /\ IsolatedOnly

LEMMA IsolatedOnlyOfNext ==
    ASSUME NothingAccrues, UnusedInv, TypeOK', [Next]_vars, LiquidationAddsNoCollateral
    PROVE  IsolatedOnly'
  <1>1. config' = config /\ TypeOK
    BY FixedSettings DEF settings, UnusedInv, FlagInv, TypeInv
  <1>2. \A r \in Reserves : DebtCeilings[r] # {} => HeldBy(r)'
    BY NextHeld DEF UnusedInv, IsolatedOnly
  <1>3. \A r \in Reserves : DebtCeilings[r] # {} => \A u \in Users : r \notin borrowing'[u]
    <2>1. CASE \A v \in Users : BorrowingStep(v)
      BY <2>1 DEF UnusedInv, IsolatedOnly, BorrowingStep, ValidBorrow, OpenToBorrowing
    <2>2. CASE \E u \in Users, c \in Categories \cup {0} : SetUserEMode(u, c)
      BY <2>2 DEF SetUserEMode, flags, UnusedInv, IsolatedOnly
    <2> QED
      BY <1>1, <2>1, <2>2, BorrowingOfNext
  <1> QED
    BY <1>1, <1>2, <1>3 DEF IsolatedOnly, UnusedInv

LEMMA IsolatedOnlyOfAdmins ==
    ASSUME OnlyCollateralIsIsolated, UnusedInv, Administration
    PROVE  IsolatedOnly'
  <1>1. UNCHANGED <<scaledBalance, usingAsCollateral, borrowing>>
    BY AdminLeaves DEF flags
  <1>2. \A r \in Reserves : HeldBy(r)' <=> HeldBy(r)
    BY <1>1 DEF HeldBy
  <1>3. \A r \in Reserves : AssignmentGuards(r)
    BY AdminAssigns DEF UnusedInv, FlagInv
  <1> QED
    BY <1>1, <1>2, <1>3
       DEF IsolatedOnly, UnusedInv, AssignmentGuards, OnlyCollateralIsIsolated

LEMMA HeldIsSupplied ==
    ASSUME UnusedInv
    PROVE  UnsuppliedIsUnused
  <1> SUFFICES ASSUME NEW r \in Reserves, DebtCeilings[r] # {}, TotalSupplyScaled(r) = 0,
                      NEW u \in Users, r \in usingAsCollateral[u]
               PROVE  FALSE
    BY DEF UnsuppliedIsUnused
  <1>1. TypeOK /\ scaledBalance[r] \in [Accounts -> Nat] /\ u \in Accounts
    BY DEF UnusedInv, FlagInv, TypeInv, TypeOK, Accounts
  <1>2. scaledBalance[r][u] # 0 /\ scaledBalance[r][u] \in Nat
    BY <1>1 DEF UnusedInv, IsolatedOnly, HeldBy
  <1>3. scaledBalance[r][u] <= SumFunctionOnSet(scaledBalance[r], Accounts)
    BY <1>1, FiniteAccounts, SumBound
  <1>4. SumFunctionOnSet(scaledBalance[r], Accounts) = 0
    BY <1>1, Totals
  <1> QED
    BY <1>2, <1>3, <1>4

(***************************************************************************)
(* In particular ceilings may be set and taken away at any time, whatever  *)
(* else the admins do, of assets that are collateral alone and are never   *)
(* opened to borrowing: with nothing to repay in them no balance is burned *)
(* behind the bit, so no user of one has none of it, and the supply that   *)
(* setDebtCeiling looks at tells whether there are users.                  *)
(***************************************************************************)
THEOREM IsolatedCollateralIsSafe ==
    ASSUME NothingAccrues, \A r \in Reserves : InitialConfig[r].debtUnit = 1,
           OnlyCollateralIsIsolated
    PROVE  ConfiguredSpec /\ [][LiquidationAddsNoCollateral]_vars =>
               /\ []IsolatedCollateralIsAlone
               /\ [][LiquidationLeavesCollateral]_vars => []IsolatedDebtIsExact
  <1>1. Init => UnusedInv
    BY InitType DEF Init, UnusedInv, FlagInv, Flat, DebtIsFlagged, IsolatedOnly, HeldBy,
                    OnlyCollateralIsIsolated
  <1>2. UnusedInv /\ [ConfiguredNext]_vars /\ [LiquidationAddsNoCollateral]_vars => UnusedInv'
    <2> SUFFICES ASSUME UnusedInv, [ConfiguredNext]_vars, [LiquidationAddsNoCollateral]_vars
                 PROVE  UnusedInv'
      OBVIOUS
    <2>1. TypeInv' /\ TypeOK' /\ Flat'
      BY ConfiguredStepType, ConfiguredBooks DEF UnusedInv, FlagInv, TypeInv
    <2>2. CASE [Next]_vars
      <3>1. LiquidationAddsNoCollateral
        BY DEF vars, flags, LiquidationAddsNoCollateral
      <3> QED
        BY <2>1, <2>2, <3>1, IsolatedOnlyOfNext, StepFlags DEF UnusedInv, FlagInv
    <2>3. CASE Administration
      <3>1. FlagInv'
        BY <2>1, <2>3, AdminLeaves DEF UnusedInv, FlagInv, DebtIsFlagged, debts, flags
      <3> QED
        BY <2>1, <2>3, <3>1, IsolatedOnlyOfAdmins DEF UnusedInv
    <2> QED
      BY <2>2, <2>3 DEF ConfiguredNext
  <1>3. UnusedInv => UnsuppliedIsUnused
    BY HeldIsSupplied
  <1>4. ConfiguredSpec /\ [][LiquidationAddsNoCollateral]_vars => []UnsuppliedIsUnused
    BY <1>1, <1>2, <1>3, PTL DEF ConfiguredSpec
  <1> QED
    BY <1>4, ConfiguredIsolationHolds, ConfiguredIsolatedDebtHolds, PTL
=============================================================================
