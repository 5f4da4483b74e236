SPECIFICATION ConfiguredSpec
CONSTANTS
  alice = alice
  bob = bob
  A = A
  B = B
  C = C
  K = K
  Users = {alice}
  Treasury = treasury
  Reserves = {A, B, C}
  PriceSources <- NoSources
  NoSource = none
  Categories = {1}
  MaxUint = 100000
  WAD = 1000
  RAY = 1
  PERCENTAGE_FACTOR = 100
  IsolatedSuppliers = {}
  MaxStableRateBorrowSizePercent = 50
  InitialConfig <- RetunedConfig
  InitialCategories <- EModeCategories
  InitialPrice <- RetunedPrices
  InitialLiquidity <- RetunedLiquidity
  Forgoing = {}
  Amounts <- RetunedAmounts
  MaxBalance <- RetunedBalances
  PriceMoves <- RetunedMoves
  MaxLiquidity <- NoHoldingLimit
  MaxFees = 0
  MaxIndex <- NoInterest
  SentinelMayFail = FALSE
  Switches <- Nothing
  DebtCeilings <- Nothing
  CollateralSettings <- RetunedCollateral
  Assignments <- RetunedAssignments
  Limits <- Nothing
  CategorySettings <- RetunedCategories
INVARIANTS SiloedDebtIsAlone EModeDebtInCategory
PROPERTIES HealthyInEModeStaysHealthy LoansCoverTheBonus
