SPECIFICATION ConfiguredSpec
CONSTANTS
  alice = alice
  bob = bob
  A = A
  B = B
  C = C
  K = K
  Users = {alice, bob}
  Treasury = treasury
  Reserves = {K, B}
  PriceSources <- NoSources
  NoSource = none
  Categories = {}
  MaxUint = 100000
  WAD = 1000
  RAY = 1
  PERCENTAGE_FACTOR = 100
  IsolatedSuppliers = {bob}
  MaxStableRateBorrowSizePercent = 50
  InitialConfig <- IsolationConfig
  InitialCategories <- NoCategories
  InitialPrice <- OnePrice
  InitialLiquidity <- IsolationLiquidity
  Forgoing = {}
  Amounts <- IsolationAmounts
  MaxBalance <- IsolationBalances
  PriceMoves <- SteadyPrices
  MaxLiquidity <- NoHoldingLimit
  MaxFees = 0
  MaxIndex <- NoInterest
  SentinelMayFail = FALSE
  Switches <- CeilingFlags
  DebtCeilings <- CeilingChoices
  CollateralSettings <- Nothing
  Assignments <- Nothing
  Limits <- CeilingLimits
  CategorySettings <- NothingPerCategory
INVARIANTS IsolatedCollateralIsAlone IsolatedDebtIsExact
PROPERTY GrowthRespectsCaps
