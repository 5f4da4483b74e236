SPECIFICATION ConfiguredSpec
CONSTANTS
  alice = alice
  bob = bob
  A = A
  B = B
  C = C
  K = K
  Users = {alice}
  Treasury = treasury
  Reserves = {K, B}
  PriceSources <- NoSources
  NoSource = none
  Categories = {}
  MaxUint = 100000
  WAD = 1000
  RAY = 1
  PERCENTAGE_FACTOR = 100
  IsolatedSuppliers = {}
  MaxStableRateBorrowSizePercent = 50
  InitialConfig <- ReentryConfig
  InitialCategories <- NoCategories
  InitialPrice <- OnePrice
  InitialLiquidity <- NoLiquidity
  Forgoing = {}
  Amounts <- ReentryAmounts
  MaxBalance <- ReentryBalances
  PriceMoves <- SteadyPrices
  MaxLiquidity <- NoHoldingLimit
  MaxFees = 0
  MaxIndex <- NoInterest
  SentinelMayFail = FALSE
  Switches <- Nothing
  DebtCeilings <- CeilingChoices
  CollateralSettings <- Nothing
  Assignments <- Nothing
  Limits <- Nothing
  CategorySettings <- NothingPerCategory
INVARIANT IsolatedSupplyIsAlone
