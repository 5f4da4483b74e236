SPECIFICATION FlashSpec
CONSTANTS
  alice = alice
  bob = bob
  A = A
  B = B
  C = C
  K = K
  Users = {alice}
  Treasury = treasury
  Reserves = {A, B, C}
  PriceSources <- NoSources
  NoSource = none
  Categories = {1}
  MaxUint = 100000
  WAD = 1000
  RAY = 1
  PERCENTAGE_FACTOR = 100
  IsolatedSuppliers = {}
  MaxStableRateBorrowSizePercent = 50
  InitialConfig <- EModeConfig
  InitialCategories <- EModeCategories
  InitialPrice <- EModePricing
  InitialLiquidity <- EModeLiquidity
  Forgoing = {}
  Amounts <- EModeAmounts
  MaxBalance <- EModeBalances
  PriceMoves <- SteadyPrices
  MaxLiquidity <- NoHoldingLimit
  MaxFees = 0
  MaxIndex <- NoInterest
  SentinelMayFail = FALSE
  FlashLoanPremiumTotal = 0
  FlashBorrowers = {}
  LoanRequests <- CategoryChoices
  MaxNesting = 1
  MaxLoanIndex = 1300
INVARIANT LoanedDebtInCategory
