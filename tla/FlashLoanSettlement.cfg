SPECIFICATION FlashSpec
CONSTANTS
  alice = alice
  bob = bob
  A = A
  B = B
  C = C
  K = K
  Users = {alice}
  Treasury = treasury
  Reserves = {A, B, C}
  PriceSources <- NoSources
  NoSource = none
  Categories = {}
  MaxUint = 100000
  WAD = 1000
  RAY = 1000
  PERCENTAGE_FACTOR = 100
  IsolatedSuppliers = {}
  MaxStableRateBorrowSizePercent = 50
  InitialConfig <- LoanConfig
  InitialCategories <- NoCategories
  InitialPrice <- OnePrice
  InitialLiquidity <- LoanLiquidity
  Forgoing = {}
  Amounts <- LoanAmounts
  MaxBalance <- LoanBalances
  PriceMoves <- LoanMoves
  MaxLiquidity <- NoHoldingLimit
  MaxFees = 0
  MaxIndex <- NoInterest
  SentinelMayFail = FALSE
  FlashLoanPremiumTotal = 30
  FlashBorrowers = {}
  LoanRequests <- LoanChoices
  MaxNesting = 2
  MaxLoanIndex = 1300
INVARIANT LoanedSiloIsKept
PROPERTY LoansKeepTheBooks
CHECK_DEADLOCK FALSE
