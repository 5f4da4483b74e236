SPECIFICATION Spec
CONSTANTS
  alice = alice
  bob = bob
  A = A
  B = B
  C = C
  K = K
  Users = {alice}
  Treasury = treasury
  Reserves = {A, B}
  PriceSources <- NoSources
  NoSource = none
  Categories = {}
  MaxUint = 100000
  WAD = 1000
  RAY = 3
  PERCENTAGE_FACTOR = 100
  IsolatedSuppliers = {}
  MaxStableRateBorrowSizePercent = 50
  InitialConfig <- CoreConfig
  InitialCategories <- NoCategories
  InitialPrice <- InterestPrices
  InitialLiquidity <- InterestLiquidity
  Forgoing = {}
  Amounts <- InterestAmounts
  MaxBalance <- InterestBalances
  PriceMoves <- InterestMoves
  MaxLiquidity <- InterestHoldings
  MaxFees = 1
  MaxIndex <- InterestIndexes
  SentinelMayFail = FALSE
INVARIANTS TypeOK DebtIsFlagged
