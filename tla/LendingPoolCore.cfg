SPECIFICATION Spec
CONSTANTS
  alice = alice
  bob = bob
  A = A
  B = B
  C = C
  K = K
  Users = {alice, bob}
  Treasury = treasury
  Reserves = {A, B}
  PriceSources <- NoSources
  NoSource = none
  Categories = {}
  MaxUint = 100000
  WAD = 1000
  RAY = 1
  PERCENTAGE_FACTOR = 100
  IsolatedSuppliers = {}
  MaxStableRateBorrowSizePercent = 50
  InitialConfig <- CoreConfig
  InitialCategories <- NoCategories
  InitialPrice <- CorePrices
  InitialLiquidity <- CoreLiquidity
  Forgoing = {B}
  Amounts <- CoreAmounts
  MaxBalance <- CoreBalances
  PriceMoves <- CoreMoves
  MaxLiquidity <- CoreHoldings
  MaxFees = 1
  MaxIndex <- NoInterest
  SentinelMayFail = TRUE
SYMMETRY Symmetry
INVARIANT ClaimsAreBacked
PROPERTIES HealthyStaysHealthy GraceKeepsEquity NoNewDebtInGrace KeepsTheLedger
