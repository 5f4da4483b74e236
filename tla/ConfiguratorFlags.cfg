SPECIFICATION ConfiguredSpec
CONSTANTS
  alice = alice
  bob = bob
  A = A
  B = B
  C = C
  K = K
  Users = {alice, bob}
  Treasury = treasury
  Reserves = {A, B}
  PriceSources <- NoSources
  NoSource = none
  Categories = {}
  MaxUint = 100000
  WAD = 1000
  RAY = 1
  PERCENTAGE_FACTOR = 100
  IsolatedSuppliers = {}
  MaxStableRateBorrowSizePercent = 50
  InitialConfig <- FlagConfig
  InitialCategories <- NoCategories
  InitialPrice <- FlagPrices
  InitialLiquidity <- NoLiquidity
  Forgoing = {}
  Amounts <- FlagAmounts
  MaxBalance <- FlagBalances
  PriceMoves <- FlagMoves
  MaxLiquidity <- NoHoldingLimit
  MaxFees = 0
  MaxIndex <- NoInterest
  SentinelMayFail = FALSE
  Switches <- FlagSwitches
  DebtCeilings <- Nothing
  CollateralSettings <- Nothing
  Assignments <- Nothing
  Limits <- Nothing
  CategorySettings <- NothingPerCategory
SYMMETRY Symmetry
INVARIANTS InactiveReserveIsEmpty SiloedDebtIsAlone
PROPERTIES NoStableDebtWhereClosed PausedReserveIsStill
