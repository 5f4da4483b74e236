SPECIFICATION ScenarioSpec
CONSTANTS
  alice = alice
  bob = bob
  Users = {alice, bob}
  Treasury = treasury
  MaxUint = 1000000
  WAD = 250
  RAY = 10000
  PERCENTAGE_FACTOR = 100
  SECONDS_PER_YEAR = 4
  Strategy <- VolatileStrategy
  MaxStableRateBorrowSizePercent = 60
  BridgeProtocolFee = 20
  InitialSupply = 1000
  InitialFactor = 10
  Amounts = {400}
  Fees = {30}
  Factors = {10, 60}
  MaxTime = 4
  MaxSteps = 4
  Rounding = 2
  StableDrift = 3
SYMMETRY Symmetry
INVARIANTS TypeOK AccrualNeverReverts StableTotalIsOwed ForecastsHold
PROPERTIES IndexesNeverFall ClaimsStayBacked OthersAreUntouched
CHECK_DEADLOCK FALSE
