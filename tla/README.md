# RASA lending platform: a TLA+ verification project

This directory holds TLA+ models of the smart contracts under `src/contracts`
(a lending pool in the Aave v3 line), of the scripts that deploy and maintain a
market (`src/deploy`, `src/tasks`), and of the computation by which the test suite
says what a transaction must do; TLC configurations that check them on small
instances; and TLAPS proofs about them for every value of the constants. Paths below are
relative to `src/contracts` unless they start with `src/`.

Contents: [the system](#the-system), [modules](#modules),
[correspondence of state and actions to the code](#correspondence), [runs](#runs),
[bounds](#bounds), [fairness](#fairness), [findings](#findings),
[observations](#observations), [proofs](#proofs), [abstractions](#abstractions),
[what is not modelled](#not-modelled).

## The system

Users supply assets to a pool and receive RSTokens, whose balance grows by an
index; supplied assets may be collateral for loans at a variable or a stable rate;
a position whose health factor is below one may be liquidated by anybody. The
code is stateless libraries over one storage (`PoolStorage`), called by `Pool`;
tokens are contracts of their own that the pool mints, burns and is called back by.

| Component | State | Operations | Hard behaviour | What makes it correct |
|---|---|---|---|---|
| Arithmetic (`libraries/math`) | none | wad, ray and percentage multiplication and division, compounding | every division rounds half up; scaled and unscaled amounts are rounded at different times | unscale and scale again gives back what there was |
| Account data (`GenericLogic`, `UserConfiguration`, `ReserveConfiguration`) | a bitmap per user, a configuration word per reserve | health factor, average LTV and threshold, isolation and siloed state | the bits are a cache of the token balances; most rules are read off the bits | no debt without its bit; isolated collateral alone; siloed debt alone |
| User operations (`SupplyLogic`, `BorrowLogic`, `EModeLogic`) | balances, debts, bits, eMode category, isolated debt | supply, withdraw, RSToken transfer, collateral switch, borrow, repay (underlying or RSTokens, for oneself or another), swap rate mode, set eMode | four operations set collateral bits as a side effect; health is checked after the state has changed, in some operations and not in others | claims are backed; a healthy position is made unhealthy by prices and interest only; debts stay in their category |
| Liquidation (`LiquidationLogic`) | same | liquidationCall, paid out or in RSTokens | two reserves, two users and the treasury in one step; flags are updated in the middle of it | only what is due is taken; counted debts go down with the debts |
| Flash loans (`FlashLoanLogic`) | same, between two halves of a transaction | flashLoan, flashLoanSimple | the receiver's callback may call everything, loans nest, some state is read before it | books stay balanced; no validation is against a stale state |
| Configurator (`PoolConfigurator`) | configurations, eMode categories | one setter per parameter or flag | setters check the state they find; positions opened before them persist | a setter never makes an invariant of the positions false |
| Reserve accounting (`ReserveLogic`, `PoolLogic`, `BridgeLogic`) | indexes, rates, timestamps, treasury accrual, unbacked amounts | update indexes and rates, mint to treasury, mint and back unbacked, cumulate a premium | everything is lazily accrued, at the rates of the last operation | indexes never fall; the treasury's and the suppliers' claims stay backed; settling never reverts |
| Tokens (`tokenization`) | scaled balances, stable principals and rates | mint, burn, transfer | stable loans grow at a rate each, their total at an average rate | the total of the stable loans is never ahead of them; nobody's transaction moves another's balance |
| Interest rate strategies | parameters | rates from totals | divisions by totals that may be zero | rates are defined for all totals and are what the test suite computes |
| Reserves list (`PoolLogic`, `ConfiguratorLogic`) | ids, list with holes | init, drop | ids are reused while user bits persist | a bit never speaks of another asset than it was set for |
| Sentinel, oracle | sequencer status, price sources | isBorrowAllowed, isLiquidationAllowed, getAssetPrice | a grace period after an outage, a fallback oracle | no loans and only urgent liquidations until the period is over |
| Access control, address books | roles, registered providers | grant, register, unregister | removal by swapping with the last entry | both id maps and the list are one directory |
| Rewards (`periphery/rewards`) | indexes per asset and reward, per user accruals | configure, handleAction, claim | accrual hooks run before the balance changes; several rewards per asset | users together never accrue more than was emitted |
| Treasury (`periphery/treasury`) | streams | create, withdraw, cancel | several streams share one balance | a stream pays its deposit, once |
| Rollup calldata (`L2Pool`, `CalldataLogic`) | none | decoding | truncated words | decoding inverts encoding |
| Deployment and tasks (`src/deploy`, `src/tasks`, `src/helpers`) | artifacts and migrations on disk; owners, roles, book of addresses, listed reserves on chain | deploy, add reserves, upgrade RSTokens, transfer ownership | a process that dies between two transactions and is run again on what is there; users who are let in meanwhile | a deployment comes to its end; nothing is opened unsealed or unpriced; no moment without an admin |
| Reference of the test suite (`src/test-suites/helpers/utils/calculations.ts`) | none | expected reserve and user data after each operation | computed apart from the contracts, with roundings of its own | agrees with the contracts |
| Gateways, views, vendored code and mocks | none of their own | | | |

Interactions: tokens are called by the pool (mint, burn, `handleRepayment`) and
call it back on transfers (`finalizeTransfer`); the pool reads the oracle, the
sentinel and the ACL in the middle of validations; the configurator writes
configuration words through `Pool.setConfiguration`; flash-loan receivers run
inside a pool transaction; every token reports balance changes to the rewards
controller. A transaction is atomic and a failed check reverts all of it, so the
concurrency of the contracts is the order of transactions by users, liquidators,
admins, the sequencer and the oracle, and, inside one transaction, the callback of
a flash loan; nothing is retried and no message is lost. A deployment is many
transactions and files on disk: there the process may die between any two steps,
commands are repeated, and users act between them.

`PROJECT.json` lists the hazards that follow from this, each at its line, with the
properties that would catch them.

## Modules

| Module | Models | Extends |
|---|---|---|
| `WadRayMath` | `WadRayMath.sol`, `PercentageMath.sol` | |
| `AccountData` | the pool's storage as VARIABLES, `GenericLogic`, `UserConfiguration`, balances of tokens, validations shared by several operations | `WadRayMath` |
| `LendingPool` | every user operation on positions, liquidation, eMode; prices, sentinel and interest as the environment | `AccountData` |
| `CreditLedger` | what the pool promises of each asset's books: cash, claims and debts, and eight kinds of entry | |
| `PoolProperties` | the properties of positions, and the refinement mapping to `CreditLedger` | `LendingPool` |
| `PoolConfigurator` | the setters, composed with all of `LendingPool` (`ConfiguredSpec`), and the properties about both | `PoolProperties` |
| `FlashLoan` | a flash loan as a begin, a callback of any operations, and a settlement entry by entry, composed with all of `LendingPool` (`FlashSpec`) | `PoolProperties` |
| `InterestRates` | `MathUtils.sol`, `DefaultReserveInterestRateStrategy.sol` | `WadRayMath` |
| `ReserveAccounting` | one reserve over time: `ReserveLogic`, `BridgeLogic`, `mintToTreasury`, and the bookkeeping of RSTokens, variable debt and stable debt by every operation | `InterestRates` |
| `ReserveForecast` | the test suite's own computation of what comes after each operation | `InterestRates` |
| `ReserveScenarios` | the suite's scenarios: each operation of `ReserveAccounting`, compared with an instance of `ReserveForecast` (`ScenarioSpec`) | `ReserveAccounting` |
| `ProviderDirectory` | what the registry of markets promises: a set of pairs of id and provider | |
| `PoolAddressesProviderRegistry` | the registry, two mappings, a list and its indexes; refines `ProviderDirectory` | |
| `Deployment` | the deploy scripts and the operator's tasks, with the chain and the disk they leave behind | |
| `MCLendingPool`, `MCPoolConfigurator`, `MCFlashLoan`, `MCReserveAccounting`, `MCDeployment` | instances for TLC: configurations, prices, amounts, a rate strategy, markets | |
| `Amounts_proofs`, `ReserveAccounting_proofs`, `LendingPool_proofs`, `PoolProperties_proofs`, `PoolConfigurator_proofs`, `FlashLoan_proofs`, `PoolAddressesProviderRegistry_proofs`, `Deployment_proofs` | theorems | the module each is named after (`Amounts_proofs`: `WadRayMath`; `ReserveAccounting_proofs`: `InterestRates` as well, and through `ReserveScenarios`) |

`LendingPool` and `ReserveAccounting` are two views of the same operations. The
first asks whether positions are safe: many reserves and users, prices,
thresholds, flags; indexes move by steps of any kind. The second asks whether the books of one
reserve stay true: rates and time move the indexes as the code does, and what the
first checks before a transaction (collateral, caps, flags) is left out.

Definitions preceded by a comment that begins with "Mutant:" are wrong variants of
the definition after them, one for each property, kept to show that the property
notices such a bug; no specification uses them.

## Correspondence

One action is one transaction. A `require` is a conjunct: an action that is not
enabled is a call that reverts. Where the code validates after it has written (a
withdrawal's health check, say) the conjunct is primed.

| Variable | Code |
|---|---|
| `config`, `categories` | `ReserveData.configuration` as a record of its fields; `_eModeCategories` |
| `scaledBalance`, `scaledDebt`, `stableDebt` | `_userState[..].balance` of RSToken and VariableDebtToken; `StableDebtToken.balanceOf` |
| `availableLiquidity` | underlying held by the RSToken |
| `usingAsCollateral`, `borrowing` | the odd and even bits of `UserConfigurationMap.data` |
| `eMode`, `isolationModeTotalDebt` | `_usersEModeCategory`, `ReserveData.isolationModeTotalDebt` |
| `liquidityIndex`, `variableIndex` | `nextLiquidityIndex` and `nextVariableBorrowIndex` as an operation sees them after `updateState` |
| `price`, `sentinelUp` | `getAssetPrice`; `_isUpAndGracePeriodPassed` |
| `loans` (FlashLoan) | the locals of `executeFlashLoan` that outlive the callback, one record per loan on the call stack |

| Action | Code |
|---|---|
| `Supply`, `SetUserUseReserveAsCollateral` | `executeSupply`, `executeUseReserveAsCollateral` |
| `Withdraw` | `executeWithdraw` with `RSToken.burn`; `forgo` says that the receiver is the RSToken itself, which is paid nothing (`RSToken.sol:105`) |
| `Transfer` | `RSToken.transfer` and `executeFinalizeTransfer` |
| `BorrowAs`, `Borrow` | `executeBorrow` with `validateBorrow`; `Pool.borrow` |
| `Repay`, `RepayWithRSTokens` | `executeRepay`, without and with `useRSTokens` |
| `SwapBorrowRateMode` | `executeSwapBorrowRateMode` |
| `LiquidationCall` | `executeLiquidationCall` and all its parts |
| `SetUserEMode` | `executeSetUserEMode` |
| `Accrue` | `_updateIndexes`: the indexes of a reserve grow, one of them or both, and stable debts with them, each by its own growth |
| `SetPrice`, `SetSentinel` | the outside world |
| `SetFlag`, `SetLimit`, `SetDebtCeiling`, `ConfigureReserveAsCollateral`, `SetEModeCategory`, `SetAssetEModeCategory`, `SetPoolPause` | the setters of `PoolConfigurator` |
| `Begin`, `SettleEntry` | the two halves of `executeFlashLoan` (and, with one entry of mode "none", `executeFlashLoanSimple`) |

In `ReserveAccounting` and `ReserveScenarios`:

| Variable | Code |
|---|---|
| `now` | `block.timestamp` |
| `reserve` | indexes, rates, `lastUpdateTimestamp`, `accruedToTreasury`, `unbacked` of `ReserveData`, and its reserve factor |
| `scaledBalance`, `scaledSupply`, `scaledDebt`, `scaledTotalDebt` | `_userState[..].balance` and `_totalSupply` of RSToken and VariableDebtToken |
| `stableDebt`, `stableTotal` | `_userState`, `_timestamps`; `_totalSupply`, `_avgStableRate`, `_totalSupplyTimestamp` of StableDebtToken |
| `collateral` | the collateral bit of the reserve, which bars stable loans |
| `quoted`, `steps`, `agreed` | history: the factor the rates were set for, transactions made, whether the last one went as forecast |

Every operation is `updateState` (`Updated`), the mints and burns of the tokens and
`updateInterestRates` (`CommitRates`; `Commit` where the rates are set for the liquidity that is
there after the operation), in one step. `Withdraw` has `forgo` here too: the code sets the rates as if
the underlying had been paid out, and it stays. `MintUnbacked` and `BackUnbacked` are
`BridgeLogic`; `MintToTreasury` and `SetReserveFactor` touch the reserve without
updating it, as the code does; `Tick` is time.

In `Deployment` a script or task is a sequence of steps (`MarketsRegistry` ...
`PeripheryPost`, `AddReserves`, `UpgradeRSTokens`, `TransferProtocolOwnership`): each a
transaction, a write to the deployments directory, a check that throws, or a read of the
chain on which the following steps depend (`Following`). `job` is what the running process
has left of it.

| Variable | Code |
|---|---|
| `artifacts`, `migrations` | what hardhat-deploy keeps in `deployments/<network>`: saved contracts, scripts recorded as run because they returned true |
| `initialized` | implementations whose `initialize` is used up |
| `power` | owners of contracts, members of roles, the ACL admin of the provider |
| `book`, `settings`, `listed`, `priced` | ids of the provider; setters called; reserves of the pool with their treasury; sources of the oracle |
| `market`, `config` | the configuration of the market, which the operator may extend (`AddToConfig`) |
| `supplied` | what users do while the process runs |

| Action | Code |
|---|---|
| `DeployContract` ... `ReadChain`, `Finish` | one step of the process each |
| `Abort`, `Crash` | a revert or a throw; the process dies between two steps |
| `DeployAfresh`, `DeployAgain` | `npm run deploy` with `--reset`, and without it |
| `RunAddReserves`, `RunUpgrade`, `RunTransfer` | the tasks `add-reserves`, `upgrade-rstokens`, `transfer-protocol-ownership` with `renounce-pool-admin` |

hardhat-deploy, the operator and the `ReservesSetupHelper` contract, whose source is not in
the repository, are modelled from how the scripts use them.

`PROJECT.json`'s `map` gives the lines of every definition.

A flash loan that cannot be settled reverts, with all its callback did. The model
has no rollback: such a behaviour stops, its states between the loan and the
settlement are never observed by anybody, and the properties of `FlashLoan` speak of
states with no loan open or of single steps. That is why `FlashLoanSettlement`
allows deadlock; `ReserveAccounting` does because its clock and its transactions are
bounded.

## Runs

| Run | Instance | Shows |
|---|---|---|
| `LendingPoolCore` | two users, collateral A and borrowable B with stable rates and a liquidation fee, claims on B that may be given up by withdrawing to the RSToken, three prices of A (healthy; half may be liquidated; all may be and A no longer covers the debt), a sentinel that fails | `ClaimsAreBacked`, `HealthyStaysHealthy`, `GraceKeepsEquity`, `NoNewDebtInGrace`, and the refinement `KeepsTheLedger` |
| `LendingPoolInterest` | one user, indexes from one to five thirds of a ray in thirds | `TypeOK`, `DebtIsFlagged` through scaled mints and burns that round either way |
| `ConfiguratorFlags` | two users, two reserves, six flags and the pool's pause | `InactiveReserveIsEmpty`, `SiloedDebtIsAlone`, `NoStableDebtWhereClosed`, `PausedReserveIsStill` |
| `ConfiguratorCeiling` | two users, one of whom may supply isolated collateral for others; a ceiling of three set and removed, caps set and lifted | `IsolatedCollateralIsAlone`, `IsolatedDebtIsExact`, `GrowthRespectsCaps` |
| `ConfiguratorParameters` | one user, a collateral that joins and leaves the category of a borrowed asset, a siloed asset outside of it, prices that move; four collateral settings and three category settings, some to be refused | `EModeDebtInCategory`, `SiloedDebtIsAlone`, `HealthyInEModeStaysHealthy`, `LoansCoverTheBonus` |
| `FlashLoanSettlement` | one user, two nested loans of up to two entries, premium of 30%, index in thousandths | `LoansKeepTheBooks`, `LoanedSiloIsKept` |
| `ReserveAccounting` | two users, the treasury, a bridge and an admin; up to four transactions over four moments, amounts of 400 and everything, two reserve factors, the repository's strategy for volatile assets with a flatter second slope | `TypeOK`, `AccrualNeverReverts`, `IndexesNeverFall`; `StableTotalIsOwed`; `ClaimsStayBacked`, `OthersAreUntouched`; `ForecastsHold`: the contracts do what the test suite computes |
| `Registry` | three providers, ids 0 to 4 | `LookupsAgree`, `ListIsExact`, and the refinement `IsDirectory` |
| `MarketDeployment` | a live market and two test markets; four reserves first, so that they are listed in two transactions, and one later; a crash anywhere | `SealedBeforeUse`, `OpenIsPriced`, `HandoverIsWhole`, `UpgradeIsWhole`, `AdminsRemain`; `EventuallyDeployed`, `EnabledIsPriced` (liveness) |
| `IsolatedDebtAfterLiquidation`, `IsolationReentered`, `EModeDebtAfterFlashLoan` | see [findings](#findings) | a documented claim is violated |

What a property of `ReserveAccounting` says and why it is not obvious:

- `AccrualNeverReverts`: the treasury's share is a sum less two earlier sums of debts that
  run on different clocks, in unsigned arithmetic. A negative one would revert every
  transaction of the reserve from then on.
- `IndexesNeverFall`: tokens subtract, unsigned, what a balance was worth at its last index.
- `StableTotalIsOwed`: the total runs at an average rate; it may fall behind the
  loans (and then be forgotten by a burn) but never get ahead of them.
- `ClaimsStayBacked`: no step leaves claims (RSTokens and what the treasury may mint) worse backed
  by liquidity, debts and unbacked amounts than before, but for two units of
  rounding, and but for two amounts that have a name and a definition: `Overcharge` (a new reserve
  factor applies to interest already promised) and the growth of `UncountedAt` (claims
  that the rates do not count earn interest that nobody pays).
- `ForecastsHold`: after every transaction the reserve and the user's data are within
  three units of the suite's own computation, wherever that one applies
  ([observations](#observations)).

## Bounds

Each is a guard of `Next` or of one of its actions, or a set of choices: `Amounts`, `MaxBalance` (scaled
balance of a user), `MaxLiquidity`, `MaxFees` (what liquidations have paid to the treasury),
`MaxIndex`, `PriceMoves`; `Forgoing`, the reserves whose suppliers may withdraw to the RSToken;
`MaxNesting` and `MaxLoanIndex` for flash loans; the setters'
choices; `MaxSteps` and `MaxTime` in `ReserveAccounting`; `Ids` of the registry; `MaxCrashes` and
`LaterAssets` in `Deployment`.

`MaxLiquidity` bounds what supplies and repayments bring in. `Forgoing` is `{B}` in `LendingPoolCore`,
whose properties are about the books, and empty in the other runs of the pool, where cash that
nobody claims multiplies the states. The second halves of `InactiveReserveIsEmpty` and
`LoansKeepTheBooks` are about reserves outside of `Forgoing` only, because they are not true inside
([observations](#observations)). The theorems hold for any `Forgoing`.

For positions they are enough because each property
speaks of at most two users (an actor and an affected one, or the two parties of
a transfer or liquidation) and two reserves (collateral and debt; three where a
category or a silo separates two debts), and every interleaving of the operations
on them is explored, to any depth, with balances that can be empty, full and
partly used. The small units (`WAD` 1000, `RAY` 1 or a few, percentages in hundredths) make
the rounding cases of 18 and 27 decimals happen with single-digit amounts. `RAY = 1` means
that indexes stay at one; properties that compare amounts exactly say so. What these bounds
leave out: amounts with more than a few rounding classes, three simultaneous
collaterals, three users.

`ReserveAccounting` needs rates that differ and interest of a few percent between two
transactions, so its ray is 10000 and its wad 250, which keeps intermediate products within
the checker's integers; four transactions are enough for two loans at different rates,
a rebalance or burn, and a settlement, and for a bridge that is backed after the reserve
earned. `Rounding` 2 and `StableDrift` 3 are the tolerances found to suffice, in units of which an
amount has 400. The properties also hold with five transactions over three moments.

Three providers are the least with one in front of the moved entry, one moved and one
removed. Lists of reserves are sent three at a time: four assets make a second transaction, before
which the process may die. One crash per behaviour can hit any step of any
command, including of a command run again after an abort.

## Fairness

Positions, reserves and registry: none. Every operation there is somebody's choice, so the code
justifies no fairness, and their properties are safety properties.

`Deployment!Spec` assumes three things. `WF_vars(Proceed)`: a process that does not die goes
on, and each of its steps ends in a success or an abort. `SF_vars(DeployAfresh(FALSE))`: the
operator, who finds the deployment incomplete and no process running, runs `npm run deploy`
again (it passes `--reset`) as long as none has come to its end. `SF_vars(RunAddReserves)`: he
runs `add-reserves`, the command for it, on a market he has extended. Both are the
repository's own instructions; strong fairness because crashes and other commands disable
them now and then. Nothing is assumed about crashes but that they are finitely many,
and nothing about users: `EventuallyDeployed` has an exception for a user who supplies an asset before its
ceiling is set, which makes the setter revert.

## Findings

Three runs check a claim made by a comment or a test, and TLC finds it violated:

- `IsolatedDebtAfterLiquidation`: a liquidation that takes all of an isolated
  collateral clears the collateral bit (`LiquidationLogic.sol:174`) before
  `updateIsolatedDebtIfIsolated` (187) reads the bits, so the repaid debt stays counted
  against the ceiling with nobody owing it.
- `IsolationReentered`: a debt repaid with all of the user's RSTokens
  (`BorrowLogic.sol:245`) leaves the collateral bit over an empty balance; the asset may
  become isolated then, and when supplied again it is collateral beside another.
- `EModeDebtAfterFlashLoan`: "when in eMode, debt will always be in the same eMode category"
  (`LiquidationLogic.sol:424`) fails when a user changes category in the callback of a flash
  loan whose category was read before it (`Pool.sol:407`).

What these runs violate holds elsewhere because the cause is kept out there:
`ConfiguratorCeiling` has steady prices (no liquidation) and an isolated asset that
nobody borrows, `ConfiguratorParameters` reassigns only an asset that nobody borrows, and
has no flash loans.

## Observations

Met while reading and modelling; no run is about them, or a property names them as its exception.

Contracts:

- Entering eMode checks health only if a category is left (`EModeLogic.sol:61`), against the
  comment above it (32): where the category's price source values the debt higher, or an asset's
  threshold has been raised above its category's, who enters becomes liquidatable. That is why
  `HealthyInEModeStaysHealthy` speaks of users who are in a category already.
- `setAssetEModeCategory` does not ask for borrowers (`PoolConfigurator.sol:388`): reassigning
  a borrowed asset leaves debt outside of the category of those in eMode.
- `executeWithdraw` does not look at its receiver (`SupplyLogic.sol:140`), and `RSToken.burn` pays nothing
  where that is the RSToken itself (`RSToken.sol:105`): the claim is gone and the cash stays, for
  others to borrow. (Sending underlying to the RSToken by a plain transfer has the same effect.)
  Claims are then less than their backing, never more: that is `ClaimsAreBacked`, with equality in
  reserves where it does not happen. It has a consequence for `setReserveActive(false)`, which looks
  at suppliers only (`PoolConfigurator.sol:198`, 470), although its error says "The liquidity of the
  reserve needs to be 0" (`protocol/libraries/helpers/Errors.sol:26`): a reserve without claims
  passes, and the debts in it can no longer be repaid. In the model, with `Forgoing` not empty, five
  transactions suffice: two supplies, one of which is withdrawn to the RSToken, a loan of what stayed,
  and the setter. `InactiveReserveIsEmpty` says no debt of reserves outside of `Forgoing` only.
- A paused reserve still accepts `mintToTreasury` (`PoolLogic.sol:85`, which asks for the active bit only)
  and `backUnbacked` (`BridgeLogic.sol:116`, which asks for none). The first mints what has accrued
  to the treasury, the second brings underlying in and moves the income index and the treasury's
  accrual. `PausedReserveIsStill` is therefore about the operations of users, the only ones
  `ConfiguredSpec` has; these two are actions of `ReserveAccounting`, which has no pause.
- `GenericLogic` truncates the average threshold to a basis point (`GenericLogic.sol:166`): supplying dust
  of a lower threshold, or switching it on as collateral, can cost a position up to a basis point of
  its collateral in health, and neither operation checks health afterwards.
- A new reserve factor applies to the interest since the last update (`PoolConfigurator.sol:240`);
  `Overcharge` is how much that can be.
- The total of the stable loans may be forgotten by a burn while others still owe
  (`StableDebtToken.sol:192`). Claims then exceed the totals that rates are set from, and
  `UncountedAt` is the income they earn although nobody pays it. Where the weight, not the
  amount, is used up, `burn` returns a supply that it has not stored, and the rates are set from
  that one.

Deployment:

- If a process dies between granting the helper contract the risk-admin role and revoking it
  (`src/helpers/init-helpers.ts:327`, 350), the role stays: run again, nothing is left to
  configure, and the revocation is skipped with it.
- `add-reserves` passes `ReserveFactorTreasuryAddress` as it is
  (`src/tasks/misc/add-reserves.ts:20`); a market that has none, whose deployment fell back to
  the treasury proxy, lists its later reserves with the zero address.
- On a test network a later asset gets no price: the script that deploys mock aggregators is
  recorded as run, and `setSources` throws for the missing one
  (`src/deploy/02_market/00_testnet/01_price_aggregators_setup.ts:64`). `EnabledIsPriced` therefore
  speaks of live networks.
- `add-reserves` does not set debt ceilings; `setup-debt-ceiling`
  (`src/tasks/misc/setup-debt-ceiling.ts:21`) throws on test networks whose tokens' addresses are
  not configured, before the pool is unpaused. `EventuallyDeployed` speaks of markets that have
  the addresses.
- `upgrade-rstokens` run again after it died reverts at the first token it had upgraded; its new
  implementation is not initialised.
- `02_market/01_pool_implementation.ts` returns nothing, so it is never recorded as run, and a
  deployment resumed without `--reset` stops at its second `initialize`. (`--reset` is how
  `npm run deploy` resumes.)
- `transfer-protocol-ownership` requires ParaSwap artifacts that no script deploys
  (`SaveForeign`), and does not await some of its transactions.

Reference of the test suite, where it departs from the contracts. The conditions of
`ReserveScenarios` are these, and the suite's stories happen to meet them:

- It takes the reserve factor from the market's configuration, not from the reserve.
- After a deposit, `principalStableDebt` is set to the variable debt; after a variable loan the
  user's debt is computed from the whole reserve's scaled debt; after a variable repayment
  principal and current stable debt are swapped. Compared only for users for whom that
  makes no difference.
- Amounts repaid are not capped by the debt.
- The average rate after a rebalance mixes wad and ray; compared for the sole stable borrower.
- A total that is less than a debt is expected only of repayments, and averages over debts of
  less than half a wad have too few digits to compare.

## Proofs

All for arbitrary finite sets of users and reserves, and arbitrary categories, providers, amounts,
prices, units, rate strategies and times, under the assumptions on constants in the modules that
declare them. They say: units are positive and a ray is a multiple of a wad (`UnitAssumption`,
`StrategyAssumption`); names do not clash (`NamesAssumption`); the initial configuration is one
the configurator accepts, where a listed reserve is active and only a borrowable one has stable
borrowing (`InitialAssumption`, `ListingAssumption`); what admins and users request is in its
type (`AdminAssumption`, `RequestAssumption`, `LoanAssumption`); prices are positive; a
reserve factor is at most one (`AccountingAssumption`); `RegistryAssumption`. TLC evaluates each
of them on every run.

Twelve theorems have the hypothesis `NothingAccrues`: every `MaxIndex[r]` is `RAY`, so no interest
does. They relate amounts of several accounts by equations, which interest makes approximate (an
unscaled sum is not the sum of unscaled amounts), and are about the flows of
principal: which transaction moves what from where. They hold of every run whose `MaxIndex` is
`RAY`, which is where the properties are checked too. All other theorems hold with interest.

### Amounts

`Amounts_proofs` bounds `RayMul`, `RayDiv`, `PercentMul` and `PercentDiv` and proves
`RoundTrip`, `RayDiv(RayMul(s, i), i) = s` for `i >= RAY`: a burn of a whole balance burns all
of the scaled balance. It also has the facts about sums over accounts that everything about totals
needs: changing one account's amount changes the sum by the difference, a sum is at least each of
its parts, it is zero only if all of them are, it is the sum over a part if the rest are zeros
(`SumOfPart`), and it may be taken over other names of the same amounts (`SumReindexed`). `MintRounds` and
`PremiumRounds` bound what a scaled mint and the distribution of a premium lose to rounding. The community modules define sums by a
recursive function, whose existence the proof establishes for finite sets.

### Positions

- `LendingPool_proofs`: `TypeCorrect`, `Spec => []TypeOK`. The inductive invariant is
  `TypeInv == TypeOK /\ Sound`; `Sound` (a collateral has a bonus above 100%, so that divisions by
  a bonus are defined, and users are only in categories that exist) is what makes
  the seized amounts of a liquidation natural numbers. One lemma per action.
- `PoolProperties_proofs`, of the pool under fixed settings:
  - `DebtAlwaysFlagged` needs the round trip: a repayment clears the bit when the
    unscaled debt is paid, and only `RoundTrip` says that the scaled one is gone.
  - `IsolationHolds`, `SiloedHolds`, `EModeHolds` are inductive together with it and the types:
    validations read the bits, so a debt without its bit would slip past the silo and the category.
  - `ClaimsAlwaysBacked` (`NothingAccrues`): claims on a reserve are at most liquidity and debts, and
    equal to them outside of `Forgoing`. `BooksInv` adds that indexes stand at one ray. Every step either moves
    both sides by the same amount or is a withdrawal to the RSToken, which lowers the claims alone
    (`GivesUp`). The hard step is a liquidation: two
    reserves or one, the liquidator's and the treasury's balances, a burn that pays out or a
    transfer, and each reserve stays in balance because each helper moves equal
    amounts on both of its sides.
  - `GraceHolds` (`NothingAccrues`): nobody's debt grows in the grace period, by the same case split.
  - `LedgerHolds` (`NothingAccrues`): the pool implements `CreditLedger`. The mapping is liquidity for `cash`,
    scaled balances for `claims`, and for `owed` the sum of both rate modes (`OwedBook`), so that a swap of
    modes is a stutter; a withdrawal to the RSToken is the entry `Forgo`. The work is in the guards of the entries: that
    a repayment is no more than the debt, and that what a liquidation seizes and its fee are together no more
    than the borrower has (`LiquidationAmountsType`).
  - `IsolatedDebtHolds` (`NothingAccrues`, and `debtUnit` 1): the debt counted against a ceiling is what the
    users isolated in the asset owe, of all assets. `CeilingInv` adds to the types, the bits and
    `IsolatedCollateralIsAlone` that the count is the sum over all users of what each has counted
    (`ExposureCounted`), and that who has no collateral owes nothing (`Covered`). The second is why
    isolation begins and ends without a debt to count or to forget (`IsolationChange`): a last
    bit is cleared under a health check, and a debt without collateral is not healthy
    (`NoCollateralNoHealth`, from the definition of the health factor and the positivity of prices).
    A liquidation that takes the last collateral of a borrower breaks the count, if he is isolated,
    or `Covered`, if he still owes: that is the finding `IsolatedDebtAfterLiquidation`. The
    theorem's hypothesis `LiquidationLeavesCollateral` excludes such liquidations; prices move as they like,
    and every other liquidation is allowed.
- `PoolConfigurator_proofs`, of the pool together with its admins (`ConfiguredSpec`):
  - `ConfiguredDebtFlagged`, and `PauseHolds` (action property: no user's operation moves anything in a paused
    reserve; `Accrue` moves debts and is told apart by its indexes, `AccrualMoves`), with interest.
  - `ConfiguredClaimsBacked`, `InactiveHolds`, `CapsHold` (`NothingAccrues`). `setReserveActive` looks at
    suppliers only; that there are no debts either follows from the books of a reserve outside of `Forgoing`,
    where no claims means nothing owed. `InactiveInv` has both, and an inactive reserve stays empty because
    every operation on it asks for its active bit.
  - `NoStableDebtHolds`: the swap to a stable rate asks for the stable bit only. `StableInv` says that
    where it is on, borrowing is enabled, which the two setters maintain between them.
  - `ConfiguredSiloHolds` (`NothingAccrues`): `setSiloedBorrowing` asks that nothing is owed in total.
    `BitsAreOwed`, the converse of `DebtIsFlagged`, turns this into bits: none is set
    where nothing is owed, so no debt that the new silo would have forbidden is left.
  - `ConfiguredLedgerHolds` (`NothingAccrues`): the refinement again; no setter makes an entry.
  - `ConfiguredEModeHolds`: eMode debt stays in its category while no asset that somebody has borrowed is
    reassigned (`BorrowedAssetsStay`; `setAssetEModeCategory` does not see to it). `ReassignedCollateralIsSafe`
    discharges the hypothesis for admins who reassign only assets that are never opened to borrowing, as
    in the run `ConfiguratorParameters`.
  - `ConfiguredIsolationHolds`: isolated collateral stays alone while ceilings come and go, if nobody uses as
    collateral what nobody has supplied (`UnsuppliedIsUnused`). It is what `setDebtCeiling` takes for granted
    when it looks at the supply (`_checkNoSuppliers`), and what `IsolationReentered` shows to fail.
    `ConfiguredIsolatedDebtHolds` (`NothingAccrues`, `debtUnit` 1): then counts are exact too, as
    an asset that gets a ceiling has nobody to count.
  - `IsolatedCollateralIsSafe` (the same) discharges that hypothesis where only assets that are never opened
    to borrowing may have a ceiling, as in the run `ConfiguratorCeiling`: whoever uses such an asset
    as collateral holds some of it (`HeldBy`), because every step that takes the last of it clears the
    bit, but for a repayment with RSTokens, for which there must be a debt. What remains to be assumed is that no
    liquidator is given the bit of such an asset (`LiquidationAddsNoCollateral`): he may be given it for
    an amount that rounds to nothing.
- `FlashLoan_proofs`, in every state of every nest of loans (`FlashSpec`):
  - `FlashTypeCorrect`, `FlashDebtFlagged`, `FlashIsolationHolds` and `LoanedSiloHolds`. The last is the
    theorem about silos again, now with debts opened one by one after callbacks: each opening is a
    `BorrowAs` that reads the bits of the moment.
  - `LoanBooksHold` (`NothingAccrues`): no step raises what claims exceed their backing by, by more than a
    unit, or lowers it by more, except in `Forgoing`, where claims may be given up.
    `LoanInv` says that debts stand at one ray (`FlatDebts`) while premiums raise the income index, to
    at most two rays (`MaxLoanIndex`). A mint or burn rounds once (`MintRounds`).
    A premium rounds twice, the quotient and the product that becomes the index, each by a fraction of
    a ray per unit supplied: less than a unit in all (`PremiumRounds`) while the supply is below a
    third of a ray (`SmallSupply`). A ray is 10^27 of the smallest units, so that an asset
    of 18 decimals would have to be supplied by the hundreds of millions to void it.

### A reserve over time

All in `ReserveAccounting_proofs`.

- `RatesAreDefined`. Usage ratios never exceed a ray (a rounded quotient of
  a part by its whole), so the second slope is divided by a positive number and
  multiplied by at most one. Its lemmas give the monotonicity of plain and compounded interest in
  time.
- `AccountingTypeCorrect`, `AccrualIsSafe`, `IndexesRiseAlways`. The
  inductive invariant is `Ledger == TypeOK /\ Dated`. That indexes, rates and the treasury's
  share are naturals needs accrued interest to be at least zero; this needs the
  stable total to be no older than the reserve's last update (otherwise it would be
  credited with interest twice and the difference be negative); and the dates keep their order because
  every transaction that dates the stable total settles the reserve in the same step. Most actions
  are then one argument (`Kept`): a step that only touches tokens, or that settles the reserve and ends in
  `CommitRates`, keeps the ledger and raises no index but by interest.
- `TotalsAreSums`: the stored totals are the sums of the accounts' scaled balances. Every action but
  time is one of a few moves of one account and the total, which `StepMoves` names.
- `TransactionsAreOnesOwn`: a transaction moves the balances and debts of one account, unscaled and at one
  time. It needs the totals: settling raises the debt index only if the total debt
  is not zero, and what is nobody's debt is not moved by the index being brought up to date.
- `ScenariosAreBehaviours`: `ScenarioSpec => Spec`, so that the theorems above are about what
  the run checks.

### The registry

`PoolAddressesProviderRegistry_proofs`: `LookupsAlwaysAgree` and `ListAlwaysExact`, inductive only
together: a removal finds its place in the list by the stored index, and may
free an id because the mappings are inverse. From them `RegistryImplementsDirectory`: initial states
map to initial states, and each call to the same call of `ProviderDirectory`.

### Deployment

`Deployment_proofs` proves every safety property of `Deployment`, for any markets, lists of assets
and number of crashes. `DeploymentAssumption` says that the symbols of assets and the artifacts the
operator saves from elsewhere are no ids of the scripts' contracts.

- `StepsInOrder`. A process holds a list of steps, so what it will do is data. `Uses(c, step)` says
  that a step rests on `c`, `Secures(c, step)` that a step brings it about, `Secured(c)` that
  it is the case: an implementation is initialised, a contract saved, an oracle has the first assets'
  sources, the new admin has the role. `OrderInv` says that whatever is not secured is secured by a
  step of `job` before the first that uses it (`InOrder`), that scripts recorded as run, proxies in the
  book and listed reserves have what they rest on, and the shape of the variables this needs. It holds of
  a run wherever earlier ones died: the scripts one after another are in order (`ScriptsInOrder`),
  leaving out recorded ones keeps the order of what is not secured yet (`SkippingInOrder`, `RecordOf`), a
  read is replaced by steps that use no more and secure as much (`FollowingInOrder`), and each
  other step secures what it says and undoes nothing (`AdvanceInOrder`, `StaysWhen`). A step of a form that
  no script has uses `"form"`, which is never secured, so the invariant excludes it.
- `ImplementationsAreSealed` (of the implementations that the deploy scripts put to use; the one of
  `upgrade-rstokens` is never initialised, see [observations](#observations)) and
  `OpenReservesArePriced` follow. `SomeAdminRemains` is an action
  property: a step that revokes or renounces a role of the deployer uses the new admin's, which is then
  secured.
- `UpgradesAreWhole`. `UpgradeInv` adds that a run which has still to end the upgrade is before its
  deployment, before its read, or has a step left for each listed reserve not upgraded yet
  (`Upgrading`), and that reserves are listed of the configuration only, so that the read finds them all.
- `HandoversAreWhole`. `HandoverInv` adds that before a run ends a handover, each power is read or
  taken from the deployer and not given to him after that, or he has none and is given none
  (`LeftClear`). That it stays so afterwards is not a matter of order: whatever would give a power back
  needs one, or deploys a contract that is saved already.
- The lemmas under them: sequences and their concatenation, `FlattenSeq` and `Among`, which are defined by
  recursive functions. That these exist and have their elements is proved by the
  well-foundedness of `<` (`CountingUp`), since the library's induction rule is out of reach.

### Only model-checked

- `HealthyStaysHealthy`, `HealthyInEModeStaysHealthy`, `GraceKeepsEquity`, `LoansCoverTheBonus`: they compare
  truncated quotients of sums of products of amounts and prices. The first two
  hold where a unit's worth exceeds what a truncation loses, as in the instances, and not for all
  constants ([observations](#observations)).
- `ClaimsStayBacked`, `StableTotalIsOwed`: rates and averages are rounded once and then applied to amounts over
  time, so that the tolerances, which were found by checking, depend on the units, the amounts and the times
  of the instance. No constant is enough for all of them.
- `ForecastsHold`, which compares two computations on numbers, to within units.
- `LoanedDebtInCategory`, `IsolatedDebtIsOutstanding` and `IsolatedSupplyIsAlone` are false: they are the
  [findings](#findings). For the same reasons, and one of the [observations](#observations),
  `IsolatedCollateralIsAlone`, `IsolatedDebtIsExact` and `EModeDebtInCategory` are false of `ConfiguredSpec` without
  the hypotheses of their theorems; the runs check them where the causes are kept out.
- What is out of the prover's reach: liveness (`EventuallyDeployed`, `EnabledIsPriced`), `ENABLED`, and
  what a recursive definition computes for all inputs.

## Abstractions

- The unit of every asset is 1 and amounts are whole; prices are per unit.
- `Accrue` of `LendingPool` lets each index of a reserve and each of its stable debts grow by one unit or
  not at all, independently but for this: stable debts grow only in a step in which an index does. Longer
  growth is several steps. What holds of it holds of the code's growth, which is in `ReserveAccounting`.
- In `LendingPool` the reserve factor is 0 and premiums all go to the suppliers: nothing
  accrues to the treasury but liquidation fees. The treasury's share, unbacked claims and
  `rebalanceStableBorrowRate` are in `ReserveAccounting`, which has one reserve, whose users'
  collateral is elsewhere.
- The receiver of a withdrawal is somebody who is paid, or the RSToken of the reserve (`forgo`).
  Underlying sent to an RSToken outside of the pool is left out; to the books it is a supply
  that is given up.
- A passive holder, whom the model counts with the treasury, has supplied to that reserve at the start.
- The borrower is the beneficiary (no credit delegation); the payer of a repayment or a supply
  may be anybody and has what he pays.
- Bits of a configuration are a record; a setter that stores what is there already is a
  stutter.
- Roles: in the pool's models each caller has the role his operation needs, except the one that
  decides about a side effect (`IsolatedSuppliers`) and the one that waives premiums
  (`FlashBorrowers`). `Deployment` has the roles.
- Prices, sequencer status and indexes do not move while a flash loan is open, since it is
  one transaction.
- Only the owner of the registry calls it, with providers that were deployed: the zero
  address, which `registerAddressesProvider` does not refuse, is never passed.
- In `Deployment` a contract is its id, a setter a pair of its kind and its subject; values and
  parameters of constructors are left out but for the treasury, and a transaction that is mined is
  known to the process.

## Not modelled

- Rewards (`periphery/rewards`) and the treasury's streams (`periphery/treasury`): systems beside the
  pool, with books of their own. Their hazards are in `PROJECT.json`; only their deployment is
  modelled.
- Dropping a reserve and the reuse of its id (`PoolLogic.sol:140`). Listing is in `Deployment`.
- The clock of the sentinel's grace period and the oracle's fallback: the sentinel's answer and the
  prices are the environment's.
- Debt ceilings' truncation to two decimals: the instances count whole units.
- Proxies and upgrades beyond `upgrade-rstokens`; changing a rate strategy; the unbacked mint
  cap.
- Rollup calldata, gateways, data providers (stateless decoders, callers and views); permits,
  allowances, credit delegation; event emission; overflow of 256-bit numbers, which amounts of this
  size do not reach.
- Market data and the tasks that print, verify or review one setting at a time.
- Vendored libraries and mocks.
