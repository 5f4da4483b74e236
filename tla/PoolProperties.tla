---------------------------- MODULE PoolProperties ----------------------------
(***************************************************************************)
(* What LendingPool promises about user positions.                         *)
(***************************************************************************)
EXTENDS LendingPool

(* No operation drives an amount below zero, where the code's unsigned
   subtraction would revert, and an index never falls under one ray. *)
TypeOK ==
    /\ config \in [Reserves -> ReserveConfiguration]
    /\ categories \in [Categories -> EModeCategory]
    /\ price \in [Reserves \cup PriceSources -> Nat \ {0}]
    /\ sentinelUp \in BOOLEAN
    /\ liquidityIndex \in [Reserves -> {i \in Nat : i >= RAY}]
    /\ variableIndex \in [Reserves -> {i \in Nat : i >= RAY}]
    /\ availableLiquidity \in [Reserves -> Nat]
    /\ scaledBalance \in [Reserves -> [Accounts -> Nat]]
    /\ scaledDebt \in [Reserves -> [Users -> Nat]]
    /\ stableDebt \in [Reserves -> [Users -> Nat]]
    /\ usingAsCollateral \in [Users -> SUBSET Reserves]
    /\ borrowing \in [Users -> SUBSET Reserves]
    /\ eMode \in [Users -> Categories \cup {0}]
    /\ isolationModeTotalDebt \in [Reserves -> Nat]

(* No debt escapes the health factor: GenericLogic skips a reserve whose bits
   are clear, so a debt token balance without its borrowing bit would be debt
   that nobody counts and nobody liquidates.  Repayments and liquidations clear
   the bit from unscaled amounts but burn rounded, scaled ones. *)
DebtIsFlagged ==
    \A u \in Users, r \in Reserves :
        scaledDebt[r][u] # 0 \/ stableDebt[r][u] # 0 => r \in borrowing[u]

(* A user of an isolated asset has no other collateral, by whichever of the
   four ways (supply, transfer, switch, liquidation) the bits were set. *)
IsolatedCollateralIsAlone ==
    \A u \in Users : \A r \in usingAsCollateral[u] :
        config[r].debtCeiling # 0 => usingAsCollateral[u] = {r}

(* "Tries to use CGO as collateral" beside RUSD "(revert expected)"
   (isolation-mode.spec.ts): supplied isolated collateral backs no debt together
   with another supplied collateral. *)
IsolatedSupplyIsAlone ==
    \A u \in Users : \A r, other \in usingAsCollateral[u] :
        config[r].debtCeiling # 0 /\ Balance(u, r) # 0 /\ Balance(u, other) # 0 => other = r

(* A user who borrows a siloed asset borrows nothing else. *)
SiloedDebtIsAlone ==
    \A u \in Users : \A r \in borrowing[u] : config[r].siloed => borrowing[u] = {r}

(* A user in eMode borrows only assets of the category: liquidation prices every
   debt of such a user with the category's price source on this assumption. *)
EModeDebtInCategory ==
    \A u \in Users : \A r \in borrowing[u] :
        eMode[u] # 0 => config[r].eModeCategory = eMode[u]

(* What backs the claims of a reserve (variable indexes of one ray). *)
Backing(r) == availableLiquidity[r] + TotalScaledDebt(r) + TotalStableDebt(r)

(* Everything the RSToken holders of a reserve may claim is there: as underlying
   or as debt somebody owes.  And nothing else is there, unless suppliers have given
   claims up.  Stated for indexes that stay at one ray. *)
ClaimsAreBacked ==
    \A r \in Reserves :
        /\ TotalSupplyScaled(r) <= Backing(r)
        /\ r \notin Forgoing => TotalSupplyScaled(r) = Backing(r)

(* The exposure a debt ceiling limits is the exposure there is: the sum of the
   debts of the users isolated in the asset (debtUnit 1, no interest). *)
IsolatedDebtIsExact ==
    \A k \in Reserves :
        config[k].debtCeiling # 0 =>
            isolationModeTotalDebt[k] =
                SumOver(LAMBDA u : SumOver(LAMBDA r : Debt(u, r), Reserves),
                    {u \in Users : usingAsCollateral[u] = {k}})

(* "The outstanding debt borrowed against this asset in isolation mode"
   (DataTypes.ReserveData): what counts against a debt ceiling is debt that
   somebody still owes (debtUnit 1, no interest). *)
IsolatedDebtIsOutstanding ==
    \A k \in Reserves :
        isolationModeTotalDebt[k] <=
            SumOver(LAMBDA r : TotalScaledDebt(r) + TotalStableDebt(r), Reserves)

(* No transaction of anybody, the user included, takes a healthy position below
   the liquidation threshold; only prices and interest do. *)
HealthyStaysHealthy ==
    [][UNCHANGED <<market, settings>> =>
           \A u \in Users : IsHealthy(u, eMode[u]) => IsHealthy(u, eMode[u])']_vars

(* A user of an eMode category is kept healthy by every transaction, the one that
   leaves the category and takes its higher thresholds away included, even when
   admins have made the category worse than the assets' own parameters. *)
HealthyInEModeStaysHealthy ==
    [][UNCHANGED <<market, settings>> =>
           \A u \in Users : eMode[u] # 0 /\ IsHealthy(u, eMode[u])
               => IsHealthy(u, eMode[u])']_vars

(* What the position of u is worth: its collateral less its debts. *)
Equity(u) ==
    LET account == UserAccountData(u, eMode[u])
    IN  account.totalCollateral - account.totalDebt

(* During a sequencer outage and its grace period a position between the close
   factor's threshold and the liquidation threshold is left to its owner: no
   transaction takes anything from what it is worth. *)
GraceKeepsEquity ==
    [][~sentinelUp /\ UNCHANGED <<market, settings>> =>
           \A u \in Users :
               HealthFactor(u, eMode[u]) \in CLOSE_FACTOR_HF_THRESHOLD .. (WAD - 1)
                   => Equity(u)' >= Equity(u)]_vars

(* Nor does anybody's debt grow meanwhile, in either rate mode or from one to
   the other (indexes of one ray). *)
NoNewDebtInGrace ==
    [][~sentinelUp /\ UNCHANGED <<market, settings>> =>
           \A u \in Users, r \in Reserves : Debt(u, r)' <= Debt(u, r)]_vars

(* What every user owes of every asset, in either rate mode. *)
OwedBook == [r \in Reserves |-> [u \in Users |-> scaledDebt[r][u] + stableDebt[r][u]]]

(* In the books of every asset the pool is a ledger of cash, claims and debts, in which
   every operation makes the entry that its name says and no other; a withdrawal whose
   receiver is the RSToken gives claims up (indexes of one ray). *)
Ledger == INSTANCE CreditLedger
    WITH cash <- availableLiquidity, claims <- scaledBalance, owed <- OwedBook

KeepsTheLedger == Ledger!Spec
=============================================================================
