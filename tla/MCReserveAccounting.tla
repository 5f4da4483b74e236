-------------------------- MODULE MCReserveAccounting --------------------------
(***************************************************************************)
(* A small instance of ReserveAccounting: two users, a clock of quarters,  *)
(* and the strategy of the repository's volatile assets with a flatter     *)
(* second slope.                                                           *)
(***************************************************************************)
EXTENDS ReserveScenarios, TLC

CONSTANTS alice, bob

Symmetry == Permutations(Users)

VolatileStrategy ==
    [optimalUsageRatio |-> 4500, optimalStableToTotalDebtRatio |-> 2000,
     baseVariableBorrowRate |-> 0, variableRateSlope1 |-> 700, variableRateSlope2 |-> 10000,
     baseStableRateOffset |-> 200, stableRateSlope1 |-> 700, stableRateSlope2 |-> 10000,
     stableRateExcessOffset |-> 500]
=============================================================================
