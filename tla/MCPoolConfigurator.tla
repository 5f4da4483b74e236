-------------------------- MODULE MCPoolConfigurator --------------------------
(***************************************************************************)
(* Small instances of PoolConfigurator: which settings admins may change,  *)
(* on the pools of MCLendingPool.                                          *)
(***************************************************************************)
EXTENDS PoolConfigurator, MCLendingPool

Nothing == [r \in Reserves |-> {}]
NothingPerCategory == [c \in Categories |-> {}]

(* Two assets that are collateral and borrowable both, supplied by users only:
   a reserve can be emptied.  A's price may fall far enough for a liquidation. *)
FlagConfig == [r \in Reserves |-> [Plain EXCEPT !.ltv = 60]]
FlagSwitches == [r \in Reserves |->
    IF r = A THEN {"paused", "siloed"}
    ELSE {"active", "paused", "borrowingEnabled", "stableRateBorrowing"}]
FlagAmounts == [r \in Reserves |-> IF r = A THEN {4} ELSE {1}]
FlagBalances == [r \in Reserves |-> IF r = A THEN 8 ELSE 1]
FlagMoves == [s \in Reserves |-> IF s = A THEN {1, 4} ELSE {}]
FlagPrices == [s \in Reserves |-> 4]
NoLiquidity == [r \in Reserves |-> 0]

(* K enters and leaves isolation, with a ceiling of three units; caps are set
   and lifted. *)
CeilingChoices == [r \in Reserves |-> IF r = K THEN {0, 3} ELSE {}]
CeilingLimits == [r \in Reserves |->
    IF r = K THEN {<<"supplyCap", 0>>, <<"supplyCap", 4>>} ELSE {<<"borrowCap", 0>>, <<"borrowCap", 2>>}]
CeilingFlags == [r \in Reserves |-> IF r = B THEN {"borrowableInIsolation"} ELSE {}]

(* A's collateral parameters are retuned, alone or by joining the category of
   B that is retuned too; some of the choices are to be refused.  C is a siloed
   asset outside of the category. *)
RetunedConfig == [r \in Reserves |->
    CASE r = A -> [Plain EXCEPT !.borrowingEnabled = FALSE]
      [] r = B -> [Plain EXCEPT !.eModeCategory = 1, !.stableRateBorrowing = TRUE]
      [] r = C -> [Plain EXCEPT !.siloed = TRUE]]
RetunedCollateral == [r \in Reserves |->
    IF r = A THEN {[ltv |-> 50, liquidationThreshold |-> 80, liquidationBonus |-> 110],
                   [ltv |-> 90, liquidationThreshold |-> 90, liquidationBonus |-> 105],
                   [ltv |-> 94, liquidationThreshold |-> 95, liquidationBonus |-> 110],
                   [ltv |-> 0, liquidationThreshold |-> 0, liquidationBonus |-> 0]}
    ELSE {}]
RetunedCategories == [c \in Categories |->
    {[ltv |-> 91, liquidationThreshold |-> 95, liquidationBonus |-> 102, priceSource |-> NoSource],
     [ltv |-> 95, liquidationThreshold |-> 97, liquidationBonus |-> 108, priceSource |-> NoSource],
     [ltv |-> 85, liquidationThreshold |-> 88, liquidationBonus |-> 103, priceSource |-> NoSource]}]
RetunedAssignments == [r \in Reserves |-> IF r = A THEN {0, 1} ELSE {}]
RetunedPrices == [s \in Reserves |-> IF s = B THEN 47 ELSE 1]
RetunedMoves == [s \in Reserves |-> IF s = B THEN {40, 47} ELSE {}]
RetunedAmounts == [r \in Reserves |-> IF r = A THEN {100} ELSE {1}]
RetunedBalances == [r \in Reserves |-> IF r = A THEN 100 ELSE 0]
RetunedLiquidity == [r \in Reserves |-> IF r = A THEN 0 ELSE 3]

(* K, not isolated yet, may be borrowed by those who supply it. *)
ReentryConfig == [r \in Reserves |-> Plain]
ReentryAmounts == [r \in Reserves |-> IF r = K THEN {1, 2} ELSE {2}]
ReentryBalances == [r \in Reserves |-> 2]
=============================================================================
