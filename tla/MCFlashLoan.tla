----------------------------- MODULE MCFlashLoan -----------------------------
(***************************************************************************)
(* Small instances of FlashLoan.                                           *)
(***************************************************************************)
EXTENDS FlashLoan, MCLendingPool

Entry(r, amount, mode) == [reserve |-> r, amount |-> amount, mode |-> mode]

(* B is lent, to be returned or kept as variable debt, and the siloed C to be
   kept, one of them or both in either order; A is the collateral. *)
LoanEntries == {Entry(B, 10, "none"), Entry(B, 10, "variable"), Entry(C, 10, "variable")}
LoanChoices == {<<e>> : e \in LoanEntries} \cup {<<e, f>> : e \in LoanEntries, f \in LoanEntries}
LoanConfig == [r \in Reserves |->
    CASE r = A -> [Plain EXCEPT !.borrowingEnabled = FALSE]
      [] r = B -> Plain
      [] r = C -> [Plain EXCEPT !.siloed = TRUE]]
LoanMoves == [s \in Reserves |-> IF s = A THEN {1, 2} ELSE {}]
LoanAmounts == [r \in Reserves |-> IF r = A THEN {60} ELSE {10}]
LoanBalances == [r \in Reserves |-> IF r = A THEN 60 ELSE IF r = B THEN 10 ELSE 0]
LoanLiquidity == [r \in Reserves |-> IF r = A THEN 0 ELSE 10]

(* The pool of EModeConfig lends B and C. *)
CategoryEntries == [reserve : {B, C}, amount : {1}, mode : {"none", "variable"}]
CategoryChoices == {<<e>> : e \in CategoryEntries}
=============================================================================
