------------------------------ MODULE FlashLoan ------------------------------
(***************************************************************************)
(* Flash loans (FlashLoanLogic): one transaction of the Pool that hands    *)
(* out underlying, lets the receiver call anything in its callback, and    *)
(* then either takes the underlying back with a premium or leaves it as    *)
(* debt.  The callback is where the operations of LendingPool interleave   *)
(* with a transaction that is half done: it has read the borrower's eMode  *)
(* category and has not validated anything else yet.                       *)
(*                                                                         *)
(* The transactions of a callback are part of the outer one, so a loan     *)
(* that cannot be settled undoes all of them: what is between a loan and   *)
(* its settlement is never observed, and the properties speak of the       *)
(* states with no loan open.  Prices and indexes do not move meanwhile.    *)
(***************************************************************************)
EXTENDS PoolProperties, SequencesExt

CONSTANTS FlashLoanPremiumTotal,  \* basis points; all of it goes to the suppliers
          FlashBorrowers,         \* users with FLASH_BORROWER_ROLE pay no premium
          \* bounds of the model
          LoanRequests,           \* sequences of entries a caller may ask for
          MaxNesting,             \* how many loans may be open at once
          MaxLoanIndex            \* largest income index that premiums may reach

(* An entry of the arrays of Pool.flashLoan: mode "none" returns the underlying. *)
Entries == [reserve : Reserves, amount : Nat, mode : Modes \cup {"none"}]

ASSUME LoanAssumption ==
    /\ LoanRequests \subseteq Seq(Entries) \ {<<>>}
    /\ FlashLoanPremiumTotal \in Nat

VARIABLE loans   \* the open loans, innermost last: borrower, the category read at
                 \* the start, the entries left to settle, whether the callback ended

flashVars == <<vars, loans>>

NoLoan == loans = <<>>

(* A call from outside or from a callback: no loan is being settled. *)
CallsRun == \A i \in DOMAIN loans : ~loans[i].settling

ValidFlashLoan(entries) ==
    \A i \in DOMAIN entries :
        Usable(entries[i].reserve) /\ config[entries[i].reserve].flashLoanEnabled

Released(entries, r) ==
    SumOver(LAMBDA i : entries[i].amount, {i \in DOMAIN entries : entries[i].reserve = r})

Begin(u, entries) ==
    /\ CallsRun
    /\ ValidFlashLoan(entries)
    /\ \A r \in Reserves : Released(entries, r) <= availableLiquidity[r]
    /\ availableLiquidity' =
           [r \in Reserves |-> availableLiquidity[r] - Released(entries, r)]
    /\ loans' = Append(loans, [borrower |-> u, category |-> eMode[u],
                               entries |-> entries, settling |-> FALSE])
    /\ UNCHANGED <<settings, market, scaledBalance, debts, flags, eMode, isolationModeTotalDebt>>

(* Mutant: the premium is not shared among the suppliers. *)
IndexWithPremium(total, premium, index) == index

CumulateToLiquidityIndex(total, premium, index) ==
    RayMul(RayDiv(premium, total) + RAY, index)

TakeBack(u, r, amount) ==
    LET premium == IF u \in FlashBorrowers THEN 0
                   ELSE PercentMul(amount, FlashLoanPremiumTotal)
        total == RayMul(TotalSupplyScaled(r), liquidityIndex[r])
    IN  /\ total # 0
        /\ liquidityIndex' = [liquidityIndex EXCEPT
               ![r] = CumulateToLiquidityIndex(total, premium, @)]
        /\ availableLiquidity' = [availableLiquidity EXCEPT ![r] = @ + amount + premium]
        /\ UNCHANGED <<settings, price, sentinelUp, variableIndex, scaledBalance, debts, flags,
                       eMode, isolationModeTotalDebt>>

(* The callback has returned; the innermost loan's next entry is settled. *)
SettleEntry ==
    /\ ~NoLoan
    /\ LET loan == Last(loans)
           entry == Head(loan.entries)
           rest == [loan EXCEPT !.entries = Tail(@), !.settling = TRUE]
       IN  /\ \/ /\ entry.mode = "none"
                 /\ TakeBack(loan.borrower, entry.reserve, entry.amount)
              \/ /\ entry.mode # "none"
                 /\ BorrowAs(loan.borrower, loan.category, entry.reserve, entry.amount,
                             entry.mode, FALSE)
           /\ loans' = Front(loans) \o (IF rest.entries = <<>> THEN <<>> ELSE <<rest>>)

-----------------------------------------------------------------------------
Calls ==
    \/ \E u \in Users, r \in Reserves : UserStep(u, r)
    \/ \E u \in Users, c \in Categories \cup {0} : SetUserEMode(u, c)
    \/ Liquidate

FlashInit == Init /\ loans = <<>>

FlashNext ==
    \/ /\ Calls
       /\ CallsRun
       /\ UNCHANGED loans
    \/ Environment /\ NoLoan /\ UNCHANGED loans
    \/ /\ Len(loans) < MaxNesting
       /\ \E u \in Users, entries \in LoanRequests : Begin(u, entries)
    \/ SettleEntry /\ \A r \in Reserves : liquidityIndex'[r] <= MaxLoanIndex

FlashSpec == FlashInit /\ [][FlashNext]_flashVars

-----------------------------------------------------------------------------
(* What the holders of RSTokens of r may claim beyond what backs it: the
   underlying, the debts, and what the open loans are to bring back. *)
Uncovered(r) ==
    RayMul(TotalSupplyScaled(r), liquidityIndex[r])
        - (availableLiquidity[r] + TotalScaledDebt(r) + TotalStableDebt(r)
           + SumOver(LAMBDA i : Released(loans[i].entries, r), DOMAIN loans))

(* The premium goes to those who are suppliers when it is paid, whatever the
   callback supplied, withdrew, borrowed or repaid of the very underlying it was
   lent: no step of a loan, of its callback or outside of one makes claims
   without backing, or the reverse but where claims are given up, beyond the unit
   that rounding may cost (variable indexes of one ray). *)
LoansKeepTheBooks ==
    [][\A r \in Reserves :
           /\ Uncovered(r)' - Uncovered(r) <= 1
           /\ r \notin Forgoing => Uncovered(r)' - Uncovered(r) >= -1]_flashVars

(* A loan that opens several debts at once passes each of them through the silo:
   the entries are validated one after the other, none against a stale state. *)
LoanedSiloIsKept == NoLoan => SiloedDebtIsAlone

(* "When in eMode, debt will always be in the same eMode category"
   (LiquidationLogic). *)
LoanedDebtInCategory == NoLoan => EModeDebtInCategory
=============================================================================
