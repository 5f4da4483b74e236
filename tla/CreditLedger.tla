------------------------------ MODULE CreditLedger ------------------------------
(***************************************************************************)
(* What the pool promises to those who trust it with assets: for every     *)
(* asset a ledger of the cash at hand, what every account may claim of it  *)
(* and what every user owes.  Every entry but one has two sides.  A user's *)
(* claims shrink only when he withdraws, gives, gives up or sets them off, *)
(* or when he is liquidated while he owes; only a loan that is paid out    *)
(* makes a debt grow.  Nobody else's books are touched; the treasury,      *)
(* which makes no entries, only gains.                                     *)
(*                                                                         *)
(* Rate modes, bits, eMode, isolation, caps and prices, which decide       *)
(* whether an entry may be made, are not visible here.                     *)
(***************************************************************************)
EXTENDS Integers

CONSTANTS Users, Treasury, Reserves,
          Amounts,            \* per reserve: what may be deposited at once
          InitialLiquidity,   \* per reserve: deposited for the treasury
          Forgoing            \* reserves in which claims may be given up

VARIABLES cash,     \* per reserve
          claims,   \* per reserve and account
          owed      \* per reserve and user

books == <<cash, claims, owed>>

Init ==
    /\ cash = InitialLiquidity
    /\ claims = [r \in Reserves |-> [a \in Users \cup {Treasury} |->
           IF a = Treasury THEN InitialLiquidity[r] ELSE 0]]
    /\ owed = [r \in Reserves |-> [u \in Users |-> 0]]

Deposit(u, r, x) ==
    /\ cash' = [cash EXCEPT ![r] = @ + x]
    /\ claims' = [claims EXCEPT ![r][u] = @ + x]
    /\ UNCHANGED owed

Withdraw(u, r, x) ==
    /\ x <= claims[r][u]
    /\ cash' = [cash EXCEPT ![r] = @ - x]
    /\ claims' = [claims EXCEPT ![r][u] = @ - x]
    /\ UNCHANGED owed

(* The one entry with a single side: the cash stays, and belongs to nobody. *)
Forgo(u, r, x) ==
    /\ r \in Forgoing
    /\ x <= claims[r][u]
    /\ claims' = [claims EXCEPT ![r][u] = @ - x]
    /\ UNCHANGED <<cash, owed>>

Give(u, v, r, x) ==
    /\ u # v
    /\ claims' = [claims EXCEPT ![r][u] = @ - x, ![r][v] = @ + x]
    /\ UNCHANGED <<cash, owed>>

Borrow(u, r, x) ==
    /\ cash' = [cash EXCEPT ![r] = @ - x]
    /\ owed' = [owed EXCEPT ![r][u] = @ + x]
    /\ UNCHANGED claims

Repay(u, r, x) ==
    /\ cash' = [cash EXCEPT ![r] = @ + x]
    /\ owed' = [owed EXCEPT ![r][u] = @ - x]
    /\ UNCHANGED claims

(* A debt is paid with claims of the debtor. *)
SetOff(u, r, x) ==
    /\ x <= claims[r][u]
    /\ owed' = [owed EXCEPT ![r][u] = @ - x]
    /\ claims' = [claims EXCEPT ![r][u] = @ - x]
    /\ UNCHANGED cash

(* l pays some of what u owes of d.  Claims of u on c go to the treasury (a fee)
   and to l, who keeps them or is paid out in cash. *)
Seize(l, u, c, d, paid, seized, fee, kept) ==
    /\ seized + fee <= claims[c][u]
    /\ cash' = [r \in Reserves |->
           cash[r] - (IF r = c /\ ~kept THEN seized ELSE 0) + (IF r = d THEN paid ELSE 0)]
    /\ claims' = [claims EXCEPT ![c] = [a \in Users \cup {Treasury} |->
           claims[c][a] - (IF a = u THEN seized + fee ELSE 0)
                        + (IF a = l /\ kept THEN seized ELSE 0)
                        + (IF a = Treasury THEN fee ELSE 0)]]

Liquidate(l, u, c, d) ==
    /\ owed[d][u] # 0
    /\ \E paid \in 0 .. owed[d][u] :
           /\ owed' = [owed EXCEPT ![d][u] = @ - paid]
           /\ \E seized, fee \in 0 .. claims[c][u], kept \in BOOLEAN :
                  /\ ~kept => seized <= cash[c]
                  /\ Seize(l, u, c, d, paid, seized, fee, kept)

UserEntry(u, r) ==
    \/ \E x \in Amounts[r] : Deposit(u, r, x)
    \/ \E x \in 1 .. cash[r] : Withdraw(u, r, x) \/ Forgo(u, r, x) \/ Borrow(u, r, x)
    \/ \E x \in 1 .. claims[r][u], v \in Users : Give(u, v, r, x)
    \/ \E x \in 1 .. owed[r][u] : Repay(u, r, x) \/ SetOff(u, r, x)

Next ==
    \/ \E u \in Users, r \in Reserves : UserEntry(u, r)
    \/ \E l, u \in Users, c, d \in Reserves : Liquidate(l, u, c, d)

Spec == Init /\ [][Next]_books
=============================================================================
