--------------------------- MODULE FlashLoan_proofs ---------------------------
(***************************************************************************)
(* Theorems of FlashLoan: what holds in every state of every nest of       *)
(* loans, whatever the callbacks call, and so when the outermost one is    *)
(* settled; and that no step of any of them makes claims without backing.  *)
(***************************************************************************)
EXTENDS FlashLoan, PoolProperties_proofs

-----------------------------------------------------------------------------
(* Type correctness. *)

Loan == [borrower : Users, category : Categories \cup {0},
         entries : Seq(Entries) \ {<<>>}, settling : BOOLEAN]

FlashInv == TypeInv /\ loans \in Seq(Loan)

LEMMA ReleasedType ==
    ASSUME NEW entries \in Seq(Entries), NEW r \in Reserves
    PROVE  Released(entries, r) \in Nat
  <1> DEFINE S == {i \in DOMAIN entries : entries[i].reserve = r}
             f == [i \in S |-> entries[i].amount]
  <1>1. IsFiniteSet(S)
    <2>1. DOMAIN entries = 1 .. Len(entries) /\ Len(entries) \in Nat
      OBVIOUS
    <2>2. IsFiniteSet(DOMAIN entries)
      BY <2>1, FS_Interval
    <2> QED
      BY <2>2, FS_Subset
  <1>2. f \in [S -> Nat]
    <2>1. \A i \in DOMAIN entries : entries[i] \in Entries
      OBVIOUS
    <2>2. \A i \in DOMAIN entries : entries[i].amount \in Nat
      BY <2>1 DEF Entries
    <2> QED
      BY <2>2
  <1>3. SumFunctionOnSet(f, S) \in Nat
    <2> HIDE DEF f, S
    <2> QED
      BY <1>1, <1>2, SumType
  <1> QED
    BY <1>3 DEF Released, SumOver

(* What the open loans are to bring back of the underlying of r. *)
Out(open, r) == SumOver(LAMBDA i : Released(open[i].entries, r), DOMAIN open)

Due(entry, r) == IF entry.reserve = r THEN entry.amount ELSE 0

LEMMA ReleasedByHead ==
    ASSUME NEW entries \in Seq(Entries), entries # <<>>, NEW r \in Reserves
    PROVE  Released(entries, r) = Released(Tail(entries), r) + Due(Head(entries), r)
  <1> DEFINE rest == Tail(entries)
             n == Len(entries)
             S == {i \in DOMAIN entries : entries[i].reserve = r}
             T == {i \in DOMAIN rest : rest[i].reserve = r}
             f == [i \in S |-> entries[i].amount]
             g == [i \in T |-> rest[i].amount]
             h == [i \in T |-> i + 1]
  <1>1. /\ n \in Nat \ {0} /\ DOMAIN entries = 1 .. n
        /\ rest \in Seq(Entries) /\ DOMAIN rest = 1 .. n - 1
        /\ \A i \in 1 .. n - 1 : rest[i] = entries[i + 1]
        /\ Head(entries) = entries[1]
    OBVIOUS
  <1>2. \A i \in 1 .. n : entries[i] \in Entries /\ entries[i].amount \in Nat
    <2>1. \A i \in 1 .. n : entries[i] \in Entries
      BY <1>1
    <2> QED
      BY <2>1 DEF Entries
  <1>3. IsFiniteSet(S) /\ IsFiniteSet(T)
    <2>1. IsFiniteSet(1 .. n) /\ IsFiniteSet(1 .. n - 1)
      BY <1>1, FS_Interval
    <2>2. S \subseteq 1 .. n /\ T \subseteq 1 .. n - 1
      BY <1>1
    <2> HIDE DEF S, T
    <2> QED
      BY <2>1, <2>2, FS_Subset
  <1>4. S \ {1} = {h[i] : i \in T}
    <2>1. ASSUME NEW j \in S \ {1} PROVE j \in {h[i] : i \in T}
      <3>1. j - 1 \in 1 .. n - 1 /\ j = (j - 1) + 1
        BY <1>1
      <3>2. j - 1 \in T
        BY <1>1, <3>1
      <3>3. h[j - 1] = j
        BY <3>1, <3>2
      <3> QED
        BY <3>2, <3>3
    <2>2. ASSUME NEW i \in T PROVE h[i] \in S \ {1}
      BY <1>1
    <2> QED
      BY <2>1, <2>2
  <1>5. \A i \in T : f[h[i]] = g[i] /\ g[i] \in Nat
    BY <1>1, <1>2
  <1>6. \A i, j \in T : h[i] = h[j] => i = j
    BY <1>1
  <1>7. IsFiniteSet(S \ {1})
    BY <1>3, FS_RemoveElement
  <1>8. SumFunctionOnSet(f, S \ {1}) = SumFunctionOnSet(g, T)
    <2>1. PICK A : A = S \ {1}
      OBVIOUS
    <2>2. /\ IsFiniteSet(A) /\ A = {h[i] : i \in T}
      BY <1>4, <1>7, <2>1
    <2> HIDE DEF S, T, f, g, h
    <2>3. SumFunctionOnSet(f, A) = SumFunctionOnSet(g, T)
      BY ONLY <1>3, <1>5, <1>6, <2>2, SumReindexed
    <2> QED
      BY <2>1, <2>3
  <1>9. SumFunctionOnSet(f, S) = SumFunctionOnSet(f, S \ {1}) + Due(Head(entries), r)
    <2>1. \A i \in S : f[i] \in Nat
      BY <1>1, <1>2
    <2>2. SumFunctionOnSet(f, S \ {1}) \in Nat
      <3> HIDE DEF S, f
      <3> QED
        BY <1>7, <2>1, SumType
    <2>3. CASE 1 \in S
      <3>1. SumFunctionOnSet(f, S) = f[1] + SumFunctionOnSet(f, S \ {1})
        <4> HIDE DEF S, f
        <4> QED
          BY <1>3, <2>1, <2>3, SumRemove
      <3>2. f[1] = Due(Head(entries), r) /\ f[1] \in Nat
        BY <1>1, <1>2, <2>3 DEF Due
      <3> HIDE DEF S, f
      <3> QED
        BY <2>2, <3>1, <3>2
    <2>4. CASE 1 \notin S
      <3>1. S \ {1} = S /\ Due(Head(entries), r) = 0
        BY <1>1, <2>4 DEF Due
      <3>2. SumFunctionOnSet(f, S \ {1}) = SumFunctionOnSet(f, S)
        <4> HIDE DEF S, f
        <4> QED
          BY <3>1
      <3> HIDE DEF S, f
      <3> QED
        BY <2>2, <3>1, <3>2
    <2> QED
      BY <2>3, <2>4
  <1> QED
    BY <1>8, <1>9 DEF Released, SumOver

LEMMA OutAs ==
    ASSUME NEW open \in Seq(Loan), NEW r \in Reserves
    PROVE  \E f : /\ f \in [1 .. Len(open) -> Nat]
                  /\ \A i \in 1 .. Len(open) : f[i] = Released(open[i].entries, r)
                  /\ Out(open, r) = SumFunctionOnSet(f, 1 .. Len(open))
  <1> DEFINE f == [i \in DOMAIN open |-> Released(open[i].entries, r)]
  <1>1. DOMAIN open = 1 .. Len(open)
    OBVIOUS
  <1>2. ASSUME NEW i \in 1 .. Len(open) PROVE Released(open[i].entries, r) \in Nat
    <2>1. open[i] \in Loan
      BY <1>1
    <2> QED
      BY <2>1, ReleasedType DEF Loan
  <1>3. f \in [1 .. Len(open) -> Nat]
    BY <1>1, <1>2
  <1>4. Out(open, r) = SumFunctionOnSet(f, 1 .. Len(open))
    BY <1>1 DEF Out, SumOver
  <1> QED
    BY <1>1, <1>3, <1>4

LEMMA OutType ==
    ASSUME NEW open \in Seq(Loan), NEW r \in Reserves
    PROVE  Out(open, r) \in Nat
  <1>1. PICK f : /\ f \in [1 .. Len(open) -> Nat]
                 /\ Out(open, r) = SumFunctionOnSet(f, 1 .. Len(open))
    BY OutAs
  <1>2. IsFiniteSet(1 .. Len(open))
    BY FS_Interval
  <1> QED
    BY <1>1, <1>2, SumType

LEMMA OutOfOneMore ==
    ASSUME NEW open \in Seq(Loan), NEW loan \in Loan, NEW r \in Reserves
    PROVE  /\ Out(Append(open, loan), r) = Out(open, r) + Released(loan.entries, r)
           /\ Out(open, r) \in Nat /\ Released(loan.entries, r) \in Nat
  <1>1. PICK n \in Nat : n = Len(open)
    OBVIOUS
  <1>2. PICK more : more = Append(open, loan)
    OBVIOUS
  <1>3. /\ more \in Seq(Loan) /\ Len(more) = n + 1 /\ more[n + 1] = loan
        /\ \A i \in 1 .. n : more[i] = open[i]
    BY <1>1, <1>2
  <1>4. PICK f : /\ f \in [1 .. n -> Nat]
                 /\ \A i \in 1 .. n : f[i] = Released(open[i].entries, r)
                 /\ Out(open, r) = SumFunctionOnSet(f, 1 .. n)
    BY <1>1, OutAs
  <1>5. PICK g : /\ g \in [1 .. n + 1 -> Nat]
                 /\ \A i \in 1 .. n + 1 : g[i] = Released(more[i].entries, r)
                 /\ Out(more, r) = SumFunctionOnSet(g, 1 .. n + 1)
    BY <1>3, OutAs
  <1>6. IsFiniteSet(1 .. n) /\ IsFiniteSet(1 .. n + 1)
    BY FS_Interval
  <1>7. n + 1 \in 1 .. n + 1 /\ (1 .. n + 1) \ {n + 1} = 1 .. n
    OBVIOUS
  <1>8. \A i \in 1 .. n : f[i] = g[i]
    BY <1>3, <1>4, <1>5
  <1>9. SumFunctionOnSet(f, 1 .. n) = SumFunctionOnSet(g, 1 .. n)
    BY <1>6, <1>8, SumCongruence
  <1>10. SumFunctionOnSet(g, 1 .. n + 1) = g[n + 1] + SumFunctionOnSet(g, 1 .. n)
    BY <1>5, <1>6, <1>7, SumRemove
  <1>11. SumFunctionOnSet(f, 1 .. n) \in Nat
    BY <1>4, <1>6, SumType
  <1>12. g[n + 1] = Released(loan.entries, r) /\ g[n + 1] \in Nat
    BY <1>3, <1>5, <1>7
  <1> QED
    BY <1>2, <1>4, <1>5, <1>9, <1>10, <1>11, <1>12

LEMMA ReleasedByNothing ==
    ASSUME NEW r
    PROVE  Released(<<>>, r) = 0
  <1>1. {i \in DOMAIN <<>> : <<>>[i].reserve = r} = {}
    OBVIOUS
  <1> QED
    BY <1>1, SumEmpty DEF Released, SumOver

LEMMA BeginType ==
    ASSUME FlashInv, NEW u \in Users, NEW entries \in LoanRequests, Begin(u, entries)
    PROVE  FlashInv'
  <1>1. entries \in Seq(Entries) \ {<<>>}
    BY LoanAssumption
  <1>2. /\ availableLiquidity \in [Reserves -> Nat] /\ eMode[u] \in Categories \cup {0}
    BY DEF FlashInv, TypeInv, TypeOK
  <1>3. availableLiquidity' \in [Reserves -> Nat]
    <2>1. ASSUME NEW r \in Reserves
          PROVE  availableLiquidity[r] - Released(entries, r) \in Nat
      <3>1. Released(entries, r) \in Nat /\ availableLiquidity[r] \in Nat
        BY <1>1, <1>2, ReleasedType
      <3>2. Released(entries, r) <= availableLiquidity[r]
        BY DEF Begin
      <3> QED
        BY <3>1, <3>2
    <2> QED
      BY <2>1 DEF Begin
  <1>4. loans' \in Seq(Loan)
    <2>1. PICK loan : loan = [borrower |-> u, category |-> eMode[u], entries |-> entries,
                              settling |-> FALSE]
      OBVIOUS
    <2>2. loan \in Loan
      BY <1>1, <1>2, <2>1 DEF Loan
    <2>3. loans' = Append(loans, loan)
      BY <2>1 DEF Begin
    <2> QED
      BY <2>2, <2>3 DEF FlashInv
  <1>5. TypeInv'
    BY <1>3 DEF Begin, FlashInv, TypeInv, TypeOK, Sound, settings, market, debts, flags
  <1> QED
    BY <1>4, <1>5 DEF FlashInv

(* A premium makes the income index grow. *)
LEMMA TakeBackType ==
    ASSUME TypeInv, NEW u \in Users, NEW r \in Reserves, NEW amount \in Nat,
           TakeBack(u, r, amount)
    PROVE  TypeInv'
  <1>1. /\ liquidityIndex \in [Reserves -> {i \in Nat : i >= RAY}]
        /\ availableLiquidity \in [Reserves -> Nat] /\ TypeOK /\ RAY \in Nat
    BY UnitAssumption DEF TypeInv, TypeOK
  <1>2. PICK premium : premium = IF u \in FlashBorrowers THEN 0
                                 ELSE PercentMul(amount, FlashLoanPremiumTotal)
    OBVIOUS
  <1>3. PICK total : total = RayMul(TotalSupplyScaled(r), liquidityIndex[r])
    OBVIOUS
  <1>4. premium \in Nat
    BY <1>2, LoanAssumption, PercentMulType
  <1>5. total \in Nat \ {0}
    <2>1. TotalSupplyScaled(r) \in Nat /\ liquidityIndex[r] \in Nat
      BY <1>1, Totals
    <2>2. total # 0
      BY <1>3 DEF TakeBack
    <2> QED
      BY <1>3, <2>1, <2>2, RayMulType
  <1>6. PICK index : index = CumulateToLiquidityIndex(total, premium, liquidityIndex[r])
    OBVIOUS
  <1>7. index \in {i \in Nat : i >= RAY}
    <2>1. RayDiv(premium, total) + RAY \in Nat /\ RayDiv(premium, total) + RAY >= RAY
      BY <1>1, <1>4, <1>5, RayDivType
    <2>2. liquidityIndex[r] \in Nat /\ liquidityIndex[r] >= RAY
      BY <1>1
    <2>3. index \in Nat /\ index >= liquidityIndex[r]
      BY <1>6, <2>1, <2>2, RayMulGrows DEF CumulateToLiquidityIndex
    <2> QED
      BY <1>1, <2>2, <2>3
  <1>8. /\ liquidityIndex' = [liquidityIndex EXCEPT ![r] = index]
        /\ availableLiquidity' = [availableLiquidity EXCEPT ![r] = @ + amount + premium]
        /\ UNCHANGED <<settings, price, sentinelUp, variableIndex, scaledBalance, debts, flags,
                       eMode, isolationModeTotalDebt>>
    BY <1>2, <1>3, <1>6 DEF TakeBack
  <1>9. liquidityIndex' \in [Reserves -> {i \in Nat : i >= RAY}]
    BY <1>1, <1>7, <1>8
  <1>10. availableLiquidity' \in [Reserves -> Nat]
    BY <1>1, <1>4, <1>8
  <1> QED
    BY <1>8, <1>9, <1>10 DEF TypeInv, TypeOK, Sound, settings, debts, flags

(* What a step of a settlement is: an entry is returned, or becomes a debt that
   is validated like any other but for the category it is validated in. *)
Settlement(u, c, entry) ==
    \/ /\ entry.mode = "none"
       /\ TakeBack(u, entry.reserve, entry.amount)
    \/ /\ entry.mode # "none"
       /\ BorrowAs(u, c, entry.reserve, entry.amount, entry.mode, FALSE)

LEMMA Settled ==
    ASSUME FlashInv, SettleEntry
    PROVE  /\ loans' \in Seq(Loan)
           /\ \E u \in Users, c \in Categories \cup {0}, entry \in Entries :
                  /\ Settlement(u, c, entry)
                  /\ \A r \in Reserves : Out(loans, r) = Out(loans', r) + Due(entry, r)
  <1>1. loans \in Seq(Loan) /\ loans # <<>>
    BY DEF FlashInv, SettleEntry, NoLoan
  <1>2. PICK loan : loan = Last(loans)
    OBVIOUS
  <1>3. loan \in Loan
    BY <1>1, <1>2 DEF Last
  <1>4. PICK entry : entry = Head(loan.entries)
    OBVIOUS
  <1>5. entry \in Entries
    <2>1. loan.entries \in Seq(Entries) /\ loan.entries # <<>>
      BY <1>3 DEF Loan
    <2> QED
      BY <1>4, <2>1
  <1>6. PICK rest : rest = [loan EXCEPT !.entries = Tail(@), !.settling = TRUE]
    OBVIOUS
  <1>7. /\ Settlement(loan.borrower, loan.category, entry)
        /\ loans' = Front(loans) \o (IF rest.entries = <<>> THEN <<>> ELSE <<rest>>)
    BY <1>2, <1>4, <1>6 DEF SettleEntry, Settlement
  <1>8. rest.entries # <<>> => rest \in Loan
    <2>1. Tail(loan.entries) \in Seq(Entries)
      BY <1>3 DEF Loan
    <2> QED
      BY <1>3, <1>6, <2>1 DEF Loan
  <1>9. Front(loans) \in Seq(Loan)
    BY <1>1 DEF Front
  <1>10. loans' \in Seq(Loan)
    BY <1>7, <1>8, <1>9
  <1>11. loan.borrower \in Users /\ loan.category \in Categories \cup {0}
    BY <1>3 DEF Loan
  <1>12. ASSUME NEW r \in Reserves
         PROVE  Out(loans, r) = Out(loans', r) + Due(entry, r)
    <2>1. loans = Append(Front(loans), loan)
      BY <1>1, <1>2 DEF Front, Last
    <2>2. loan.entries \in Seq(Entries) /\ loan.entries # <<>>
      BY <1>3 DEF Loan
    <2>3. Released(loan.entries, r) = Released(Tail(loan.entries), r) + Due(entry, r)
      BY <1>4, <2>2, ReleasedByHead
    <2>4. rest.entries = Tail(loan.entries)
      BY <1>3, <1>6 DEF Loan
    <2>5. /\ Out(loans, r) = Out(Front(loans), r) + Released(loan.entries, r)
          /\ Out(Front(loans), r) \in Nat
      BY <1>3, <1>9, <2>1, OutOfOneMore
    <2>6. Due(entry, r) \in Nat
      BY <1>5 DEF Due, Entries
    <2>7. CASE rest.entries = <<>>
      <3>1. loans' = Front(loans)
        BY <1>7, <1>9, <2>7
      <3>2. Released(Tail(loan.entries), r) = 0
        BY <2>4, <2>7, ReleasedByNothing
      <3> QED
        BY <2>3, <2>5, <2>6, <3>1, <3>2
    <2>8. CASE rest.entries # <<>>
      <3>1. loans' = Append(Front(loans), rest)
        BY <1>7, <1>9, <2>8
      <3>2. /\ Out(loans', r) = Out(Front(loans), r) + Released(Tail(loan.entries), r)
            /\ Released(Tail(loan.entries), r) \in Nat
        BY <1>8, <1>9, <2>4, <2>8, <3>1, OutOfOneMore
      <3> QED
        BY <2>3, <2>5, <2>6, <3>2
    <2> QED
      BY <2>7, <2>8
  <1> QED
    BY <1>5, <1>7, <1>10, <1>11, <1>12

LEMMA SettleType ==
    ASSUME FlashInv, SettleEntry
    PROVE  FlashInv'
  <1>1. PICK u \in Users, c \in Categories \cup {0}, entry \in Entries : Settlement(u, c, entry)
    BY Settled
  <1>2. entry.reserve \in Reserves /\ entry.amount \in Nat
    BY DEF Entries
  <1>3. TypeInv'
    BY <1>1, <1>2, TakeBackType, BorrowType DEF Settlement, FlashInv
  <1> QED
    BY <1>3, Settled DEF FlashInv

LEMMA CallsAreSteps == Calls => Next
  BY DEF Calls, Next

LEMMA EnvironmentIsStep == Environment => Next
  BY DEF Next

LEMMA FlashStepType == FlashInv /\ [FlashNext]_flashVars => FlashInv'
  <1> SUFFICES ASSUME FlashInv, [FlashNext]_flashVars PROVE FlashInv'
    OBVIOUS
  <1>1. CASE [Next]_vars /\ UNCHANGED loans
    BY <1>1, StepType DEF FlashInv
  <1>2. CASE \E u \in Users, entries \in LoanRequests : Begin(u, entries)
    BY <1>2, BeginType
  <1>3. CASE SettleEntry
    BY <1>3, SettleType
  <1> QED
    BY <1>1, <1>2, <1>3, CallsAreSteps, EnvironmentIsStep DEF FlashNext, flashVars

LEMMA FlashTypes == FlashSpec => []FlashInv
  <1>1. FlashInit => FlashInv
    BY InitType DEF FlashInit, FlashInv
  <1> QED
    BY <1>1, FlashStepType, PTL DEF FlashSpec

(***************************************************************************)
(* Between a loan and its settlement too no amount goes below zero and no  *)
(* index below one ray: a settlement finds what it takes, whatever the     *)
(* callback did meanwhile.                                                 *)
(***************************************************************************)
THEOREM FlashTypeCorrect == FlashSpec => []TypeOK
  <1>1. FlashInv => TypeOK
    BY DEF FlashInv, TypeInv
  <1> QED
    BY <1>1, FlashTypes, PTL

-----------------------------------------------------------------------------
(* The bits of the debts that loans leave. *)

LEMMA FlashSettings ==
    ASSUME [FlashNext]_flashVars
    PROVE  UNCHANGED settings
  <1>1. CASE [Next]_vars
    BY <1>1, FixedSettings
  <1>2. CASE \E u \in Users, entries \in LoanRequests : Begin(u, entries)
    BY <1>2 DEF Begin
  <1>3. CASE SettleEntry
    BY <1>3 DEF SettleEntry, TakeBack, BorrowAs
  <1> QED
    BY <1>1, <1>2, <1>3, CallsAreSteps, EnvironmentIsStep, SMTT(30) DEF FlashNext, flashVars

LEMMA FlashFlags ==
    ASSUME FlashInv, DebtIsFlagged, [FlashNext]_flashVars
    PROVE  DebtIsFlagged'
  <1>1. FlagInv
    BY DEF FlashInv, FlagInv
  <1>2. CASE [Next]_vars
    BY <1>1, <1>2, StepFlags
  <1>3. CASE UNCHANGED <<debts, flags>>
    BY <1>1, <1>3 DEF FlagInv, DebtIsFlagged, debts, flags
  <1>4. CASE \E u \in Users, entries \in LoanRequests : Begin(u, entries)
    BY <1>3, <1>4 DEF Begin
  <1>5. CASE SettleEntry
    <2>1. PICK u \in Users, c \in Categories \cup {0}, entry \in Entries : Settlement(u, c, entry)
      BY <1>5, Settled
    <2>2. entry.reserve \in Reserves /\ entry.amount \in Nat
      BY DEF Entries
    <2>3. CASE TakeBack(u, entry.reserve, entry.amount)
      BY <1>3, <2>3 DEF TakeBack
    <2>4. CASE BorrowAs(u, c, entry.reserve, entry.amount, entry.mode, FALSE)
      BY <1>1, <2>2, <2>4, BorrowFlags
    <2> QED
      BY <2>1, <2>3, <2>4 DEF Settlement
  <1> QED
    BY <1>2, <1>4, <1>5, CallsAreSteps, EnvironmentIsStep DEF FlashNext, flashVars

LEMMA FlashSilo ==
    ASSUME FlashInv, SiloedDebtIsAlone, [FlashNext]_flashVars
    PROVE  SiloedDebtIsAlone'
  <1>1. TypeOK /\ config' = config
    BY FlashSettings DEF FlashInv, TypeInv, settings
  <1>2. CASE [Next]_vars
    BY <1>1, <1>2, SiloOfNext
  <1>3. CASE UNCHANGED flags
    BY <1>1, <1>3 DEF SiloedDebtIsAlone, flags
  <1>4. CASE \E u \in Users, entries \in LoanRequests : Begin(u, entries)
    BY <1>3, <1>4 DEF Begin
  <1>5. CASE SettleEntry
    <2>1. PICK u \in Users, c \in Categories \cup {0}, entry \in Entries : Settlement(u, c, entry)
      BY <1>5, Settled
    <2>2. CASE TakeBack(u, entry.reserve, entry.amount)
      BY <1>3, <2>2 DEF TakeBack
    <2>3. CASE BorrowAs(u, c, entry.reserve, entry.amount, entry.mode, FALSE)
      <3>1. borrowing \in [Users -> SUBSET Reserves] /\ entry.reserve \in Reserves
        BY <1>1 DEF TypeOK, Entries
      <3>2. \A v \in Users : SiloStep(v)
        BY <2>3, <3>1 DEF BorrowAs, ValidBorrow, SiloStep
      <3> QED
        BY <1>1, <3>2, SiloSteps
    <2> QED
      BY <2>1, <2>2, <2>3 DEF Settlement
  <1> QED
    BY <1>2, <1>4, <1>5, CallsAreSteps, EnvironmentIsStep DEF FlashNext, flashVars

(***************************************************************************)
(* A debt that a flash loan leaves is seen by the health factor like any   *)
(* other, also when the callback repaid or was liquidated in the same      *)
(* asset.                                                                  *)
(***************************************************************************)
THEOREM FlashDebtFlagged == FlashSpec => []DebtIsFlagged
  <1>1. FlashInit => FlashInv /\ DebtIsFlagged
    BY InitType DEF FlashInit, Init, FlashInv, DebtIsFlagged
  <1>2. FlashInv /\ DebtIsFlagged /\ [FlashNext]_flashVars => FlashInv' /\ DebtIsFlagged'
    BY FlashStepType, FlashFlags
  <1> QED
    BY <1>1, <1>2, PTL DEF FlashSpec

(***************************************************************************)
(* A loan that opens several debts at once passes each of them through the *)
(* silo, against what its callback and the nested loans have borrowed by   *)
(* then: in every state, so when no loan is open, siloed debt is alone.    *)
(***************************************************************************)
THEOREM LoanedSiloHolds == FlashSpec => []LoanedSiloIsKept
  <1>1. FlashInit => FlashInv /\ SiloedDebtIsAlone
    BY InitType DEF FlashInit, Init, FlashInv, SiloedDebtIsAlone
  <1>2. FlashInv /\ SiloedDebtIsAlone /\ [FlashNext]_flashVars => FlashInv' /\ SiloedDebtIsAlone'
    BY FlashStepType, FlashSilo
  <1>3. SiloedDebtIsAlone => LoanedSiloIsKept
    BY DEF LoanedSiloIsKept
  <1> QED
    BY <1>1, <1>2, <1>3, PTL DEF FlashSpec

-----------------------------------------------------------------------------
(* What a loan leaves of the collateral bits. *)

LEMMA FlashCollateral ==
    ASSUME FlashInv, IsolatedCollateralIsAlone, [FlashNext]_flashVars
    PROVE  IsolatedCollateralIsAlone'
  <1>1. CollateralInv /\ config' = config
    BY FlashSettings DEF FlashInv, CollateralInv, settings
  <1>2. CASE [Next]_vars
    BY <1>1, <1>2, StepCollateral
  <1>3. CASE UNCHANGED usingAsCollateral
    BY <1>1, <1>3 DEF IsolatedCollateralIsAlone
  <1>4. CASE \E u \in Users, entries \in LoanRequests : Begin(u, entries)
    BY <1>3, <1>4 DEF Begin, flags
  <1>5. CASE SettleEntry
    <2>1. UNCHANGED usingAsCollateral
      BY <1>5 DEF SettleEntry, TakeBack, BorrowAs, flags
    <2> QED
      BY <1>3, <2>1
  <1> QED
    BY <1>2, <1>4, <1>5, CallsAreSteps, EnvironmentIsStep DEF FlashNext, flashVars

(***************************************************************************)
(* Isolated collateral is alone also inside a flash loan: the callback may *)
(* supply, transfer, switch and liquidate what the loan handed out, and    *)
(* nest loans, and no order of that sets a second bit beside it.           *)
(***************************************************************************)
THEOREM FlashIsolationHolds == FlashSpec => []IsolatedCollateralIsAlone
  <1>1. FlashInit => FlashInv /\ IsolatedCollateralIsAlone
    BY InitType DEF FlashInit, Init, FlashInv, IsolatedCollateralIsAlone
  <1>2. FlashInv /\ IsolatedCollateralIsAlone /\ [FlashNext]_flashVars =>
            FlashInv' /\ IsolatedCollateralIsAlone'
    BY FlashStepType, FlashCollateral
  <1> QED
    BY <1>1, <1>2, PTL DEF FlashSpec

-----------------------------------------------------------------------------
(* What a step does to the claims and to what backs them. *)

(* Every operation but a payment of interest, which is never due, leaves the
   variable indexes at one ray. *)
LoanInv ==
    /\ FlashInv
    /\ FlatDebts
    /\ \A r \in Reserves : liquidityIndex[r] <= 2 * RAY

LEMMA CallsKeepIndexes ==
    ASSUME Calls
    PROVE  UNCHANGED <<liquidityIndex, variableIndex>>
  <1>1. CASE \E u \in Users, r \in Reserves : UserStep(u, r)
    BY <1>1 DEF UserStep, Supply, Withdraw, Transfer, SetUserUseReserveAsCollateral, Borrow,
                BorrowAs, Repay, RepayWithRSTokens, SwapBorrowRateMode, market
  <1>2. CASE \E u \in Users, c \in Categories \cup {0} : SetUserEMode(u, c)
    BY <1>2 DEF SetUserEMode, market
  <1>3. CASE Liquidate
    BY <1>3 DEF Liquidate, LiquidationCall, market
  <1> QED
    BY <1>1, <1>2, <1>3 DEF Calls

LEMMA NoInterestDue ==
    ASSUME NothingAccrues, TypeOK, FlatDebts, Environment
    PROVE  UNCHANGED <<positions, liquidityIndex, variableIndex>>
  <1>1. \A r \in Reserves : /\ variableIndex[r] = RAY /\ MaxIndex[r] = RAY
                            /\ liquidityIndex[r] \in Nat /\ liquidityIndex[r] >= RAY
    BY DEF NothingAccrues, FlatDebts, TypeOK
  <1>2. ~ \E r \in Reserves, earned, charged \in {0, 1}, growth \in [Users -> {0, 1}] :
            Accrue(r, earned, charged, growth)
    <2>1. RAY \in Nat
      BY UnitAssumption
    <2> QED
      BY <1>1, <2>1 DEF Accrue
  <1> QED
    BY <1>2 DEF Environment, SetPrice, SetSentinel

LEMMA LoanStepType ==
    ASSUME NothingAccrues, MaxLoanIndex \in 0 .. 2 * RAY, LoanInv, [FlashNext]_flashVars
    PROVE  LoanInv'
  <1>1. FlashInv'
    BY FlashStepType DEF LoanInv
  <1>2. CASE UNCHANGED <<liquidityIndex, variableIndex>>
    BY <1>1, <1>2 DEF LoanInv, FlatDebts
  <1>3. CASE Calls
    BY <1>2, <1>3, CallsKeepIndexes
  <1>4. CASE Environment
    BY <1>2, <1>4, NoInterestDue DEF LoanInv, FlashInv, TypeInv
  <1>5. CASE \E u \in Users, entries \in LoanRequests : Begin(u, entries)
    BY <1>2, <1>5 DEF Begin, market
  <1>6. CASE SettleEntry /\ \A r \in Reserves : liquidityIndex'[r] <= MaxLoanIndex
    <2>1. variableIndex' = variableIndex
      BY <1>6 DEF SettleEntry, TakeBack, BorrowAs, market
    <2>2. /\ liquidityIndex' \in [Reserves -> Nat] /\ RAY \in Nat
      BY <1>1, UnitAssumption DEF FlashInv, TypeInv, TypeOK
    <2>3. \A r \in Reserves : liquidityIndex'[r] <= 2 * RAY
      BY <1>6, <2>2
    <2> QED
      BY <1>1, <2>1, <2>3 DEF LoanInv, FlatDebts
  <1>7. CASE UNCHANGED flashVars
    BY <1>2, <1>7 DEF flashVars, vars, market
  <1> QED
    BY <1>3, <1>4, <1>5, <1>6, <1>7 DEF FlashNext

LEMMA UncoveredAs ==
    ASSUME FlashInv, FlashInv', NEW r \in Reserves
    PROVE  /\ Uncovered(r) = RayMul(TotalSupplyScaled(r), liquidityIndex[r])
                                 - (Assets(r) + Out(loans, r))
           /\ Uncovered(r)' = RayMul(TotalSupplyScaled(r)', liquidityIndex'[r])
                                  - (Assets(r)' + Out(loans', r))
           /\ Assets(r) \in Nat /\ Assets(r)' \in Nat
           /\ Out(loans, r) \in Nat /\ Out(loans', r) \in Nat
           /\ TotalSupplyScaled(r) \in Nat /\ TotalSupplyScaled(r)' \in Nat
           /\ liquidityIndex[r] \in Nat /\ liquidityIndex'[r] \in Nat
  <1>1. /\ TypeOK /\ TypeOK'
        /\ loans \in Seq(Loan) /\ loans' \in Seq(Loan)
    BY DEF FlashInv, TypeInv
  <1>2. /\ availableLiquidity[r] \in Nat /\ availableLiquidity'[r] \in Nat
        /\ liquidityIndex[r] \in Nat /\ liquidityIndex'[r] \in Nat
    BY <1>1 DEF TypeOK
  <1>3. Out(loans, r) \in Nat /\ Out(loans', r) \in Nat
    BY <1>1, OutType
  <1>4. /\ Assets(r) = availableLiquidity[r] + (TotalScaledDebt(r) + TotalStableDebt(r))
        /\ TotalSupplyScaled(r) \in Nat
        /\ TotalScaledDebt(r) \in Nat /\ TotalStableDebt(r) \in Nat
    BY <1>1, Totals DEF Assets, Owed
  <1>5. /\ Assets(r)' = availableLiquidity'[r] + (TotalScaledDebt(r)' + TotalStableDebt(r)')
        /\ TotalSupplyScaled(r)' \in Nat
        /\ TotalScaledDebt(r)' \in Nat /\ TotalStableDebt(r)' \in Nat
    BY <1>1, NextTotals DEF Assets
  <1>6. Uncovered(r) = RayMul(TotalSupplyScaled(r), liquidityIndex[r])
            - (availableLiquidity[r] + TotalScaledDebt(r) + TotalStableDebt(r) + Out(loans, r))
    BY DEF Uncovered, Out
  <1>7. Uncovered(r)' = RayMul(TotalSupplyScaled(r)', liquidityIndex'[r])
            - (availableLiquidity'[r] + TotalScaledDebt(r)' + TotalStableDebt(r)' + Out(loans', r))
    BY DEF Uncovered, Out, SumOver
  <1> QED
    BY <1>2, <1>3, <1>4, <1>5, <1>6, <1>7

Kept(r) ==
    /\ Uncovered(r)' - Uncovered(r) <= 1
    /\ r \notin Forgoing => Uncovered(r)' - Uncovered(r) >= -1

LEMMA SameUncovered ==
    ASSUME FlashInv, FlashInv', NEW r \in Reserves,
           TotalSupplyScaled(r)' = TotalSupplyScaled(r),
           liquidityIndex'[r] = liquidityIndex[r],
           Assets(r)' + Out(loans', r) = Assets(r) + Out(loans, r)
    PROVE  Kept(r)
  <1>1. RayMul(TotalSupplyScaled(r), liquidityIndex[r]) \in Nat
    BY UncoveredAs, RayMulType
  <1>2. Uncovered(r)' = Uncovered(r) /\ Uncovered(r) \in Int
    BY <1>1, UncoveredAs
  <1> QED
    BY <1>2 DEF Kept

(* Outside of a settlement claims change by what is added to the reserve or taken
   from it, divided by the index and rounded. *)
LEMMA UncoveredByFlow ==
    ASSUME LoanInv, FlashInv', NEW r \in Reserves, Flow(r),
           liquidityIndex'[r] = liquidityIndex[r], loans' = loans
    PROVE  Kept(r)
  <1>1. FlashInv /\ liquidityIndex[r] \in Nat /\ RAY <= liquidityIndex[r]
    BY DEF LoanInv, FlashInv, TypeInv, TypeOK
  <1>2. liquidityIndex[r] <= 2 * RAY
    BY DEF LoanInv
  <1>3. PICK i \in Nat : i = liquidityIndex[r]
    BY <1>1
  <1>4. PICK s \in Nat, t \in Nat : s = TotalSupplyScaled(r) /\ t = TotalSupplyScaled(r)'
    BY <1>1, UncoveredAs
  <1>5. PICK x \in Nat : \/ Assets(r)' = Assets(r) + x /\ t = s + RayDiv(x, i)
                         \/ Assets(r) = Assets(r)' + x /\ s = t + RayDiv(x, i)
    BY <1>3, <1>4 DEF Flow
  <1>6. PICK a \in Nat, b \in Nat, o \in Nat :
            /\ a = Assets(r) /\ b = Assets(r)' /\ o = Out(loans, r)
            /\ Uncovered(r) = RayMul(s, i) - (a + o)
            /\ Uncovered(r)' = RayMul(t, i) - (b + o)
    BY <1>1, <1>3, <1>4, UncoveredAs
  <1>7. RayMul(s, i) \in Nat /\ RayMul(t, i) \in Nat
    BY RayMulType
  <1>8. CASE b = a + x /\ t = s + RayDiv(x, i)
    <2>1. RayMul(t, i) - RayMul(s, i) - x \in {-1, 0, 1}
      BY <1>1, <1>2, <1>3, <1>8, MintRounds
    <2> QED
      BY <1>6, <1>7, <1>8, <2>1 DEF Kept
  <1>9. CASE a = b + x /\ s = t + RayDiv(x, i)
    <2>1. RayMul(s, i) - RayMul(t, i) - x \in {-1, 0, 1}
      BY <1>1, <1>2, <1>3, <1>9, MintRounds
    <2> QED
      BY <1>6, <1>7, <1>9, <2>1 DEF Kept
  <1> QED
    BY <1>5, <1>6, <1>8, <1>9

(* Claims that are given up were covered. *)
LEMMA UncoveredByGivingUp ==
    ASSUME FlashInv, FlashInv', NEW r \in Reserves, GivesUp(r),
           liquidityIndex'[r] = liquidityIndex[r], loans' = loans
    PROVE  Kept(r)
  <1>1. PICK s \in Nat, t \in Nat, i \in Nat, a \in Nat, o \in Nat :
            /\ s = TotalSupplyScaled(r) /\ t = TotalSupplyScaled(r)' /\ i = liquidityIndex[r]
            /\ a = Assets(r) /\ o = Out(loans, r)
            /\ Uncovered(r) = RayMul(s, i) - (a + o)
            /\ Uncovered(r)' = RayMul(t, i) - (a + o)
    BY UncoveredAs DEF GivesUp
  <1>2. t <= s /\ i <= i /\ r \in Forgoing
    BY <1>1 DEF GivesUp
  <1>3. RayMul(t, i) <= RayMul(s, i) /\ RayMul(s, i) \in Nat /\ RayMul(t, i) \in Nat
    BY <1>2, RayMulMonotone, RayMulType
  <1>4. Uncovered(r)' - Uncovered(r) <= 1
    BY <1>1, <1>3
  <1> QED
    BY <1>2, <1>4 DEF Kept

LEMMA UncoveredByBegin ==
    ASSUME LoanInv, FlashInv', NEW u \in Users, NEW entries \in LoanRequests, Begin(u, entries),
           NEW r \in Reserves
    PROVE  Kept(r)
  <1>1. FlashInv /\ TypeOK /\ TypeOK' /\ loans \in Seq(Loan)
    BY DEF LoanInv, FlashInv, TypeInv
  <1>2. PICK loan : loan = [borrower |-> u, category |-> eMode[u], entries |-> entries,
                            settling |-> FALSE]
    OBVIOUS
  <1>3. loan \in Loan
    <2>1. entries \in Seq(Entries) \ {<<>>} /\ eMode[u] \in Categories \cup {0}
      BY <1>1, LoanAssumption DEF TypeOK
    <2> QED
      BY <1>2, <2>1 DEF Loan
  <1>4. loans' = Append(loans, loan) /\ loan.entries = entries
    BY <1>2 DEF Begin
  <1>5. /\ Out(loans', r) = Out(loans, r) + Released(entries, r)
        /\ Out(loans, r) \in Nat /\ Released(entries, r) \in Nat
    BY <1>1, <1>3, <1>4, OutOfOneMore
  <1>6. /\ scaledBalance'[r] = scaledBalance[r] /\ scaledDebt'[r] = scaledDebt[r]
        /\ stableDebt'[r] = stableDebt[r] /\ liquidityIndex'[r] = liquidityIndex[r]
    BY DEF Begin, debts, market
  <1>7. availableLiquidity'[r] = availableLiquidity[r] - Released(entries, r)
    BY DEF Begin
  <1>8. Owed(r)' = Owed(r) /\ TotalSupplyScaled(r)' = TotalSupplyScaled(r)
    BY <1>1, <1>6, SameDebt, SameSupply
  <1>9. Assets(r)' + Out(loans', r) = Assets(r) + Out(loans, r)
    BY <1>1, <1>5, <1>7, <1>8, AssetsType, NextAssets DEF Assets
  <1> QED
    BY <1>1, <1>6, <1>8, <1>9, SameUncovered

(* An entry that is kept as debt: what was to be brought back is owed instead. *)
LEMMA UncoveredByDebt ==
    ASSUME LoanInv, FlashInv', NEW u \in Users, NEW c, NEW entry \in Entries,
           BorrowAs(u, c, entry.reserve, entry.amount, entry.mode, FALSE),
           NEW r \in Reserves, Out(loans, r) = Out(loans', r) + Due(entry, r)
    PROVE  Kept(r)
  <1>1. /\ FlashInv /\ TypeOK /\ TypeOK' /\ Typed /\ FlatDebts
        /\ entry.reserve \in Reserves /\ entry.amount \in Nat
    BY DEF LoanInv, FlashInv, TypeInv, Typed, Entries
  <1>2. /\ MintDebt(u, entry.reserve, entry.amount, entry.mode)
        /\ scaledBalance'[r] = scaledBalance[r] /\ liquidityIndex'[r] = liquidityIndex[r]
        /\ availableLiquidity' = [availableLiquidity EXCEPT ![entry.reserve] = @ - 0]
    BY DEF BorrowAs, market
  <1>3. availableLiquidity'[r] = availableLiquidity[r] /\ availableLiquidity[r] \in Nat
    BY <1>1, <1>2 DEF TypeOK
  <1>4. Owed(r)' = Owed(r) + Due(entry, r)
    <2>1. CASE entry.reserve = r
      BY <1>1, <1>2, <2>1, MintBooks DEF Due
    <2>2. CASE entry.reserve # r
      <3>1. scaledDebt'[r] = scaledDebt[r] /\ stableDebt'[r] = stableDebt[r]
        BY <1>1, <1>2, <2>2, MintBooks
      <3> QED
        BY <1>1, <2>2, <3>1, SameDebt, AssetsType DEF Due
    <2> QED
      BY <2>1, <2>2
  <1>5. Due(entry, r) \in Nat
    BY <1>1 DEF Due
  <1>6. TotalSupplyScaled(r)' = TotalSupplyScaled(r)
    BY <1>1, <1>2, SameSupply
  <1>7. Assets(r)' + Out(loans', r) = Assets(r) + Out(loans, r)
    <2>1. Out(loans', r) \in Nat /\ Owed(r) \in Nat
      BY <1>1, UncoveredAs, AssetsType
    <2>2. Assets(r)' = availableLiquidity'[r] + Owed(r)'
      BY <1>1, NextAssets
    <2> QED
      BY <1>3, <1>4, <1>5, <2>1, <2>2 DEF Assets
  <1> QED
    BY <1>1, <1>2, <1>6, <1>7, SameUncovered

(* The index rounds twice, and each time by a fraction of a ray: with a supply well
   below one ray that is less than a unit of all claims together. *)
SmallSupply == \A r \in Reserves : 3 * TotalSupplyScaled(r) < RAY

LEMMA UncoveredByReturn ==
    ASSUME LoanInv, LoanInv', SmallSupply, NEW u \in Users, NEW entry \in Entries,
           TakeBack(u, entry.reserve, entry.amount),
           NEW r \in Reserves, Out(loans, r) = Out(loans', r) + Due(entry, r)
    PROVE  Kept(r)
  <1>1. /\ FlashInv /\ FlashInv' /\ TypeOK /\ TypeOK'
        /\ entry.reserve \in Reserves /\ entry.amount \in Nat
    BY DEF LoanInv, FlashInv, TypeInv, Entries
  <1>2. /\ scaledBalance'[r] = scaledBalance[r] /\ scaledDebt'[r] = scaledDebt[r]
        /\ stableDebt'[r] = stableDebt[r]
    BY DEF TakeBack, debts
  <1>3. Owed(r)' = Owed(r) /\ TotalSupplyScaled(r)' = TotalSupplyScaled(r)
    BY <1>1, <1>2, SameDebt, SameSupply
  <1>4. PICK p : p = IF u \in FlashBorrowers THEN 0
                     ELSE PercentMul(entry.amount, FlashLoanPremiumTotal)
    OBVIOUS
  <1>5. p \in Nat
    BY <1>1, <1>4, LoanAssumption, PercentMulType
  <1>6. /\ RayMul(TotalSupplyScaled(entry.reserve), liquidityIndex[entry.reserve]) # 0
        /\ liquidityIndex' = [liquidityIndex EXCEPT ![entry.reserve] = CumulateToLiquidityIndex(
               RayMul(TotalSupplyScaled(entry.reserve), liquidityIndex[entry.reserve]), p, @)]
        /\ availableLiquidity' = [availableLiquidity EXCEPT
               ![entry.reserve] = @ + entry.amount + p]
    BY <1>4 DEF TakeBack
  <1>7. /\ liquidityIndex \in [Reserves -> Nat] /\ availableLiquidity \in [Reserves -> Nat]
        /\ liquidityIndex[r] >= RAY
    BY <1>1 DEF TypeOK
  <1>8. CASE entry.reserve # r
    <2>1. /\ liquidityIndex'[r] = liquidityIndex[r]
          /\ availableLiquidity'[r] = availableLiquidity[r]
          /\ Due(entry, r) = 0
      BY <1>6, <1>7, <1>8 DEF Due
    <2>2. Assets(r)' + Out(loans', r) = Assets(r) + Out(loans, r)
      BY <1>1, <1>3, <2>1, UncoveredAs, NextAssets DEF Assets
    <2> QED
      BY <1>1, <1>3, <2>1, <2>2, SameUncovered
  <1>9. CASE entry.reserve = r
    <2>1. PICK i \in Nat : i = liquidityIndex[r]
      BY <1>7
    <2>2. PICK s \in Nat : s = TotalSupplyScaled(r)
      BY <1>1, UncoveredAs
    <2>3. PICK j \in Nat : j = liquidityIndex'[r]
      BY <1>1, UncoveredAs
    <2>4. RAY <= i /\ i <= 2 * RAY /\ j <= 2 * RAY /\ 3 * s < RAY /\ RayMul(s, i) # 0
      BY <1>6, <1>7, <1>9, <2>1, <2>2, <2>3 DEF LoanInv, SmallSupply
    <2>5. j = RayMul(RayDiv(p, RayMul(s, i)) + RAY, i)
      BY <1>6, <1>7, <1>9, <2>1, <2>2, <2>3 DEF CumulateToLiquidityIndex
    <2>6. RayMul(s, j) - RayMul(s, i) - p \in {-1, 0, 1}
      BY <1>5, <2>4, <2>5, PremiumRounds
    <2>7. availableLiquidity'[r] = availableLiquidity[r] + entry.amount + p
      BY <1>6, <1>7, <1>9
    <2>8. PICK a \in Nat, b \in Nat, o \in Nat, n \in Nat :
              /\ a = Assets(r) /\ b = Assets(r)' /\ o = Out(loans, r) /\ n = Out(loans', r)
              /\ Uncovered(r) = RayMul(s, i) - (a + o)
              /\ Uncovered(r)' = RayMul(s, j) - (b + n)
      BY <1>1, <1>3, <2>1, <2>2, <2>3, UncoveredAs
    <2>9. b + n = a + o + p
      <3>1. o = n + entry.amount
        BY <1>9, <2>8 DEF Due
      <3>2. b = a + entry.amount + p
        <4>1. Assets(r)' = availableLiquidity'[r] + Owed(r) /\ Owed(r) \in Nat
          BY <1>1, <1>3, NextAssets, AssetsType
        <4>2. Assets(r) = availableLiquidity[r] + Owed(r) /\ availableLiquidity[r] \in Nat
          BY <1>7 DEF Assets
        <4> QED
          BY <1>1, <1>5, <2>7, <2>8, <4>1, <4>2
      <3> QED
        BY <1>1, <1>5, <3>1, <3>2
    <2>10. RayMul(s, i) \in Nat /\ RayMul(s, j) \in Nat
      BY RayMulType
    <2> QED
      BY <1>5, <2>6, <2>8, <2>9, <2>10 DEF Kept
  <1> QED
    BY <1>8, <1>9

LEMMA LoanStepKeepsBooks ==
    ASSUME NothingAccrues, LoanInv, LoanInv', SmallSupply, [FlashNext]_flashVars,
           NEW r \in Reserves
    PROVE  Kept(r)
  <1>1. FlashInv /\ FlashInv' /\ TypeOK /\ TypeOK' /\ Typed /\ FlatDebts
    BY DEF LoanInv, FlashInv, TypeInv, Typed
  <1>2. CASE UNCHANGED <<positions, liquidityIndex, loans>>
    <2>1. /\ scaledBalance'[r] = scaledBalance[r] /\ scaledDebt'[r] = scaledDebt[r]
          /\ stableDebt'[r] = stableDebt[r] /\ liquidityIndex'[r] = liquidityIndex[r]
          /\ availableLiquidity'[r] = availableLiquidity[r] /\ loans' = loans
      BY <1>2 DEF positions, debts
    <2>2. TotalSupplyScaled(r)' = TotalSupplyScaled(r) /\ Assets(r)' = Assets(r)
      BY <1>1, <2>1, SameDebt, SameSupply DEF Assets
    <2> QED
      BY <1>1, <2>1, <2>2, SameUncovered
  <1>3. CASE Calls /\ UNCHANGED loans
    <2>1. Flow(r) \/ GivesUp(r)
      BY <1>1, <1>3, CallsFlow DEF Calls, FlowStep
    <2> QED
      BY <1>1, <1>3, <2>1, CallsKeepIndexes, UncoveredByFlow, UncoveredByGivingUp
  <1>4. CASE Environment /\ UNCHANGED loans
    BY <1>1, <1>2, <1>4, NoInterestDue
  <1>5. CASE \E u \in Users, entries \in LoanRequests : Begin(u, entries)
    BY <1>1, <1>5, UncoveredByBegin
  <1>6. CASE SettleEntry
    <2>1. PICK u \in Users, c \in Categories \cup {0}, entry \in Entries :
              /\ Settlement(u, c, entry)
              /\ \A s \in Reserves : Out(loans, s) = Out(loans', s) + Due(entry, s)
      BY <1>1, <1>6, Settled
    <2>2. Out(loans, r) = Out(loans', r) + Due(entry, r)
      BY <2>1
    <2>3. CASE TakeBack(u, entry.reserve, entry.amount)
      BY <2>2, <2>3, UncoveredByReturn
    <2>4. CASE BorrowAs(u, c, entry.reserve, entry.amount, entry.mode, FALSE)
      BY <1>1, <2>2, <2>4, UncoveredByDebt
    <2> QED
      BY <2>1, <2>3, <2>4 DEF Settlement
  <1>7. CASE UNCHANGED flashVars
    BY <1>2, <1>7 DEF flashVars, vars, positions, market
  <1> QED
    BY <1>3, <1>4, <1>5, <1>6, <1>7 DEF FlashNext

(***************************************************************************)
(* No step of a loan, of what its callbacks call or outside of one makes   *)
(* claims without backing, or takes claims from backing but where they are *)
(* given up, beyond the unit that one rounding costs: the premium is       *)
(* shared among those who supply when it is paid, whatever the callbacks   *)
(* supplied, withdrew, borrowed, repaid or liquidated of the lent asset    *)
(* meanwhile, and however the loans nest. While no interest is due, the    *)
(* income index at most doubles and a reserve's supply stays below a third *)
(* of a ray of its smallest units.                                         *)
(***************************************************************************)
THEOREM LoanBooksHold ==
    ASSUME NothingAccrues, MaxLoanIndex \in 0 .. 2 * RAY
    PROVE  FlashSpec /\ []SmallSupply => LoansKeepTheBooks
  <1>1. FlashInit => LoanInv
    <2> SUFFICES ASSUME FlashInit PROVE LoanInv
      OBVIOUS
    <2>1. FlashInv
      BY InitType DEF FlashInit, FlashInv
    <2>2. \A r \in Reserves : liquidityIndex[r] = RAY /\ variableIndex[r] = RAY
      BY DEF FlashInit, Init
    <2>3. RAY <= 2 * RAY
      BY UnitAssumption
    <2> QED
      BY <2>1, <2>2, <2>3 DEF LoanInv, FlatDebts
  <1>2. LoanInv /\ [FlashNext]_flashVars => LoanInv'
    BY LoanStepType
  <1>3. LoanInv /\ LoanInv' /\ SmallSupply /\ [FlashNext]_flashVars =>
            [\A r \in Reserves :
               /\ Uncovered(r)' - Uncovered(r) <= 1
               /\ r \notin Forgoing => Uncovered(r)' - Uncovered(r) >= -1]_flashVars
    BY LoanStepKeepsBooks DEF Kept
  <1> QED
    BY <1>1, <1>2, <1>3, PTL DEF FlashSpec, LoansKeepTheBooks
=============================================================================
