--------------------------- MODULE Deployment_proofs ---------------------------
(***************************************************************************)
(* Theorems of Deployment, for every market, every list of assets and any  *)
(* number of crashes.                                                      *)
(***************************************************************************)
EXTENDS Deployment, SequenceTheorems, WellFoundedInduction, TLAPS

-----------------------------------------------------------------------------
(* Sequences of steps. *)

Steps(s) == \E T : s \in Seq(T)

LEMMA StepsShape ==
    ASSUME NEW s, Steps(s)
    PROVE  Len(s) \in Nat /\ DOMAIN s = 1 .. Len(s)
  BY LenProperties DEF Steps

LEMMA StepsConcat ==
    ASSUME NEW s, NEW t, Steps(s), Steps(t)
    PROVE  /\ Steps(s \o t)
           /\ Len(s \o t) = Len(s) + Len(t)
           /\ \A i \in 1 .. Len(s) : (s \o t)[i] = s[i]
           /\ \A i \in 1 .. Len(t) : (s \o t)[Len(s) + i] = t[i]
  <1>1. PICK S : s \in Seq(S)
    BY DEF Steps
  <1>2. PICK T : t \in Seq(T)
    BY DEF Steps
  <1>3. s \in Seq(S \cup T) /\ t \in Seq(S \cup T)
    BY <1>1, <1>2, SeqMonotonic
  <1>4. /\ s \o t \in Seq(S \cup T)
        /\ Len(s \o t) = Len(s) + Len(t)
        /\ \A i \in 1 .. Len(s) + Len(t) : (s \o t)[i] =
                     IF i <= Len(s) THEN s[i] ELSE t[i - Len(s)]
    BY <1>3, ConcatProperties
  <1>5. Len(s) \in Nat /\ Len(t) \in Nat
    BY <1>1, <1>2, LenProperties
  <1>6. ASSUME NEW i \in 1 .. Len(s) PROVE (s \o t)[i] = s[i]
    BY <1>4, <1>5
  <1>7. ASSUME NEW i \in 1 .. Len(t) PROVE (s \o t)[Len(s) + i] = t[i]
    <2>1. /\ Len(s) + i \in 1 .. Len(s) + Len(t) /\ ~(Len(s) + i <= Len(s))
          /\ (Len(s) + i) - Len(s) = i
      BY <1>5
    <2> QED
      BY <1>4, <2>1
  <1> QED
    BY <1>4, <1>6, <1>7 DEF Steps

LEMMA StepsAssociative ==
    ASSUME NEW s, NEW t, NEW u, Steps(s), Steps(t), Steps(u)
    PROVE  (s \o t) \o u = s \o (t \o u)
  <1>1. PICK S, T, U : s \in Seq(S) /\ t \in Seq(T) /\ u \in Seq(U)
    BY DEF Steps
  <1>2. PICK V : V = S \cup T \cup U
    OBVIOUS
  <1>3. s \in Seq(V) /\ t \in Seq(V) /\ u \in Seq(V)
    BY <1>1, <1>2, SeqMonotonic
  <1> QED
    BY <1>3, ConcatAssociative

LEMMA StepsTail ==
    ASSUME NEW s, Steps(s), s # <<>>
    PROVE  /\ Steps(Tail(s)) /\ Len(Tail(s)) = Len(s) - 1 /\ Len(s) \in Nat \ {0}
           /\ Head(s) = s[1]
           /\ \A i \in 1 .. Len(Tail(s)) : Tail(s)[i] = s[i + 1]
  <1>1. PICK S : s \in Seq(S)
    BY DEF Steps
  <1>2. /\ Tail(s) \in Seq(S) /\ Len(Tail(s)) = Len(s) - 1
        /\ \A i \in 1 .. Len(Tail(s)) : Tail(s)[i] = s[i + 1]
    BY <1>1, HeadTailProperties
  <1>3. Len(s) \in Nat \ {0} /\ Head(s) = s[1]
    BY <1>1, EmptySeq
  <1> QED
    BY <1>2, <1>3 DEF Steps

LEMMA StepsMap ==
    ASSUME NEW n \in Nat, NEW f, f = [i \in 1 .. n |-> f[i]]
    PROVE  Steps(f) /\ Len(f) = n
  <1> DEFINE T == {f[i] : i \in 1 .. n}
  <1>1. f \in [1 .. n -> T]
    OBVIOUS
  <1>2. f \in Seq(T)
    BY <1>1
  <1>3. Len(f) = n
    BY <1>1, <1>2
  <1> QED
    BY <1>2, <1>3 DEF Steps

LEMMA StepsEmpty == Steps(<<>>) /\ Len(<<>>) = 0
  <1>1. <<>> \in Seq({})
    OBVIOUS
  <1> QED
    BY <1>1 DEF Steps

(* What holds of 0 and of each successor holds of every natural number. *)
LEMMA CountingUp ==
    ASSUME NEW T, 0 \in T, \A n \in Nat : n \in T => n + 1 \in T
    PROVE  Nat \subseteq T
  <1> DEFINE Out == {n \in Nat : n \notin T}
  <1>1. SUFFICES ASSUME Out # {} PROVE FALSE
    OBVIOUS
  <1>2. PICK n \in Out : \A m \in Out : ~(<<m, n>> \in OpToRel(<, Nat))
    BY <1>1, NatLessThanWellFounded, WFMin
  <1>3. \A m \in Out : ~(m < n)
    BY <1>2 DEF OpToRel
  <1>4. n # 0 /\ n \in Nat
    OBVIOUS
  <1>5. n - 1 \in Nat /\ n - 1 < n /\ (n - 1) + 1 = n
    BY <1>4
  <1>6. n - 1 \in T
    BY <1>3, <1>5
  <1> QED
    BY <1>4, <1>5, <1>6

(* The function by which FlattenSeq is defined: the first parts, one after another. *)
IsFlat(g, parts, n) ==
    g = [i \in 1 .. n |-> IF i = 1 THEN parts[i] ELSE g[i - 1] \o parts[i]]

LEMMA FlatExists ==
    ASSUME NEW parts, NEW n \in Nat
    PROVE  \E g : IsFlat(g, parts, n)
  <1> DEFINE Good == {k \in Nat : \E g : IsFlat(g, parts, k)}
  <1>1. 0 \in Good
    <2>1. IsFlat([i \in 1 .. 0 |-> parts[i]], parts, 0)
      BY DEF IsFlat
    <2> QED
      BY <2>1
  <1>2. ASSUME NEW k \in Nat, k \in Good PROVE k + 1 \in Good
    <2>1. PICK g : IsFlat(g, parts, k)
      BY <1>2
    <2> DEFINE h == [i \in 1 .. k + 1 |->
                        IF i = k + 1 THEN IF i = 1 THEN parts[i] ELSE g[i - 1] \o parts[i]
                                     ELSE g[i]]
    <2>2. \A i \in 1 .. k : h[i] = g[i]
      OBVIOUS
    <2>3. \A i \in 1 .. k : g[i] = IF i = 1 THEN parts[i] ELSE g[i - 1] \o parts[i]
      BY <2>1 DEF IsFlat
    <2>4. h[k + 1] = IF k + 1 = 1 THEN parts[k + 1] ELSE g[k] \o parts[k + 1]
      OBVIOUS
    <2>5. ASSUME NEW i \in 1 .. k + 1
          PROVE  h[i] = IF i = 1 THEN parts[i] ELSE h[i - 1] \o parts[i]
      <3>1. CASE i = k + 1
        <4>1. CASE k = 0
          BY <3>1, <4>1, <2>4
        <4>2. CASE k # 0
          <5>1. h[k] = g[k]
            BY <4>2, <2>2
          <5>2. i # 1 /\ i - 1 = k
            BY <3>1, <4>2
          <5> HIDE DEF h
          <5> QED
            BY <3>1, <4>2, <2>4, <5>1, <5>2
        <4> QED
          BY <4>1, <4>2
      <3>2. CASE i # k + 1
        <4>1. i \in 1 .. k
          BY <3>2
        <4>2. i # 1 => i - 1 \in 1 .. k
          BY <4>1
        <4> HIDE DEF h
        <4> QED
          BY <4>1, <4>2, <2>2, <2>3
      <3> QED
        BY <3>1, <3>2
    <2>6. h = [i \in 1 .. k + 1 |-> h[i]]
      OBVIOUS
    <2>7. IsFlat(h, parts, k + 1)
      <3> HIDE DEF h
      <3> QED
        BY <2>5, <2>6 DEF IsFlat
    <2>8. \E e : IsFlat(e, parts, k + 1)
      <3> HIDE DEF h
      <3> QED
        BY <2>7
    <2> QED
      BY <2>8
  <1>3. Nat \subseteq Good
    <2> HIDE DEF Good
    <2> QED
      BY <1>1, <1>2, CountingUp
  <1> QED
    BY <1>3

LEMMA FlatDefinition ==
    ASSUME NEW parts, Steps(parts), parts # <<>>
    PROVE  \E g : IsFlat(g, parts, Len(parts)) /\ FlattenSeq(parts) = g[Len(parts)]
  <1>1. Len(parts) \in Nat \ {0}
    BY StepsTail
  <1>2. PICK g : g = CHOOSE e : IsFlat(e, parts, Len(parts))
    OBVIOUS
  <1>3. IsFlat(g, parts, Len(parts))
    BY <1>1, <1>2, FlatExists
  <1>4. FlattenSeq(parts) = (CHOOSE e : IsFlat(e, parts, Len(parts)))[Len(parts)]
    BY <1>1 DEF FlattenSeq, IsFlat
  <1> QED
    BY <1>2, <1>3, <1>4

-----------------------------------------------------------------------------
(* The order of steps.  Something is secured by some steps and used by others:
   an implementation is sealed by its initialisation and used by the step that
   puts a proxy before it, say.  A use comes after what secures it, in the same
   run or in an earlier one; that a run ends anywhere and that scripts are
   skipped does no harm, because what an earlier run has recorded or set on
   chain was secured then. *)

Seals      == {"PoolImpl", "ConfiguratorImpl", "IncentivesImpl"} \cup Range(TokenImpls)
Adminships == {"DEFAULT_ADMIN", "POOL_ADMIN"}
Deployed   == Ownable \cup {"ACLManager"}
Guards     == Seals \cup Adminships \cup Deployed \cup {"addresses", "Oracle", "PriceOracle", "form"}

\* What the reserves rest on when they are listed.
Grounds == Range(TokenImpls) \cup {"Oracle", "PriceOracle"}

\* Pairs of a script and what it has secured when it is recorded.
RecordedFor ==
    {<<"PoolAddressesProviderRegistry", "Registry">>, <<"PoolAddressesProvider", "addresses">>,
     <<"PoolAddressesProvider", "Provider">>, <<"PoolConfigurator", "ConfiguratorImpl">>,
     <<"ACLManager", "ACLManager">>, <<"Oracles", "Oracle">>, <<"InitOracles", "PriceOracle">>,
     <<"Incentives", "IncentivesImpl">>, <<"Incentives", "EmissionManager">>}
    \cup {"TokenImplementations"} \X Range(TokenImpls)
    \cup {"ReservesInit"} \X (Grounds \cup {"Registry", "Provider", "ACLManager"})

\* Pairs of a proxy in the book and the implementation behind it.
BookedFor == {<<"Pool", "PoolImpl">>, <<"PoolConfigurator", "ConfiguratorImpl">>,
              <<"IncentivesController", "IncentivesImpl">>, <<"Incentives", "IncentivesImpl">>}

ReadNames == {"DataProvider", "PriceOracle", "Pool", "PoolConfigurator", "IncentivesController",
              "initReserves", "configureReserves", "review-stable-borrow", "upgrade-rstokens",
              "ACLAdmin", "renounce-pool-admin"} \cup Roles \cup Ownable

\* Nothing secures a step of an unknown form: no run has one.
Uses(c, step) ==
    \/ step.op = "record" /\ <<step.on, c>> \in RecordedFor
    \/ step.op \in {"read", "book"} /\ <<step.on, c>> \in BookedFor
    \/ step.op = "list" /\ c \in Grounds
    \/ step.op = "read" /\ step.on = "initReserves" /\ c \in Grounds
    \/ step.op = "deploy" /\ step.on = "Oracle" /\ c = "addresses"
    \/ step.op \in {"revoke", "renounce"} /\ step.on = c /\ c \in Adminships
    \/ step.op = "end" /\ step.on = "transfer" /\ c \in Deployed
    \/ step.op = "read" /\ step.on \notin ReadNames /\ c = "form"
    \/ step.op = "revoke" /\ step.to \notin {Deployer, Helper} /\ c = "form"
    \/ step.op = "save" /\ step.on = "Oracle" /\ c = "form"
    \/ step.op = "transfer" /\ step.on \notin Ownable /\ c = "form"
    \/ step.op = "grant" /\ c = "form" /\ (step.on \notin Roles \/ (step.on = "RISK_ADMIN" /\ step.to = Deployer))
    \/ step.op = "list" /\ c = "list"
    \/ step.op = "end" /\ step.on \in {"upgrade", "transfer"} /\ c = step.on

Secures(c, step) ==
    \/ step.op = "initialize" /\ step.on = c /\ c \in Seals
    \/ step.op = "check" /\ step.on = "addresses" /\ c = "addresses"
    \/ step.op = "deploy" /\ step.on = "Oracle" /\ c = "Oracle"
    \/ step.op \in {"read", "book"} /\ step.on = "PriceOracle" /\ c = "PriceOracle"
    \/ step.op = "grant" /\ step.on = c /\ step.to = Multisig /\ c \in Adminships
    \/ step.op \in {"deploy", "require"} /\ step.on = c /\ c \in Deployed

Secured(c) ==
    /\ c # "form"
    /\ c \in Seals => c \in initialized
    /\ c = "addresses" => Range(FirstAssets) \subseteq Range(KnownAssets)
    /\ c = "Oracle" => Range(FirstAssets) \subseteq priced
    /\ c = "PriceOracle" => c \in book
    /\ c \in Adminships => Holds(c, Multisig)
    /\ c \in Deployed => c \in artifacts

\* Names of steps that no script takes, or one task alone.
Marks == {"list", "upgrade", "transfer"}

Has(c, s)     == \E k \in 1 .. Len(s) : Secures(c, s[k])
InOrder(c, s) == \A j \in 1 .. Len(s) :
                    Uses(c, s[j]) => \E k \in 1 .. (j - 1) : Secures(c, s[k])

LEMMA MarksAreSecured == \A c \in Marks : Secured(c)
  <1>1. \A c \in Marks : c \notin Range(TokenImpls)
    <2>1. /\ DOMAIN TokenImpls = 1 .. 4
          /\ TokenImpls[1] = "RSToken" /\ TokenImpls[2] = "DelegationAwareRSToken"
          /\ TokenImpls[3] = "StableDebtToken" /\ TokenImpls[4] = "VariableDebtToken"
      BY DEF TokenImpls
    <2> QED
      BY <2>1 DEF Range, Marks
  <1> QED
    BY <1>1 DEF Marks, Secured, Seals, Adminships, Deployed, Ownable

LEMMA ConcatInOrder ==
    ASSUME NEW c, NEW s, NEW t, Steps(s), Steps(t),
           InOrder(c, s), InOrder(c, t) \/ Has(c, s)
    PROVE  InOrder(c, s \o t)
  <1>1. /\ Len(s \o t) = Len(s) + Len(t) /\ Len(s) \in Nat /\ Len(t) \in Nat
        /\ \A i \in 1 .. Len(s) : (s \o t)[i] = s[i]
        /\ \A i \in 1 .. Len(t) : (s \o t)[Len(s) + i] = t[i]
    BY StepsConcat, StepsShape
  <1> SUFFICES ASSUME NEW j \in 1 .. Len(s) + Len(t), Uses(c, (s \o t)[j])
               PROVE  \E k \in 1 .. (j - 1) : Secures(c, (s \o t)[k])
    BY <1>1 DEF InOrder
  <1>2. CASE j <= Len(s)
    <2>1. j \in 1 .. Len(s) /\ (s \o t)[j] = s[j]
      BY <1>1, <1>2
    <2>2. PICK k \in 1 .. (j - 1) : Secures(c, s[k])
      BY <2>1 DEF InOrder
    <2>3. (s \o t)[k] = s[k]
      BY <1>1, <2>1
    <2> QED
      BY <2>2, <2>3
  <1>3. CASE ~(j <= Len(s))
    <2>1. j - Len(s) \in 1 .. Len(t) /\ Len(s) + (j - Len(s)) = j
      BY <1>1, <1>3
    <2>2. Uses(c, t[j - Len(s)])
      BY <1>1, <2>1
    <2>3. CASE Has(c, s)
      <3>1. PICK k \in 1 .. Len(s) : Secures(c, s[k])
        BY <2>3 DEF Has
      <3>2. k \in 1 .. (j - 1) /\ (s \o t)[k] = s[k]
        BY <1>1, <1>3
      <3> QED
        BY <3>1, <3>2
    <2>4. CASE InOrder(c, t)
      <3>1. PICK k \in 1 .. ((j - Len(s)) - 1) : Secures(c, t[k])
        BY <2>1, <2>2, <2>4 DEF InOrder
      <3>2. k \in 1 .. Len(t) /\ Len(s) + k \in 1 .. (j - 1)
        BY <1>1, <2>1
      <3>3. (s \o t)[Len(s) + k] = t[k]
        BY <1>1, <3>2
      <3> QED
        BY <3>1, <3>2, <3>3
    <2> QED
      BY <2>3, <2>4
  <1> QED
    BY <1>2, <1>3

LEMMA ConcatHas ==
    ASSUME NEW c, NEW s, NEW t, Steps(s), Steps(t)
    PROVE  Has(c, s \o t) <=> Has(c, s) \/ Has(c, t)
  <1>1. /\ Len(s \o t) = Len(s) + Len(t) /\ Len(s) \in Nat /\ Len(t) \in Nat
        /\ \A i \in 1 .. Len(s) : (s \o t)[i] = s[i]
        /\ \A i \in 1 .. Len(t) : (s \o t)[Len(s) + i] = t[i]
    BY StepsConcat, StepsShape
  <1>2. ASSUME Has(c, s) PROVE Has(c, s \o t)
    <2>1. PICK k \in 1 .. Len(s) : Secures(c, s[k])
      BY <1>2 DEF Has
    <2>2. k \in 1 .. Len(s \o t) /\ (s \o t)[k] = s[k]
      BY <1>1
    <2> QED
      BY <2>1, <2>2 DEF Has
  <1>3. ASSUME Has(c, t) PROVE Has(c, s \o t)
    <2>1. PICK k \in 1 .. Len(t) : Secures(c, t[k])
      BY <1>3 DEF Has
    <2>2. Len(s) + k \in 1 .. Len(s \o t) /\ (s \o t)[Len(s) + k] = t[k]
      BY <1>1
    <2> QED
      BY <2>1, <2>2 DEF Has
  <1>4. ASSUME Has(c, s \o t) PROVE Has(c, s) \/ Has(c, t)
    <2>1. PICK k \in 1 .. Len(s) + Len(t) : Secures(c, (s \o t)[k])
      BY <1>1, <1>4 DEF Has
    <2>2. CASE k <= Len(s)
      <3>1. k \in 1 .. Len(s) /\ (s \o t)[k] = s[k]
        BY <1>1, <2>2
      <3> QED
        BY <2>1, <3>1 DEF Has
    <2>3. CASE ~(k <= Len(s))
      <3>1. k - Len(s) \in 1 .. Len(t) /\ Len(s) + (k - Len(s)) = k
        BY <1>1, <2>3
      <3>2. Secures(c, t[k - Len(s)])
        BY <1>1, <2>1, <3>1
      <3> QED
        BY <3>1, <3>2 DEF Has
    <2> QED
      BY <2>2, <2>3
  <1> QED
    BY <1>2, <1>3, <1>4

(* A script whose uses are secured by itself or an earlier one is in its place. *)
LEMMA FlatInOrder ==
    ASSUME NEW c, NEW parts, Steps(parts), parts # <<>>,
           \A i \in 1 .. Len(parts) : Steps(parts[i]),
           \A i \in 1 .. Len(parts) :
               InOrder(c, parts[i]) \/ \E h \in 1 .. (i - 1) : Has(c, parts[h])
    PROVE  /\ Steps(FlattenSeq(parts)) /\ InOrder(c, FlattenSeq(parts))
           /\ \A h \in 1 .. Len(parts) : Has(c, parts[h]) => Has(c, FlattenSeq(parts))
  <1>1. PICK n \in Nat \ {0} : n = Len(parts)
    BY StepsTail
  <1>2. PICK g : IsFlat(g, parts, n) /\ FlattenSeq(parts) = g[n]
    BY <1>1, FlatDefinition
  <1> DEFINE Fine(k) == /\ Steps(g[k]) /\ InOrder(c, g[k])
                        /\ \A h \in 1 .. k : Has(c, parts[h]) => Has(c, g[k])
             Good == {k \in Nat : k \in 1 .. n => Fine(k)}
  <1>3. 0 \in Good
    OBVIOUS
  <1>4. ASSUME NEW k \in Nat, k \in Good PROVE k + 1 \in Good
    <2> SUFFICES ASSUME k + 1 \in 1 .. n PROVE Fine(k + 1)
      OBVIOUS
    <2>1. Steps(parts[k + 1])
      BY <1>1
    <2>2. CASE k = 0
      <3>1. g[1] = parts[1] /\ k + 1 = 1
        BY <1>1, <1>2, <2>2 DEF IsFlat
      <3>2. InOrder(c, parts[1])
        BY <1>1
      <3>3. \A h \in 1 .. 1 : Has(c, parts[h]) => Has(c, g[1])
        BY <3>1
      <3> QED
        BY <2>1, <3>1, <3>2, <3>3
    <2>3. CASE k # 0
      <3>1. k \in 1 .. n /\ k + 1 # 1 /\ (k + 1) - 1 = k
        BY <2>3
      <3>2. g[k + 1] = g[k] \o parts[k + 1]
        BY <1>1, <1>2, <3>1 DEF IsFlat
      <3>3. Fine(k)
        BY <1>4, <3>1
      <3>4. InOrder(c, parts[k + 1]) \/ Has(c, g[k])
        BY <1>1, <3>1, <3>3
      <3>5. Steps(g[k + 1]) /\ InOrder(c, g[k + 1])
        BY <2>1, <3>2, <3>3, <3>4, StepsConcat, ConcatInOrder
      <3>6. ASSUME NEW h \in 1 .. k + 1, Has(c, parts[h]) PROVE Has(c, g[k + 1])
        <4>1. h \in 1 .. k \/ h = k + 1
          OBVIOUS
        <4>2. Has(c, g[k]) \/ Has(c, parts[k + 1])
          BY <3>3, <3>6, <4>1
        <4> QED
          BY <2>1, <3>2, <3>3, <4>2, ConcatHas
      <3> QED
        BY <3>5, <3>6
    <2> QED
      BY <2>2, <2>3
  <1>5. Nat \subseteq Good
    <2> HIDE DEF Good
    <2> QED
      BY <1>3, <1>4, CountingUp
  <1>6. Fine(n)
    BY <1>5
  <1> QED
    BY <1>1, <1>2, <1>6

-----------------------------------------------------------------------------
(* The scripts. *)

\* Steps that use nothing.
Quiet(step) == \A c : ~Uses(c, step)

AllQuiet(s) == Steps(s) /\ \A j \in 1 .. Len(s) : Quiet(s[j])

LEMMA QuietInOrder ==
    ASSUME NEW s, AllQuiet(s), NEW c
    PROVE  InOrder(c, s)
  BY DEF InOrder, AllQuiet, Quiet

LEMMA QuietConcat ==
    ASSUME NEW s, NEW t, AllQuiet(s), AllQuiet(t)
    PROVE  AllQuiet(s \o t)
  <1>1. /\ Steps(s \o t) /\ Len(s \o t) = Len(s) + Len(t) /\ Len(s) \in Nat /\ Len(t) \in Nat
        /\ \A i \in 1 .. Len(s) : (s \o t)[i] = s[i]
        /\ \A i \in 1 .. Len(t) : (s \o t)[Len(s) + i] = t[i]
    BY StepsConcat, StepsShape DEF AllQuiet
  <1>2. ASSUME NEW j \in 1 .. Len(s) + Len(t) PROVE Quiet((s \o t)[j])
    <2>1. CASE j <= Len(s)
      BY <1>1, <2>1 DEF AllQuiet
    <2>2. CASE ~(j <= Len(s))
      <3>1. j - Len(s) \in 1 .. Len(t) /\ Len(s) + (j - Len(s)) = j
        BY <1>1, <2>2
      <3> QED
        BY <1>1, <3>1 DEF AllQuiet
    <2> QED
      BY <2>1, <2>2
  <1> QED
    BY <1>1, <1>2 DEF AllQuiet

LEMMA One ==
    ASSUME NEW x
    PROVE  /\ Steps(<<x>>) /\ Len(<<x>>) = 1 /\ <<x>>[1] = x
           /\ Quiet(x) => AllQuiet(<<x>>)
           /\ \A c : ~Uses(c, x) => InOrder(c, <<x>>)
           /\ \A c : Has(c, <<x>>) <=> Secures(c, x)
  <1>1. Steps(<<x>>) /\ Len(<<x>>) = 1 /\ <<x>>[1] = x
    <2>1. <<x>> \in Seq({x})
      OBVIOUS
    <2> QED
      BY <2>1 DEF Steps
  <1>2. Quiet(x) => AllQuiet(<<x>>)
    BY <1>1 DEF AllQuiet
  <1>3. \A c : ~Uses(c, x) => InOrder(c, <<x>>)
    BY <1>1 DEF InOrder
  <1>4. \A c : Has(c, <<x>>) <=> Secures(c, x)
    BY <1>1 DEF Has
  <1> QED
    BY <1>1, <1>2, <1>3, <1>4

(* A script that ends in a step that uses what the script has secured. *)
LEMMA Ending ==
    ASSUME NEW s, NEW x, AllQuiet(s)
    PROVE  /\ Steps(s \o <<x>>)
           /\ \A c : (Uses(c, x) => Has(c, s)) => InOrder(c, s \o <<x>>)
           /\ \A c : Has(c, s) => Has(c, s \o <<x>>)
  BY One, QuietInOrder, ConcatInOrder, ConcatHas, StepsConcat DEF AllQuiet

LEMMA LastOfConcat ==
    ASSUME NEW s, NEW x, Steps(s)
    PROVE  Last(s \o <<x>>) = x
  <1>1. PICK t : t = <<x>>
    OBVIOUS
  <1>2. Steps(t)
    BY <1>1, One
  <1>3. Len(t) = 1 /\ t[1] = x
    BY <1>1, One
  <1>4. Len(s \o t) = Len(s) + Len(t) /\ \A i \in 1 .. Len(t) : (s \o t)[Len(s) + i] = t[i]
    BY <1>2, StepsConcat
  <1>5. PICK w : w = s \o t
    OBVIOUS
  <1>6. Len(w) = Len(s) + 1 /\ w[Len(s) + 1] = x
    BY <1>3, <1>4, <1>5
  <1>7. Last(w) = x
    BY <1>6 DEF Last
  <1> QED
    BY <1>1, <1>5, <1>7

LEMMA QuietForms ==
    /\ \A c : c # "Oracle" => Quiet(Deploy(c)) /\ Quiet(Save(c))
    /\ \A c : Quiet(Initialize(c)) /\ Quiet(Require(c)) /\ Quiet(Check(c))
    /\ \A c \in Ownable : \A a : Quiet(Transfer(c, a))
    /\ \A c \in Roles : \A a : c # "RISK_ADMIN" \/ a # Deployer => Quiet(Grant(c, a))
    /\ \A k, c, a : Quiet(Put(k, c, a))
    /\ \A c : Quiet(Configure(c)) /\ Quiet(SetACLAdmin(c))
    /\ Quiet(Register) /\ Quiet(SetSources) /\ Quiet(SavePoolTokens)
    /\ \A c : (\A d : <<c, d>> \notin BookedFor) => Quiet(Book(c))
    /\ \A c \in ReadNames : (\A d : <<c, d>> \notin BookedFor) /\ c # "initReserves"
            => Quiet(Read(c))
    /\ \A c : (\A d : <<c, d>> \notin RecordedFor) => Quiet(Record(c))
    /\ \A c : c \notin {"upgrade", "transfer"} => Quiet(End(c))
  BY DEF Quiet, Uses, Deploy, Initialize, Save, Require, Check, Transfer, Grant, Put, Configure,
         SetACLAdmin, Register, SetSources, SavePoolTokens, Book, Read, Record, End

LEMMA QuietTuple ==
    ASSUME NEW a, NEW b, NEW c, NEW d, Quiet(a), Quiet(b), Quiet(c), Quiet(d)
    PROVE  AllQuiet(<<a, b>>) /\ AllQuiet(<<a, b, c>>) /\ AllQuiet(<<a, b, c, d>>)
  <1> DEFINE S == {a, b, c, d}
  <1>1. <<a, b>> \in Seq(S) /\ <<a, b, c>> \in Seq(S) /\ <<a, b, c, d>> \in Seq(S)
    OBVIOUS
  <1>2. \A x \in S : Quiet(x)
    OBVIOUS
  <1>3. \A s \in Seq(S) : AllQuiet(s)
    <2> HIDE DEF S
    <2> QED
      BY <1>2, LenProperties DEF AllQuiet, Steps
  <1> QED
    BY <1>1, <1>3

LEMMA MarketsRegistryInOrder ==
    /\ Steps(MarketsRegistry) /\ Has("Registry", MarketsRegistry)
    /\ \A c : InOrder(c, MarketsRegistry)
  <1> DEFINE s == <<Deploy("Registry"), Transfer("Registry", Deployer)>>
             x == Record("PoolAddressesProviderRegistry")
  <1>1. MarketsRegistry = s \o <<x>>
    BY DEF MarketsRegistry
  <1>2. AllQuiet(s)
    BY QuietForms, QuietTuple DEF Ownable
  <1>3. Has("Registry", s)
    BY DEF Has, Secures, Deploy, Deployed, Ownable
  <1>4. \A c : Uses(c, x) => c = "Registry"
    BY DEF Uses, Record, RecordedFor
  <1> HIDE DEF s, x
  <1> QED
    BY <1>1, <1>2, <1>3, <1>4, Ending

LEMMA DeploysQuiet ==
    ASSUME NEW cs, Steps(cs), \A i \in 1 .. Len(cs) : cs[i] # "Oracle"
    PROVE  AllQuiet(Deploys(cs))
  <1>1. Len(cs) \in Nat /\ DOMAIN cs = 1 .. Len(cs)
    BY StepsShape
  <1>2. PICK f : f = Deploys(cs)
    OBVIOUS
  <1>3. f = [i \in 1 .. Len(cs) |-> Deploy(cs[i])]
    BY <1>1, <1>2 DEF Deploys
  <1>4. f = [i \in 1 .. Len(cs) |-> f[i]] /\ \A i \in 1 .. Len(cs) : f[i] = Deploy(cs[i])
    BY <1>3
  <1>5. Steps(f) /\ Len(f) = Len(cs)
    BY <1>1, <1>4, StepsMap
  <1> QED
    BY <1>2, <1>4, <1>5, QuietForms DEF AllQuiet

LEMMA DeploysNames ==
    ASSUME NEW T, NEW cs \in Seq(T), "Oracle" \notin T
    PROVE  AllQuiet(Deploys(cs))
  BY LenProperties, DeploysQuiet DEF Steps

LEMMA LogicLibrariesInOrder ==
    Steps(LogicLibraries) /\ \A c : InOrder(c, LogicLibraries)
  <1> DEFINE cs == <<"SupplyLogic", "BorrowLogic", "LiquidationLogic", "EModeLogic",
                     "BridgeLogic", "ConfiguratorLogic", "FlashLoanLogic", "PoolLogic">>
             T == {"SupplyLogic", "BorrowLogic", "LiquidationLogic", "EModeLogic",
                   "BridgeLogic", "ConfiguratorLogic", "FlashLoanLogic", "PoolLogic"}
  <1>1. cs \in Seq(T) /\ "Oracle" \notin T
    OBVIOUS
  <1>2. AllQuiet(Deploys(cs))
    <2> HIDE DEF cs, T
    <2> QED
      BY <1>1, DeploysNames
  <1>3. Quiet(Record("LogicLibraries"))
    BY QuietForms DEF RecordedFor
  <1>4. LogicLibraries = Deploys(cs) \o <<Record("LogicLibraries")>>
    BY DEF LogicLibraries
  <1> HIDE DEF cs
  <1> QED
    BY <1>2, <1>3, <1>4, Ending DEF Quiet

LEMMA TreasuryInOrder ==
    Steps(TreasuryScript) /\ \A c : InOrder(c, TreasuryScript)
  <1> DEFINE a == <<Save("TreasuryProxy"), Save("TreasuryController"), Save("TreasuryImpl")>>
             cs == <<"TreasuryProxy", "TreasuryController", "TreasuryImpl">>
             b == <<Initialize("TreasuryImpl"), Initialize("TreasuryProxy")>>
             s == IF market.treasury # None THEN a ELSE Deploys(cs) \o b
  <1>1. AllQuiet(a) /\ AllQuiet(b)
    BY QuietForms, QuietTuple
  <1>2. AllQuiet(Deploys(cs))
    <2> DEFINE T == {"TreasuryProxy", "TreasuryController", "TreasuryImpl"}
    <2>1. cs \in Seq(T) /\ "Oracle" \notin T
      OBVIOUS
    <2> HIDE DEF cs, T
    <2> QED
      BY <2>1, DeploysNames
  <1>3. AllQuiet(Deploys(cs) \o b)
    BY <1>1, <1>2, QuietConcat
  <1>4. AllQuiet(s)
    BY <1>1, <1>3
  <1>5. Quiet(Record("Treasury"))
    BY QuietForms DEF RecordedFor
  <1>6. TreasuryScript = s \o <<Record("Treasury")>>
    BY DEF TreasuryScript
  <1> HIDE DEF s
  <1> QED
    BY <1>4, <1>5, <1>6, Ending DEF Quiet

\* Symbols of tokens are not the oracle's.
LEMMA AssetNames ==
    ASSUME NEW a \in Assets
    PROVE  a # "Oracle" /\ Aggregator(a) # "Oracle"
  BY DeploymentAssumption DEF Contracts

LEMMA TokenSetupInOrder ==
    ASSUME config \in Seq(Assets)
    PROVE  Steps(TokenSetup) /\ \A c : InOrder(c, TokenSetup)
  <1>1. AllQuiet(Deploys(config))
    BY AssetNames, LenProperties, DeploysQuiet DEF Steps
  <1>2. AllQuiet(<<Deploy("Faucet")>>)
    BY QuietForms, One
  <1>3. AllQuiet(<<Deploy("Faucet")>> \o Deploys(config))
    BY <1>1, <1>2, QuietConcat
  <1>4. AllQuiet(<<>>)
    BY StepsEmpty DEF AllQuiet
  <1>5. AllQuiet(TokenSetup)
    BY <1>3, <1>4 DEF TokenSetup, When
  <1> QED
    BY <1>5, QuietInOrder DEF AllQuiet

LEMMA AddressesProviderInOrder ==
    /\ Steps(SetupAddressesProvider)
    /\ Has("addresses", SetupAddressesProvider) /\ Has("Provider", SetupAddressesProvider)
    /\ \A c : InOrder(c, SetupAddressesProvider)
  <1> DEFINE a == <<Check("addresses"), Deploy("Provider")>>
             b == <<Put("marketId", "Provider", "Provider"), Register,
                    Deploy("DataProvider"), Read("DataProvider")>>
             x == Record("PoolAddressesProvider")
  <1>1. SetupAddressesProvider = (a \o b) \o <<x>>
    BY DEF SetupAddressesProvider
  <1>2. AllQuiet(a)
    BY QuietForms, QuietTuple
  <1>3. AllQuiet(b)
    <2>1. Quiet(Read("DataProvider"))
      BY QuietForms DEF ReadNames, BookedFor
    <2> QED
      BY <2>1, QuietForms, QuietTuple
  <1>4. Has("addresses", a) /\ Has("Provider", a)
    BY DEF Has, Secures, Deploy, Check, Deployed, Ownable
  <1>5. \A c : Uses(c, x) => c \in {"addresses", "Provider"}
    BY DEF Uses, Record, RecordedFor
  <1> HIDE DEF a, b, x
  <1>6. AllQuiet(a \o b) /\ Has("addresses", a \o b) /\ Has("Provider", a \o b)
    BY <1>2, <1>3, <1>4, QuietConcat, ConcatHas DEF AllQuiet
  <1> QED
    BY <1>1, <1>5, <1>6, Ending

LEMMA PriceAggregatorsInOrder ==
    ASSUME config \in Seq(Assets)
    PROVE  Steps(PriceAggregatorsSetup) /\ \A c : InOrder(c, PriceAggregatorsSetup)
  <1>1. PICK f : f = [i \in DOMAIN config |-> Deploy(Aggregator(config[i]))]
    OBVIOUS
  <1>2. Len(config) \in Nat /\ DOMAIN config = 1 .. Len(config)
        /\ \A i \in 1 .. Len(config) : config[i] \in Assets
    BY LenProperties
  <1>3. AllQuiet(f)
    <2>1. f = [i \in 1 .. Len(config) |-> f[i]]
          /\ \A i \in 1 .. Len(config) : f[i] = Deploy(Aggregator(config[i]))
      BY <1>1, <1>2
    <2>2. Steps(f) /\ Len(f) = Len(config)
      BY <1>2, <2>1, StepsMap
    <2> QED
      BY <1>2, <2>1, <2>2, QuietForms, AssetNames DEF AllQuiet
  <1>4. Quiet(Record("MockPriceAggregators"))
    BY QuietForms DEF RecordedFor
  <1>5. /\ Steps(f \o <<Record("MockPriceAggregators")>>)
        /\ \A c : InOrder(c, f \o <<Record("MockPriceAggregators")>>)
    BY <1>3, <1>4, Ending DEF Quiet
  <1>6. Steps(<<>>) /\ \A c : InOrder(c, <<>>)
    BY StepsEmpty DEF InOrder
  <1>7. PriceAggregatorsSetup = IF market.testnet THEN f \o <<Record("MockPriceAggregators")>> ELSE <<>>
    BY <1>1 DEF PriceAggregatorsSetup, When
  <1> QED
    BY <1>5, <1>6, <1>7

LEMMA PoolImplementationInOrder ==
    /\ Steps(PoolImplementation) /\ Has("PoolImpl", PoolImplementation)
    /\ \A c : InOrder(c, PoolImplementation)
  <1>1. AllQuiet(PoolImplementation)
    BY QuietForms, QuietTuple DEF PoolImplementation
  <1>2. Has("PoolImpl", PoolImplementation)
    BY DEF PoolImplementation, Has, Secures, Initialize, Seals
  <1> QED
    BY <1>1, <1>2, QuietInOrder DEF AllQuiet

LEMMA ConfiguratorInOrder ==
    /\ Steps(PoolConfiguratorScript) /\ Has("ConfiguratorImpl", PoolConfiguratorScript)
    /\ \A c : InOrder(c, PoolConfiguratorScript)
  <1> DEFINE s == <<Deploy("ConfiguratorImpl"), Initialize("ConfiguratorImpl"), Deploy(Helper)>>
             x == Record("PoolConfigurator")
  <1>1. PoolConfiguratorScript = s \o <<x>>
    BY DEF PoolConfiguratorScript
  <1>2. AllQuiet(s)
    BY QuietForms, QuietTuple DEF Helper
  <1>3. Has("ConfiguratorImpl", s)
    BY DEF Has, Secures, Initialize, Seals
  <1>4. \A c : Uses(c, x) => c = "ConfiguratorImpl"
    BY DEF Uses, Record, RecordedFor
  <1> HIDE DEF s, x
  <1> QED
    BY <1>1, <1>2, <1>3, <1>4, Ending

LEMMA InitACLInOrder ==
    /\ Steps(InitACL) /\ Has("ACLManager", InitACL)
    /\ \A c : InOrder(c, InitACL)
  <1> DEFINE a == <<SetACLAdmin(Deployer), Deploy("ACLManager"), Book("ACLManager")>>
             b == <<Grant("POOL_ADMIN", Deployer), Grant("EMERGENCY_ADMIN", Deployer),
                    Check("admins")>>
             x == Record("ACLManager")
  <1>1. InitACL = (a \o b) \o <<x>>
    BY DEF InitACL
  <1>2. AllQuiet(a)
    <2>1. Quiet(Book("ACLManager"))
      BY QuietForms DEF BookedFor
    <2> QED
      BY <2>1, QuietForms, QuietTuple
  <1>3. AllQuiet(b)
    BY QuietForms, QuietTuple DEF Roles
  <1>4. Has("ACLManager", a)
    BY DEF Has, Secures, Deploy, Deployed
  <1>5. \A c : Uses(c, x) => c = "ACLManager"
    BY DEF Uses, Record, RecordedFor
  <1> HIDE DEF a, b, x
  <1>6. AllQuiet(a \o b) /\ Has("ACLManager", a \o b)
    BY <1>2, <1>3, <1>4, QuietConcat, ConcatHas DEF AllQuiet
  <1> QED
    BY <1>1, <1>5, <1>6, Ending

LEMMA OraclesInOrder ==
    /\ Steps(DeployOracles) /\ Has("Oracle", DeployOracles)
    /\ \A c : c # "addresses" => InOrder(c, DeployOracles)
    /\ Last(DeployOracles) = Record("Oracles")
  <1> DEFINE s == <<Deploy("FallbackOracle"), Deploy("Oracle")>>
             x == Record("Oracles")
  <1>1. DeployOracles = s \o <<x>>
    <2>1. Deploys(<<"FallbackOracle", "Oracle">>) = s
      BY DEF Deploys
    <2> HIDE DEF s
    <2> QED
      BY <2>1 DEF DeployOracles
  <1>2. Steps(s) /\ Len(s) = 2
    <2>1. s \in Seq({s[1], s[2]}) /\ Len(s) = 2
      OBVIOUS
    <2> QED
      BY <2>1 DEF Steps
  <1>3. Secures("Oracle", s[2])
    BY DEF Secures, Deploy
  <1>4. /\ \A c : ~Uses(c, s[1])
        /\ \A c : Uses(c, s[2]) => c = "addresses"
    BY DEF Uses, Deploy
  <1>5. \A c : Uses(c, x) => c = "Oracle"
    BY DEF Uses, Record, RecordedFor
  <1> HIDE DEF s, x
  <1>6. Has("Oracle", s) /\ \A c : c # "addresses" => InOrder(c, s)
    BY <1>2, <1>3, <1>4 DEF Has, InOrder
  <1>7. Steps(<<x>>) /\ \A c : c # "Oracle" => InOrder(c, <<x>>)
    BY <1>5, One
  <1> QED
    <2>1. Last(DeployOracles) = Record("Oracles")
      BY <1>1, <1>2, LastOfConcat DEF x
    <2> QED
      BY <2>1, <1>1, <1>2, <1>6, <1>7, StepsConcat, ConcatHas, ConcatInOrder

LEMMA InitOraclesInOrder ==
    /\ Steps(InitOracles) /\ Has("PriceOracle", InitOracles)
    /\ \A c : InOrder(c, InitOracles)
  <1> DEFINE s == <<Read("PriceOracle")>>
             x == Record("InitOracles")
  <1>1. InitOracles = s \o <<x>>
    BY DEF InitOracles
  <1>2. AllQuiet(s)
    BY QuietForms, One DEF ReadNames, BookedFor
  <1>3. Has("PriceOracle", s)
    BY One DEF Secures, Read
  <1>4. \A c : Uses(c, x) => c = "PriceOracle"
    BY DEF Uses, Record, RecordedFor
  <1> HIDE DEF s, x
  <1> QED
    BY <1>1, <1>2, <1>3, <1>4, Ending

LEMMA InitPoolInOrder ==
    /\ Steps(InitPool)
    /\ \A c : c \notin {"PoolImpl", "ConfiguratorImpl"} => InOrder(c, InitPool)
  <1> DEFINE a == <<Read("Pool"), Save("PoolProxy"), Read("PoolConfigurator"),
                    Save("ConfiguratorProxy")>>
             b == <<Put("premiumTotal", "Pool", "POOL_ADMIN"),
                    Put("premiumToProtocol", "Pool", "POOL_ADMIN"),
                    Record("PoolInitalization")>>
  <1>1. InitPool = a \o b
    BY DEF InitPool
  <1>2. AllQuiet(b)
    <2>1. Quiet(Record("PoolInitalization"))
      BY QuietForms DEF RecordedFor
    <2> QED
      BY <2>1, QuietForms, QuietTuple
  <1>3. Steps(a) /\ Len(a) = 4
    <2>1. a \in Seq({a[1], a[2], a[3], a[4]}) /\ Len(a) = 4
      OBVIOUS
    <2> QED
      BY <2>1 DEF Steps
  <1>4. /\ \A c : Uses(c, a[1]) => c = "PoolImpl"
        /\ \A c : Uses(c, a[3]) => c = "ConfiguratorImpl"
    BY DEF Uses, Read, BookedFor, ReadNames
  <1>5. \A c : ~Uses(c, a[2]) /\ ~Uses(c, a[4])
    BY DEF Uses, Save
  <1> HIDE DEF a, b
  <1>6. \A c : c \notin {"PoolImpl", "ConfiguratorImpl"} => InOrder(c, a)
    BY <1>3, <1>4, <1>5 DEF InOrder
  <1> QED
    BY <1>1, <1>2, <1>3, <1>6, QuietInOrder, ConcatInOrder, StepsConcat DEF AllQuiet

LEMMA IncentivesInOrder ==
    /\ Steps(Incentives) /\ Has("IncentivesImpl", Incentives) /\ Has("EmissionManager", Incentives)
    /\ \A c : InOrder(c, Incentives)
    /\ Last(Incentives) = Record("Incentives")
  <1> DEFINE a == <<Deploy("EmissionManager"), Deploy("IncentivesImpl"),
                    Initialize("IncentivesImpl")>>
             b == <<Read("IncentivesController")>>
             d == <<Require("IncentivesProxy"),
                    Put("rewardsController", "EmissionManager", "EmissionManager")>>
             e == When(market.testnet, <<Deploy("PullRewardsStrategy")>>)
             f == <<Transfer("EmissionManager", Deployer)>>
             x == Record("Incentives")
  <1>1. Incentives = (((a \o b) \o d) \o e) \o (f \o <<x>>)
    BY DEF Incentives
  <1>2. AllQuiet(a) /\ AllQuiet(d) /\ AllQuiet(f)
    BY QuietForms, QuietTuple, One DEF Ownable
  <1>3. AllQuiet(e)
    <2>1. AllQuiet(<<Deploy("PullRewardsStrategy")>>) /\ AllQuiet(<<>>)
      BY QuietForms, One, StepsEmpty DEF AllQuiet
    <2> QED
      BY <2>1 DEF When
  <1>4. Has("IncentivesImpl", a) /\ Has("EmissionManager", a)
    BY DEF Has, Secures, Deploy, Initialize, Deployed, Seals, Ownable
  <1>5. \A c : Uses(c, Read("IncentivesController")) => c = "IncentivesImpl"
    BY DEF Uses, Read, BookedFor, ReadNames
  <1>6. \A c : Uses(c, x) => c \in {"IncentivesImpl", "EmissionManager"}
    BY DEF Uses, Record, RecordedFor
  <1>7. Steps(b) /\ \A c : c # "IncentivesImpl" => InOrder(c, b)
    BY <1>5, One
  <1>8. Steps(f \o <<x>>) /\ \A c : c \notin {"IncentivesImpl", "EmissionManager"} => InOrder(c, f \o <<x>>)
    BY <1>2, <1>6, Ending
  <1> HIDE DEF a, b, d, e, f, x
  <1>9. /\ Steps(a \o b) /\ \A c : InOrder(c, a \o b)
        /\ \A c : Has(c, a) => Has(c, a \o b)
    BY <1>2, <1>4, <1>7, QuietInOrder, ConcatInOrder, ConcatHas, StepsConcat DEF AllQuiet
  <1>10. /\ Steps((a \o b) \o d) /\ \A c : InOrder(c, (a \o b) \o d)
         /\ \A c : Has(c, a) => Has(c, (a \o b) \o d)
    BY <1>2, <1>9, QuietInOrder, ConcatInOrder, ConcatHas, StepsConcat DEF AllQuiet
  <1>11. PICK s : s = ((a \o b) \o d) \o e
    OBVIOUS
  <1>12. Steps(s) /\ (\A c : InOrder(c, s)) /\ \A c : Has(c, a) => Has(c, s)
    BY <1>3, <1>10, <1>11, QuietInOrder, ConcatInOrder, ConcatHas, StepsConcat DEF AllQuiet
  <1>13. Incentives = s \o (f \o <<x>>)
    BY <1>1, <1>11
  <1>14. Last(Incentives) = x
    <2>1. PICK w : w = s \o f
      OBVIOUS
    <2>2. Steps(w)
      BY <1>2, <1>12, <2>1, StepsConcat DEF AllQuiet
    <2>3. Incentives = w \o <<x>>
      BY <1>2, <1>12, <1>13, <2>1, One, StepsAssociative, SMTT(30) DEF AllQuiet
    <2> QED
      BY <2>2, <2>3, LastOfConcat
  <1>15. x = Record("Incentives")
    BY DEF x
  <1> QED
    BY <1>4, <1>8, <1>12, <1>13, <1>14, <1>15, ConcatInOrder, ConcatHas, StepsConcat

LEMMA TokensInOrder ==
    /\ Steps(TokensImplementations)
    /\ \A c \in Range(TokenImpls) : Has(c, TokensImplementations)
    /\ \A c : InOrder(c, TokensImplementations)
    /\ Last(TokensImplementations) = Record("TokenImplementations")
  <1> DEFINE pair(t) == <<Deploy(t), Initialize(t)>>
  <1>1. PICK parts : parts = [i \in DOMAIN TokenImpls |-> pair(TokenImpls[i])]
    OBVIOUS
  <1>2. Len(TokenImpls) = 4 /\ DOMAIN TokenImpls = 1 .. 4 /\ \A i \in 1 .. 4 : TokenImpls[i] # "Oracle"
    BY DEF TokenImpls
  <1>3. parts = [i \in 1 .. 4 |-> parts[i]] /\ \A i \in 1 .. 4 : parts[i] = pair(TokenImpls[i])
    BY <1>1, <1>2
  <1>4. Steps(parts) /\ Len(parts) = 4
    BY <1>3, StepsMap
  <1>5. parts # <<>>
    BY <1>4, StepsEmpty
  <1>6. ASSUME NEW t \in Range(TokenImpls)
        PROVE  AllQuiet(pair(t)) /\ Has(t, pair(t))
    <2>1. t # "Oracle"
      BY <1>2 DEF Range
    <2>2. AllQuiet(pair(t))
      BY <2>1, QuietForms, QuietTuple
    <2>3. Secures(t, Initialize(t))
      BY DEF Secures, Initialize, Seals
    <2>4. pair(t)[2] = Initialize(t) /\ 2 \in 1 .. Len(pair(t))
      OBVIOUS
    <2> QED
      BY <2>2, <2>3, <2>4 DEF Has
  <1>7. \A i \in 1 .. 4 : TokenImpls[i] \in Range(TokenImpls)
    BY <1>2 DEF Range
  <1> HIDE DEF pair
  <1>8. \A i \in 1 .. 4 : AllQuiet(parts[i]) /\ Has(TokenImpls[i], parts[i])
    BY <1>3, <1>6, <1>7
  <1>9. \A i \in 1 .. Len(parts) : Steps(parts[i]) /\ \A c : InOrder(c, parts[i])
    BY <1>4, <1>8, QuietInOrder DEF AllQuiet
  <1>10. PICK body : body = FlattenSeq(parts)
    OBVIOUS
  <1>11. /\ Steps(body) /\ \A c : InOrder(c, body)
         /\ \A c : \A i \in 1 .. 4 : Has(c, parts[i]) => Has(c, body)
    BY <1>4, <1>5, <1>9, <1>10, FlatInOrder
  <1>12. \A c \in Range(TokenImpls) : Has(c, body)
    BY <1>2, <1>8, <1>11 DEF Range
  <1>13. TokensImplementations = body \o <<Record("TokenImplementations")>>
    BY <1>1, <1>10 DEF TokensImplementations, pair
  <1>14. ASSUME NEW c, Uses(c, Record("TokenImplementations")) PROVE c \in Range(TokenImpls)
    BY <1>14 DEF Uses, Record, RecordedFor
  <1>15. Last(TokensImplementations) = Record("TokenImplementations")
    BY <1>11, <1>13, LastOfConcat
  <1> QED
    BY <1>11, <1>12, <1>13, <1>14, <1>15, One, StepsConcat, ConcatHas, ConcatInOrder

LEMMA InitReservesInOrder ==
    /\ Steps(InitReserves)
    /\ \A c : c \notin Grounds \cup {"Registry", "Provider", "ACLManager"} => InOrder(c, InitReserves)
  <1> DEFINE a == <<Deploy("RateStrategies"), Require("IncentivesProxy")>>
             x == [op |-> "read", on |-> "initReserves", treasury |-> TreasuryAddress]
             b == <<Read("configureReserves"), SavePoolTokens>>
             y == Record("ReservesInit")
  <1>1. InitReserves = (a \o <<x>>) \o (b \o <<y>>)
    BY DEF InitReserves
  <1>2. AllQuiet(a)
    BY QuietForms, QuietTuple
  <1>3. AllQuiet(b)
    <2>1. Quiet(Read("configureReserves"))
      BY QuietForms DEF ReadNames, BookedFor
    <2> QED
      BY <2>1, QuietForms, QuietTuple
  <1>4. \A c : Uses(c, x) => c \in Grounds
    BY DEF Uses, BookedFor, ReadNames
  <1>5. \A c : Uses(c, y) => c \in Grounds \cup {"Registry", "Provider", "ACLManager"}
    BY DEF Uses, Record, RecordedFor
  <1> HIDE DEF a, b, x, y
  <1>6. Steps(a \o <<x>>) /\ \A c : c \notin Grounds => InOrder(c, a \o <<x>>)
    BY <1>2, <1>4, Ending
  <1>7. /\ Steps(b \o <<y>>)
        /\ \A c : c \notin Grounds \cup {"Registry", "Provider", "ACLManager"}
               => InOrder(c, b \o <<y>>)
    BY <1>3, <1>5, Ending
  <1> QED
    BY <1>1, <1>6, <1>7, StepsConcat, ConcatInOrder

LEMMA PeripheryInOrder ==
    /\ Steps(InitPeriphery) /\ \A c : InOrder(c, InitPeriphery)
    /\ Steps(PeripheryPost) /\ \A c : InOrder(c, PeripheryPost)
  <1>1. AllQuiet(When(market.testnet, <<Deploy("MockFlashLoanReceiver")>>))
    <2>1. AllQuiet(<<Deploy("MockFlashLoanReceiver")>>) /\ AllQuiet(<<>>)
      BY QuietForms, One, StepsEmpty DEF AllQuiet
    <2> QED
      BY <2>1 DEF When
  <1>2. Quiet(Record("PeripheryInit"))
    BY QuietForms DEF RecordedFor
  <1>3. Steps(InitPeriphery) /\ \A c : InOrder(c, InitPeriphery)
    BY <1>1, <1>2, Ending DEF InitPeriphery, Quiet
  <1>4. AllQuiet(PeripheryPost)
    <2> DEFINE a == <<Require("PoolProxy"), Deploy("Gateway"), Deploy("WalletBalanceProvider")>>
               b == <<Deploy("UiIncentiveDataProvider"), Deploy("UiPoolDataProvider")>>
    <2>1. AllQuiet(a) /\ AllQuiet(b)
      BY QuietForms, QuietTuple
    <2>2. PeripheryPost = a \o b
      BY DEF PeripheryPost
    <2> HIDE DEF a, b
    <2> QED
      BY <2>1, <2>2, QuietConcat
  <1> QED
    BY <1>3, <1>4, QuietInOrder DEF AllQuiet

-----------------------------------------------------------------------------
(* Choosing elements of a sequence. *)

IsAmong(g, as, S, n) ==
    g = [i \in 0 .. n |-> IF i = 0 THEN <<>> ELSE g[i - 1] \o When(as[i] \in S, <<as[i]>>)]

LEMMA AmongLonger ==
    ASSUME NEW as, NEW S, NEW k \in Nat, NEW g, IsAmong(g, as, S, k)
    PROVE  \E h : IsAmong(h, as, S, k + 1)
  <1>1. PICK more : more = [i \in 1 .. k + 1 |-> When(as[i] \in S, <<as[i]>>)]
    OBVIOUS
  <1>2. PICK h : h = [i \in 0 .. k + 1 |-> IF i = k + 1 THEN g[k] \o more[i] ELSE g[i]]
    OBVIOUS
  <1>3. \A i \in 1 .. k + 1 : more[i] = When(as[i] \in S, <<as[i]>>)
    BY <1>1
  <1>4. ASSUME NEW i \in 0 .. k
        PROVE  g[i] = IF i = 0 THEN <<>> ELSE g[i - 1] \o more[i]
    <2>1. g[i] = IF i = 0 THEN <<>> ELSE g[i - 1] \o When(as[i] \in S, <<as[i]>>)
      BY DEF IsAmong
    <2>2. i # 0 => i \in 1 .. k + 1
      OBVIOUS
    <2> QED
      BY ONLY <2>1, <2>2, <1>3
  <1>5. /\ \A i \in 0 .. k : h[i] = g[i]
        /\ h[k + 1] = g[k] \o more[k + 1]
        /\ h = [i \in 0 .. k + 1 |-> h[i]]
    BY ONLY <1>2, k \in Nat
  <1>6. ASSUME NEW i \in 0 .. k + 1
        PROVE  h[i] = IF i = 0 THEN <<>> ELSE h[i - 1] \o more[i]
    <2>1. CASE i = k + 1
      <3>1. k \in 0 .. k /\ i # 0 /\ i - 1 = k
        BY ONLY <2>1, k \in Nat
      <3>2. h[k] = g[k]
        BY ONLY <3>1, <1>5
      <3> QED
        BY ONLY <2>1, <3>1, <3>2, <1>5
    <2>2. CASE i # k + 1
      <3>1. i \in 0 .. k /\ (i # 0 => i - 1 \in 0 .. k)
        BY <2>2
      <3> QED
        BY <3>1, <1>4, <1>5
    <2> QED
      BY <2>1, <2>2
  <1>7. h = [i \in 0 .. k + 1 |-> IF i = 0 THEN <<>> ELSE h[i - 1] \o more[i]]
    BY <1>5, <1>6
  <1>8. IsAmong(h, as, S, k + 1)
    <2>1. ASSUME NEW i \in 0 .. k + 1
          PROVE  (IF i = 0 THEN <<>> ELSE h[i - 1] \o more[i])
                 = (IF i = 0 THEN <<>> ELSE h[i - 1] \o When(as[i] \in S, <<as[i]>>))
      <3>1. i # 0 => i \in 1 .. k + 1
        OBVIOUS
      <3> QED
        BY ONLY <3>1, <1>3
    <2> QED
      BY ONLY <1>7, <2>1 DEF IsAmong
  <1> QED
    BY <1>8

LEMMA AmongExists ==
    ASSUME NEW as, NEW S, NEW n \in Nat
    PROVE  \E g : IsAmong(g, as, S, n)
  <1> DEFINE Good == {k \in Nat : \E g : IsAmong(g, as, S, k)}
  <1>1. 0 \in Good
    <2>1. IsAmong([i \in 0 .. 0 |-> <<>>], as, S, 0)
      BY DEF IsAmong
    <2> QED
      BY <2>1
  <1>2. ASSUME NEW k \in Nat, k \in Good PROVE k + 1 \in Good
    <2>1. PICK g : IsAmong(g, as, S, k)
      BY <1>2
    <2>2. \E h : IsAmong(h, as, S, k + 1)
      BY <2>1, AmongLonger
    <2>3. k + 1 \in Nat
      OBVIOUS
    <2> QED
      BY ONLY <2>2, <2>3
  <1>3. Nat \subseteq Good
    <2> HIDE DEF Good
    <2> QED
      BY <1>1, <1>2, CountingUp
  <1> QED
    BY <1>3

\* The value v of Among for the first k elements of as.
AmongFirst(v, as, S, T, k) ==
    /\ v \in Seq(T)
    /\ \A i \in 1 .. Len(v) : v[i] \in S /\ \E j \in 1 .. k : v[i] = as[j]
    /\ \A j \in 1 .. k : as[j] \in S => \E i \in 1 .. Len(v) : v[i] = as[j]

LEMMA AmongTaken ==
    ASSUME NEW T, NEW as, NEW S, NEW k \in Nat, NEW v, NEW x \in T \cap S, x = as[k + 1],
           AmongFirst(v, as, S, T, k)
    PROVE  AmongFirst(v \o <<x>>, as, S, T, k + 1)
  <1>1. PICK t : t = <<x>>
    OBVIOUS
  <1>2. PICK w : w = v \o t
    OBVIOUS
  <1>3. v \in Seq(T) /\ Len(v) \in Nat
    BY LenProperties DEF AmongFirst
  <1>4. t \in Seq(T) /\ Len(t) = 1 /\ t[1] = x
    BY ONLY <1>1, x \in T \cap S
  <1>5. w \in Seq(T)
    BY <1>2, <1>3, <1>4, ConcatProperties
  <1>6. /\ Len(w) = Len(v) + 1
        /\ \A i \in 1 .. Len(v) : w[i] = v[i]
        /\ w[Len(v) + 1] = x
    BY ONLY <1>2, <1>3, <1>4, StepsConcat DEF Steps
  <1>7. \A j \in 1 .. k + 1 : j \in 1 .. k \/ j = k + 1
    OBVIOUS
  <1>8. k + 1 \in 1 .. k + 1 /\ \A j \in 1 .. k : j \in 1 .. k + 1
    OBVIOUS
  <1>9. /\ \A i \in 1 .. Len(v) : v[i] \in S /\ \E j \in 1 .. k : v[i] = as[j]
        /\ \A j \in 1 .. k : as[j] \in S => \E i \in 1 .. Len(v) : v[i] = as[j]
    BY DEF AmongFirst
  <1>10. ASSUME NEW i \in 1 .. Len(v) + 1
         PROVE  w[i] \in S /\ \E j \in 1 .. k + 1 : w[i] = as[j]
    <2>1. i \in 1 .. Len(v) \/ i = Len(v) + 1
      BY ONLY <1>3, i \in 1 .. Len(v) + 1
    <2>2. CASE i \in 1 .. Len(v)
      BY ONLY <1>6, <1>8, <1>9, <2>2
    <2>3. CASE i = Len(v) + 1
      BY ONLY <1>6, <1>8, <2>3, x \in T \cap S, x = as[k + 1]
    <2> QED
      BY ONLY <2>1, <2>2, <2>3
  <1>11. ASSUME NEW j \in 1 .. k + 1, as[j] \in S
         PROVE  \E i \in 1 .. Len(v) + 1 : w[i] = as[j]
    <2>1. CASE j \in 1 .. k
      <3>1. PICK i \in 1 .. Len(v) : v[i] = as[j]
        BY ONLY <1>9, <1>11, <2>1
      <3>2. w[i] = as[j]
        BY ONLY <1>6, <3>1, i \in 1 .. Len(v)
      <3>3. i \in 1 .. Len(v) + 1
        BY ONLY <1>3, i \in 1 .. Len(v)
      <3> QED
        BY ONLY <3>2, <3>3
    <2>2. CASE j = k + 1
      <3>1. Len(v) + 1 \in 1 .. Len(v) + 1 /\ w[Len(v) + 1] = as[j]
        BY ONLY <1>3, <1>6, <2>2, x = as[k + 1]
      <3> QED
        BY ONLY <3>1
    <2> QED
      BY <1>7, <2>1, <2>2
  <1>12. AmongFirst(w, as, S, T, k + 1)
    BY ONLY <1>5, <1>6, <1>10, <1>11 DEF AmongFirst
  <1> QED
    BY ONLY <1>1, <1>2, <1>12

LEMMA AmongLeft ==
    ASSUME NEW T, NEW as, NEW S, NEW k \in Nat, NEW v, as[k + 1] \notin S,
           AmongFirst(v, as, S, T, k)
    PROVE  AmongFirst(v, as, S, T, k + 1)
  <1>1. \A j \in 1 .. k + 1 : j \in 1 .. k \/ j = k + 1
    OBVIOUS
  <1>2. \A j \in 1 .. k : j \in 1 .. k + 1
    OBVIOUS
  <1> QED
    BY ONLY <1>1, <1>2, as[k + 1] \notin S, AmongFirst(v, as, S, T, k) DEF AmongFirst

LEMMA AmongElements ==
    ASSUME NEW T, NEW as \in Seq(T), NEW S
    PROVE  AmongFirst(Among(as, S), as, S, T, Len(as))
  <1>1. PICK n \in Nat : n = Len(as) /\ \A i \in 1 .. n : as[i] \in T
    BY LenProperties
  <1>2. PICK g : g = CHOOSE e : IsAmong(e, as, S, n)
    OBVIOUS
  <1>3. IsAmong(g, as, S, n)
    BY <1>2, AmongExists
  <1>4. Among(as, S) = g[n]
    BY <1>1, <1>2 DEF Among, IsAmong
  <1> DEFINE Good == {k \in Nat : k \in 0 .. n => AmongFirst(g[k], as, S, T, k)}
  <1>5. 0 \in Good
    <2>1. g[0] = <<>>
      BY <1>3 DEF IsAmong
    <2>2. <<>> \in Seq(T) /\ Len(<<>>) = 0
      BY EmptySeq
    <2>3. 1 .. 0 = {}
      OBVIOUS
    <2>4. AmongFirst(<<>>, as, S, T, 0)
      BY ONLY <2>2, <2>3 DEF AmongFirst
    <2> QED
      BY ONLY <2>1, <2>4
  <1>6. ASSUME NEW k \in Nat, k \in Good PROVE k + 1 \in Good
    <2>0. k + 1 \in Nat
      OBVIOUS
    <2> SUFFICES ASSUME k + 1 \in 0 .. n PROVE AmongFirst(g[k + 1], as, S, T, k + 1)
      BY <2>0
    <2>1. k \in 0 .. n /\ k + 1 \in 1 .. n /\ k + 1 # 0 /\ (k + 1) - 1 = k
      OBVIOUS
    <2>2. AmongFirst(g[k], as, S, T, k)
      BY <1>6, <2>1
    <2>3. g[k + 1] = g[k] \o When(as[k + 1] \in S, <<as[k + 1]>>)
      BY <1>3, <2>1 DEF IsAmong
    <2>4. as[k + 1] \in T
      BY <1>1, <2>1
    <2>5. CASE as[k + 1] \in S
      <3>1. g[k + 1] = g[k] \o <<as[k + 1]>>
        BY <2>3, <2>5 DEF When
      <3>2. as[k + 1] \in T \cap S
        BY <2>4, <2>5
      <3> QED
        BY ONLY k \in Nat, <2>2, <3>1, <3>2, AmongTaken
    <2>6. CASE as[k + 1] \notin S
      <3>1. g[k] \in Seq(T)
        BY <2>2 DEF AmongFirst
      <3>2. g[k + 1] = g[k]
        BY <2>3, <2>6, <3>1, ConcatEmptySeq DEF When
      <3> QED
        BY ONLY k \in Nat, <2>2, <2>6, <3>2, AmongLeft
    <2> QED
      BY <2>5, <2>6
  <1>7. Nat \subseteq Good
    <2> HIDE DEF Good
    <2> QED
      BY <1>5, <1>6, CountingUp
  <1>8. AmongFirst(g[n], as, S, T, n)
    <2>1. n \in 0 .. n
      OBVIOUS
    <2>2. n \in Good
      <3> HIDE DEF Good
      <3> QED
        BY <1>7
    <2> QED
      BY <2>1, <2>2
  <1> QED
    BY <1>1, <1>4, <1>8

LEMMA AmongRange ==
    ASSUME NEW T, NEW as \in Seq(T), NEW S
    PROVE  Among(as, S) \in Seq(T) /\ Range(Among(as, S)) = Range(as) \cap S
  <1>1. PICK v : v = Among(as, S)
    OBVIOUS
  <1>2. AmongFirst(v, as, S, T, Len(as))
    BY <1>1, AmongElements
  <1>3. v \in Seq(T) /\ DOMAIN v = 1 .. Len(v) /\ DOMAIN as = 1 .. Len(as)
    BY <1>2, LenProperties DEF AmongFirst
  <1>4. /\ \A i \in 1 .. Len(v) : v[i] \in S /\ \E j \in 1 .. Len(as) : v[i] = as[j]
        /\ \A j \in 1 .. Len(as) : as[j] \in S => \E i \in 1 .. Len(v) : v[i] = as[j]
    BY ONLY <1>2 DEF AmongFirst
  <1>5. /\ Range(v) = {v[i] : i \in 1 .. Len(v)}
        /\ Range(as) = {as[i] : i \in 1 .. Len(as)}
    BY ONLY <1>3 DEF Range
  <1>6. Range(v) = Range(as) \cap S
    BY ONLY <1>4, <1>5
  <1> QED
    BY <1>1, <1>3, <1>6

-----------------------------------------------------------------------------
(* The tasks. *)

LEMMA PutsQuiet ==
    ASSUME NEW kind, NEW as, Steps(as)
    PROVE  AllQuiet(Puts(kind, as))
  <1>1. Len(as) \in Nat /\ DOMAIN as = 1 .. Len(as)
    BY StepsShape
  <1>2. PICK f : f = Puts(kind, as)
    OBVIOUS
  <1>3. f = [i \in 1 .. Len(as) |-> Put(kind, as[i], "POOL_ADMIN")]
    BY <1>1, <1>2 DEF Puts
  <1>4. /\ f = [i \in 1 .. Len(as) |-> f[i]]
        /\ \A i \in 1 .. Len(as) : f[i] = Put(kind, as[i], "POOL_ADMIN")
    BY <1>3
  <1>5. Steps(f) /\ Len(f) = Len(as)
    BY <1>1, <1>4, StepsMap
  <1> QED
    BY <1>2, <1>4, <1>5, QuietForms DEF AllQuiet

LEMMA PutsAmongQuiet ==
    ASSUME NEW kind, NEW S, config \in Seq(Assets)
    PROVE  AllQuiet(Puts(kind, Among(config, S)))
  BY AmongRange, PutsQuiet DEF Steps

LEMMA QuietReads ==
    \A c \in {"configureReserves", "review-stable-borrow", "upgrade-rstokens", "ACLAdmin",
              "renounce-pool-admin", "DataProvider", "PriceOracle"} \cup Roles \cup Ownable :
        Quiet(Read(c))
  <1>1. ASSUME NEW c \in {"configureReserves", "review-stable-borrow", "upgrade-rstokens", "ACLAdmin",
              "renounce-pool-admin", "DataProvider", "PriceOracle"} \cup Roles \cup Ownable
        PROVE  c \in ReadNames /\ c # "initReserves" /\ \A d : <<c, d>> \notin BookedFor
    BY DEF ReadNames, BookedFor, Roles, Ownable
  <1> QED
    BY <1>1, QuietForms

LEMMA TransferInOrder ==
    /\ Steps(TransferProtocolOwnership)
    /\ \A c : c \notin {"Registry", "Provider", "ACLManager", "transfer"} => InOrder(c, TransferProtocolOwnership)
  <1> DEFINE a == <<Require("Gateway"), Require("EmissionManager"),
                    Require("ParaSwapLiquiditySwapAdapter"), Require("ParaSwapRepayAdapter")>>
             b == <<Check("marketOwner"), Read("EMERGENCY_ADMIN"), Read("POOL_ADMIN"),
                    Read("ACLAdmin")>>
             d == <<Read("Provider"), Read("Registry"), Read("Gateway"), Read("EmissionManager")>>
             e == <<Read("DEFAULT_ADMIN")>>
             x == End("transfer")
  <1>1. TransferProtocolOwnership = ((a \o b) \o d) \o (e \o <<x>>)
    BY DEF TransferProtocolOwnership
  <1>2. AllQuiet(a)
    BY QuietForms, QuietTuple
  <1>3. AllQuiet(b)
    <2>1. Quiet(Read("EMERGENCY_ADMIN")) /\ Quiet(Read("POOL_ADMIN")) /\ Quiet(Read("ACLAdmin"))
      BY QuietReads DEF Roles
    <2> QED
      BY <2>1, QuietForms, QuietTuple
  <1>4. AllQuiet(d)
    <2>1. /\ Quiet(Read("Provider")) /\ Quiet(Read("Registry")) /\ Quiet(Read("Gateway"))
          /\ Quiet(Read("EmissionManager"))
      BY QuietReads DEF Ownable
    <2> QED
      BY <2>1, QuietTuple
  <1>5. AllQuiet(e)
    BY QuietReads, One DEF Roles
  <1>6. Has("Gateway", a) /\ Has("EmissionManager", a)
    BY DEF Has, Secures, Require, Deployed, Ownable
  <1>7. \A c : Uses(c, x) => c \in Deployed \cup {"transfer"}
    BY DEF Uses, End
  <1> HIDE DEF a, b, d, e, x
  <1>8. PICK s : s = (a \o b) \o d
    OBVIOUS
  <1>9. AllQuiet(s) /\ Has("Gateway", s) /\ Has("EmissionManager", s)
    BY <1>2, <1>3, <1>4, <1>6, <1>8, QuietConcat, ConcatHas DEF AllQuiet
  <1>10. Steps(e \o <<x>>) /\ \A c : c \notin Deployed \cup {"transfer"} => InOrder(c, e \o <<x>>)
    BY <1>5, <1>7, Ending
  <1>11. TransferProtocolOwnership = s \o (e \o <<x>>)
    BY <1>1, <1>8
  <1>12. Deployed = {"Registry", "Provider", "ACLManager", "Gateway", "EmissionManager"}
    BY DEF Deployed, Ownable
  <1> QED
    BY <1>9, <1>10, <1>11, <1>12, QuietInOrder, ConcatInOrder, StepsConcat DEF AllQuiet

LEMMA RunTransferInOrder ==
    /\ Steps(TransferProtocolOwnership \o RenouncePoolAdmin)
    /\ \A c : c \notin {"Registry", "Provider", "ACLManager", "transfer"}
           => InOrder(c, TransferProtocolOwnership \o RenouncePoolAdmin)
  <1>1. AllQuiet(RenouncePoolAdmin)
    BY QuietReads, One DEF RenouncePoolAdmin
  <1> QED
    BY <1>1, TransferInOrder, QuietInOrder, ConcatInOrder, StepsConcat DEF AllQuiet

\* What deploy runs after the scripts, but for the handover.
LEMMA AfterDeployForm ==
    ASSUME NEW transfer, config \in Seq(Assets)
    PROVE  \E s : /\ AllQuiet(s)
                 /\ AfterDeploy(transfer)
                    = (s \o When(transfer, TransferProtocolOwnership \o RenouncePoolAdmin))
                      \o <<End("deploy")>>
  <1>1. PICK r : r = <<Read("review-stable-borrow")>>
    OBVIOUS
  <1>2. PICK u : u = When(market.testnet, <<Put("unpaused", "Pool", "POOL_ADMIN")>>)
    OBVIOUS
  <1>3. AllQuiet(r)
    BY <1>1, QuietReads, One
  <1>4. AllQuiet(SetupDebtCeiling) /\ AllQuiet(SetupIsolationMode)
        /\ AllQuiet(SetupLiquidationProtocolFee)
    <2>1. AllQuiet(<<Check("reserveAddress")>>)
      BY QuietForms, One
    <2> QED
      BY <2>1, PutsAmongQuiet, QuietConcat
         DEF SetupDebtCeiling, SetupIsolationMode, SetupLiquidationProtocolFee, Wanted
  <1>5. AllQuiet(SetupEModes)
    <2>1. AllQuiet(<<Put("category", "Pool", "POOL_ADMIN")>>)
      BY QuietForms, One
    <2> QED
      BY <2>1, PutsAmongQuiet, QuietConcat DEF SetupEModes, Wanted
  <1>6. AllQuiet(u)
    <2>1. AllQuiet(<<Put("unpaused", "Pool", "POOL_ADMIN")>>)
      BY QuietForms, One
    <2>2. AllQuiet(<<>>)
      BY StepsEmpty DEF AllQuiet
    <2> QED
      BY <1>2, <2>1, <2>2 DEF When
  <1>7. PICK s : s = ((((r \o SetupDebtCeiling) \o SetupIsolationMode) \o SetupEModes)
                         \o SetupLiquidationProtocolFee) \o u
    OBVIOUS
  <1>8. AllQuiet(s)
    BY <1>3, <1>4, <1>5, <1>6, <1>7, QuietConcat
  <1>9. AfterDeploy(transfer)
        = (s \o When(transfer, TransferProtocolOwnership \o RenouncePoolAdmin)) \o <<End("deploy")>>
    BY <1>1, <1>2, <1>7 DEF AfterDeploy
  <1> QED
    BY <1>8, <1>9

LEMMA AfterDeployInOrder ==
    ASSUME NEW transfer, config \in Seq(Assets)
    PROVE  /\ Steps(AfterDeploy(transfer))
           /\ \A c : c \notin {"Registry", "Provider", "ACLManager", "transfer"}
                  => InOrder(c, AfterDeploy(transfer))
  <1>1. PICK e : e = When(transfer, TransferProtocolOwnership \o RenouncePoolAdmin)
    OBVIOUS
  <1>2. PICK s : AllQuiet(s) /\ AfterDeploy(transfer) = (s \o e) \o <<End("deploy")>>
    BY <1>1, AfterDeployForm
  <1>3. AllQuiet(<<>>)
    BY StepsEmpty DEF AllQuiet
  <1>4. /\ Steps(e)
        /\ \A c : c \notin {"Registry", "Provider", "ACLManager", "transfer"} => InOrder(c, e)
    BY <1>1, <1>3, RunTransferInOrder, QuietInOrder DEF When, AllQuiet
  <1>5. AllQuiet(<<End("deploy")>>)
    BY QuietForms, One
  <1>6. /\ Steps(s \o e)
        /\ \A c : c \notin {"Registry", "Provider", "ACLManager", "transfer"} => InOrder(c, s \o e)
    BY <1>2, <1>4, QuietInOrder, ConcatInOrder, StepsConcat DEF AllQuiet
  <1>7. PICK b, d : b = s \o e /\ d = <<End("deploy")>>
    OBVIOUS
  <1>8. Steps(d) /\ \A c : InOrder(c, d)
    BY <1>5, <1>7, QuietInOrder DEF AllQuiet
  <1>9. AfterDeploy(transfer) = b \o d
    BY <1>2, <1>7
  <1> QED
    BY <1>6, <1>7, <1>8, <1>9, ConcatInOrder, StepsConcat

LEMMA AddReservesInOrder ==
    Steps(AddReserves) /\ \A c : c \notin Grounds => InOrder(c, AddReserves)
  <1> DEFINE a == <<Require("IncentivesProxy"), Require("DataProvider"), Require("Oracle")>>
             x == [op |-> "read", on |-> "initReserves", treasury |-> market.treasury]
             b == <<Read("configureReserves"), SetSources, SavePoolTokens, End("add-reserves")>>
  <1>1. AddReserves = (a \o <<x>>) \o b
    BY DEF AddReserves
  <1>2. AllQuiet(a)
    BY QuietForms, QuietTuple
  <1>3. AllQuiet(b)
    BY QuietReads, QuietForms, QuietTuple
  <1>4. \A c : Uses(c, x) => c \in Grounds
    BY DEF Uses, BookedFor, ReadNames
  <1> HIDE DEF a, b, x
  <1>5. Steps(a \o <<x>>) /\ \A c : c \notin Grounds => InOrder(c, a \o <<x>>)
    BY <1>2, <1>4, Ending
  <1> QED
    BY <1>1, <1>3, <1>5, QuietInOrder, ConcatInOrder, StepsConcat DEF AllQuiet

LEMMA UpgradeInOrder ==
    Steps(UpgradeRSTokens) /\ \A c : c # "upgrade" => InOrder(c, UpgradeRSTokens)
  <1> DEFINE s == <<Deploy("NextRSToken"), Read("upgrade-rstokens")>>
             x == End("upgrade")
  <1>1. UpgradeRSTokens = s \o <<x>>
    BY DEF UpgradeRSTokens
  <1>2. AllQuiet(s)
    BY QuietForms, QuietReads, QuietTuple
  <1>3. \A c : Uses(c, x) => c = "upgrade"
    BY DEF Uses, End
  <1> HIDE DEF s, x
  <1> QED
    BY <1>1, <1>2, <1>3, Ending

-----------------------------------------------------------------------------
(* The scripts one after another, without those that are skipped. *)

Skipping(R) == [i \in 1 .. 17 |-> IF i \in R THEN <<>> ELSE Scripts[i]]

LEMMA ScriptNames ==
    /\ Scripts[1] = MarketsRegistry /\ Scripts[2] = LogicLibraries
    /\ Scripts[3] = TreasuryScript /\ Scripts[4] = TokenSetup
    /\ Scripts[5] = SetupAddressesProvider /\ Scripts[6] = PriceAggregatorsSetup
    /\ Scripts[7] = PoolImplementation /\ Scripts[8] = PoolConfiguratorScript
    /\ Scripts[9] = InitACL /\ Scripts[10] = DeployOracles
    /\ Scripts[11] = InitOracles /\ Scripts[12] = InitPool
    /\ Scripts[13] = Incentives /\ Scripts[14] = TokensImplementations
    /\ Scripts[15] = InitReserves /\ Scripts[16] = InitPeriphery
    /\ Scripts[17] = PeripheryPost
    /\ Len(Scripts) = 17 /\ Scripts = [i \in 1 .. 17 |-> Scripts[i]]
  BY DEF Scripts

\* Where each thing is secured.
SecuredAt(c) == CASE c = "Registry" -> 1
                  [] c \in {"addresses", "Provider"} -> 5
                  [] c = "PoolImpl" -> 7
                  [] c = "ConfiguratorImpl" -> 8
                  [] c = "ACLManager" -> 9
                  [] c = "Oracle" -> 10
                  [] c = "PriceOracle" -> 11
                  [] c \in {"IncentivesImpl", "EmissionManager"} -> 13
                  [] c \in Range(TokenImpls) -> 14

Early == {"addresses", "PoolImpl", "ConfiguratorImpl", "Registry", "Provider", "ACLManager"}
         \cup Grounds

LEMMA TokenNames == Range(TokenImpls) = {"RSToken", "DelegationAwareRSToken",
                                         "StableDebtToken", "VariableDebtToken"}
  <1>1. /\ DOMAIN TokenImpls = 1 .. 4
        /\ TokenImpls[1] = "RSToken" /\ TokenImpls[2] = "DelegationAwareRSToken"
        /\ TokenImpls[3] = "StableDebtToken" /\ TokenImpls[4] = "VariableDebtToken"
    BY DEF TokenImpls
  <1> QED
    BY <1>1 DEF Range

LEMMA SecuredAtValues ==
    /\ SecuredAt("addresses") = 5 /\ SecuredAt("PoolImpl") = 7
    /\ SecuredAt("ConfiguratorImpl") = 8 /\ SecuredAt("Registry") = 1
    /\ SecuredAt("Provider") = 5 /\ SecuredAt("ACLManager") = 9
    /\ SecuredAt("Oracle") = 10 /\ SecuredAt("PriceOracle") = 11
    /\ \A c \in Range(TokenImpls) : SecuredAt(c) = 14
  BY TokenNames DEF SecuredAt

LEMMA ScriptsInOrder ==
    ASSUME config \in Seq(Assets), NEW i \in 1 .. 17
    PROVE  /\ Steps(Scripts[i])
           /\ \A c : c \notin Early => InOrder(c, Scripts[i])
           /\ \A c \in Early : i <= SecuredAt(c) => InOrder(c, Scripts[i])
  <1>1. \A c \in Early : SecuredAt(c) \in 1 .. 14
    BY TokenNames DEF Early, Grounds, SecuredAt
  <1>2. \A c : c \in Early /\ i <= SecuredAt(c) => i <= 14
    BY <1>1
  <1>3. CASE i \notin {10, 12, 15}
    <2>1. Steps(Scripts[i]) /\ \A c : InOrder(c, Scripts[i])
      BY <1>3, ScriptNames, MarketsRegistryInOrder, LogicLibrariesInOrder, TreasuryInOrder,
         TokenSetupInOrder, AddressesProviderInOrder, PriceAggregatorsInOrder,
         PoolImplementationInOrder, ConfiguratorInOrder, InitACLInOrder,
         InitOraclesInOrder, IncentivesInOrder, TokensInOrder, PeripheryInOrder
    <2> QED
      BY <2>1
  <1>4. CASE i = 10
    <2>1. SecuredAt("addresses") = 5 /\ "addresses" \in Early
      BY SecuredAtValues DEF Early
    <2> QED
      BY <1>4, <2>1, ScriptNames, OraclesInOrder
  <1>5. CASE i = 12
    <2>1. SecuredAt("PoolImpl") = 7 /\ SecuredAt("ConfiguratorImpl") = 8
          /\ "PoolImpl" \in Early /\ "ConfiguratorImpl" \in Early
      BY SecuredAtValues DEF Early
    <2> QED
      BY <1>5, <2>1, ScriptNames, InitPoolInOrder, SMTT(30)
  <1>6. CASE i = 15
    BY <1>2, <1>6, ScriptNames, InitReservesInOrder DEF Early
  <1> QED
    BY <1>3, <1>4, <1>5, <1>6

LEMMA SecuringScripts ==
    \A c \in Early : SecuredAt(c) \in 1 .. 14 /\ Has(c, Scripts[SecuredAt(c)])
  <1> SUFFICES ASSUME NEW c \in Early
               PROVE  SecuredAt(c) \in 1 .. 14 /\ Has(c, Scripts[SecuredAt(c)])
    OBVIOUS
  <1>1. CASE c \in Range(TokenImpls)
    <2>1. SecuredAt(c) = 14
      BY <1>1, SecuredAtValues
    <2> QED
      BY <1>1, <2>1, ScriptNames, TokensInOrder
  <1>2. CASE c \notin Range(TokenImpls)
    <2>1. c \in {"addresses", "PoolImpl", "ConfiguratorImpl", "Registry", "Provider",
                 "ACLManager", "Oracle", "PriceOracle"}
      BY <1>2 DEF Early, Grounds
    <2> QED
      BY <2>1, ScriptNames, MarketsRegistryInOrder, AddressesProviderInOrder,
         PoolImplementationInOrder, ConfiguratorInOrder, InitACLInOrder, OraclesInOrder,
         InitOraclesInOrder, SecuredAtValues
  <1> QED
    BY <1>1, <1>2

LEMMA SkippingInOrder ==
    ASSUME NEW R, config \in Seq(Assets), NEW c, c \in Early => SecuredAt(c) \notin R
    PROVE  /\ InOrder(c, FlattenSeq(Skipping(R)))
           /\ c \in Early => Has(c, FlattenSeq(Skipping(R)))
  <1>1. PICK parts : parts = Skipping(R)
    OBVIOUS
  <1>2. parts = [i \in 1 .. 17 |-> parts[i]]
        /\ \A i \in 1 .. 17 : parts[i] = IF i \in R THEN <<>> ELSE Scripts[i]
    BY <1>1 DEF Skipping
  <1>3. Steps(parts) /\ Len(parts) = 17
    BY <1>2, StepsMap
  <1>4. parts # <<>>
    <2>1. parts = <<>> => Len(parts) = 0
      BY StepsEmpty
    <2> QED
      BY <1>3, <2>1
  <1>5. Steps(<<>>) /\ InOrder(c, <<>>)
    BY StepsEmpty DEF InOrder
  <1>6. \A i \in 1 .. 17 : Steps(parts[i])
    BY <1>2, <1>5, ScriptsInOrder
  <1>7. c \in Early => SecuredAt(c) \in 1 .. 17 /\ Has(c, parts[SecuredAt(c)])
    BY <1>2, SecuringScripts
  <1>8. ASSUME NEW i \in 1 .. 17
        PROVE  InOrder(c, parts[i]) \/ \E h \in 1 .. (i - 1) : Has(c, parts[h])
    <2>1. CASE c \in Early /\ ~(i <= SecuredAt(c))
      <3>1. SecuredAt(c) \in 1 .. (i - 1)
        BY <1>7, <2>1
      <3> QED
        BY <1>7, <2>1, <3>1
    <2>2. CASE c \notin Early \/ i <= SecuredAt(c)
      BY <1>2, <1>5, <2>2, ScriptsInOrder
    <2> QED
      BY <2>1, <2>2
  <1>9. /\ InOrder(c, FlattenSeq(parts))
        /\ \A h \in 1 .. 17 : Has(c, parts[h]) => Has(c, FlattenSeq(parts))
    BY <1>3, <1>4, <1>6, <1>8, FlatInOrder
  <1> QED
    BY <1>1, <1>7, <1>9

LEMMA SkippingSteps ==
    ASSUME NEW R, config \in Seq(Assets)
    PROVE  Steps(FlattenSeq(Skipping(R)))
  <1>1. PICK parts : parts = Skipping(R)
    OBVIOUS
  <1>2. parts = [i \in 1 .. 17 |-> parts[i]]
        /\ \A i \in 1 .. 17 : parts[i] = IF i \in R THEN <<>> ELSE Scripts[i]
    BY <1>1 DEF Skipping
  <1>3. Steps(parts) /\ Len(parts) = 17
    BY <1>2, StepsMap
  <1>4. parts # <<>>
    <2>1. parts = <<>> => Len(parts) = 0
      BY StepsEmpty
    <2> QED
      BY <1>3, <2>1
  <1>5. \A i \in 1 .. 17 : Steps(parts[i]) /\ InOrder("nothing", parts[i])
    <2>1. Steps(<<>>) /\ InOrder("nothing", <<>>)
      BY StepsEmpty DEF InOrder
    <2>2. "nothing" \notin Early
      BY TokenNames DEF Early, Grounds
    <2> QED
      BY <1>2, <2>1, <2>2, ScriptsInOrder
  <1> QED
    BY <1>1, <1>3, <1>4, <1>5, FlatInOrder

LEMMA RecordOf ==
    ASSUME config \in Seq(Assets), NEW c \in Early, Recorded(Scripts[SecuredAt(c)])
    PROVE  \E m \in migrations : <<m, c>> \in RecordedFor
  <1>1. PICK s : s = Scripts[SecuredAt(c)]
    OBVIOUS
  <1>2. Last(s).op = "record" /\ Last(s).on \in migrations
    BY <1>1 DEF Recorded
  <1>3. CASE c \in Range(TokenImpls)
    <2>1. Last(s).on = "TokenImplementations"
      BY <1>1, <1>3, SecuredAtValues, ScriptNames, TokensInOrder DEF Record
    <2>2. <<"TokenImplementations", c>> \in RecordedFor
      BY <1>3 DEF RecordedFor
    <2> QED
      BY <1>2, <2>1, <2>2
  <1>4. CASE c = "Oracle"
    <2>1. Last(s).on = "Oracles"
      BY <1>1, <1>4, SecuredAtValues, ScriptNames, OraclesInOrder DEF Record
    <2>2. <<"Oracles", c>> \in RecordedFor
      BY <1>4 DEF RecordedFor
    <2> QED
      BY <1>2, <2>1, <2>2
  <1>5. CASE c = "PriceOracle"
    <2>1. s = InitOracles
      BY <1>1, <1>5, SecuredAtValues, ScriptNames
    <2>2. Last(s).on = "InitOracles"
      BY <2>1 DEF InitOracles, Last, Record
    <2>3. <<"InitOracles", c>> \in RecordedFor
      BY <1>5 DEF RecordedFor
    <2> QED
      BY <1>2, <2>2, <2>3
  <1>6. CASE c = "ACLManager"
    <2>1. s = InitACL
      BY <1>1, <1>6, SecuredAtValues, ScriptNames
    <2>2. Last(s).on = "ACLManager"
      BY <2>1 DEF InitACL, Last, Record
    <2>3. <<"ACLManager", c>> \in RecordedFor
      BY <1>6 DEF RecordedFor
    <2> QED
      BY <1>2, <2>2, <2>3
  <1>7. CASE c = "Registry"
    <2>1. s = MarketsRegistry
      BY <1>1, <1>7, SecuredAtValues, ScriptNames
    <2>2. Last(s).on = "PoolAddressesProviderRegistry"
      BY <2>1 DEF MarketsRegistry, Last, Record
    <2>3. <<"PoolAddressesProviderRegistry", c>> \in RecordedFor
      BY <1>7 DEF RecordedFor
    <2> QED
      BY <1>2, <2>2, <2>3
  <1>8. CASE c \in {"Provider", "addresses"}
    <2>1. s = SetupAddressesProvider
      BY <1>1, <1>8, SecuredAtValues, ScriptNames
    <2>2. Last(s).on = "PoolAddressesProvider"
      BY <2>1 DEF SetupAddressesProvider, Last, Record
    <2>3. <<"PoolAddressesProvider", c>> \in RecordedFor
      BY <1>8 DEF RecordedFor
    <2> QED
      BY <1>2, <2>2, <2>3
  <1>9. CASE c = "ConfiguratorImpl"
    <2>1. s = PoolConfiguratorScript
      BY <1>1, <1>9, SecuredAtValues, ScriptNames
    <2>2. Last(s).on = "PoolConfigurator"
      BY <2>1 DEF PoolConfiguratorScript, Last, Record
    <2>3. <<"PoolConfigurator", c>> \in RecordedFor
      BY <1>9 DEF RecordedFor
    <2> QED
      BY <1>2, <2>2, <2>3
  <1>10. CASE c = "PoolImpl"
    <2>1. s = PoolImplementation
      BY <1>1, <1>10, SecuredAtValues, ScriptNames
    <2>2. Last(s).op = "initialize"
      BY <2>1 DEF PoolImplementation, Last, Initialize
    <2> QED
      BY <1>2, <2>2
  <1> QED
    BY <1>3, <1>4, <1>5, <1>6, <1>7, <1>8, <1>9, <1>10 DEF Early, Grounds

-----------------------------------------------------------------------------
(* The inductive invariant. *)

OrderInv ==
    /\ config \in Seq(Assets) /\ Range(FirstAssets) \subseteq Range(config)
    /\ Steps(job)
    /\ \A c : Secured(c) \/ InOrder(c, job)
    /\ \A c : \A m \in migrations : <<m, c>> \in RecordedFor => Secured(c)
    /\ \A c : \A k \in book : <<k, c>> \in BookedFor => Secured(c)
    /\ listed # {} => \A c \in Grounds : Secured(c)
    /\ "Oracle" \in artifacts => Secured("Oracle")

LEMMA FreshRun ==
    ASSUME OrderInv
    PROVE  FlattenSeq(Scripts) = FlattenSeq(Skipping({}))
  <1>1. \A i \in 1 .. 17 : Skipping({})[i] = Scripts[i]
    BY DEF Skipping
  <1>2. Skipping({}) = [i \in 1 .. 17 |-> Skipping({})[i]]
    BY DEF Skipping
  <1>3. Skipping({}) = Scripts
    BY <1>1, <1>2, ScriptNames
  <1> QED
    BY <1>3

LEMMA DeployAfreshInOrder ==
    ASSUME OrderInv, NEW transfer
    PROVE  /\ Steps(FlattenSeq(Scripts) \o AfterDeploy(transfer))
           /\ \A c : c # "transfer" => InOrder(c, FlattenSeq(Scripts) \o AfterDeploy(transfer))
  <1>1. config \in Seq(Assets)
    BY DEF OrderInv
  <1>2. PICK s : s = FlattenSeq(Scripts)
    OBVIOUS
  <1>3. s = FlattenSeq(Skipping({}))
    BY <1>2, FreshRun
  <1>4. Steps(s) /\ (\A c : InOrder(c, s)) /\ \A c \in Early : Has(c, s)
    BY <1>1, <1>3, SkippingSteps, SkippingInOrder
  <1>5. \A c : c # "transfer" => InOrder(c, AfterDeploy(transfer)) \/ Has(c, s)
    BY <1>1, <1>4, AfterDeployInOrder DEF Early
  <1> QED
    BY <1>1, <1>2, <1>4, <1>5, AfterDeployInOrder, ConcatInOrder, StepsConcat

LEMMA SkippedScripts ==
    Unrecorded(Scripts) = Skipping({i \in 1 .. 17 : Recorded(Scripts[i])})
  <1>1. DOMAIN Scripts = 1 .. 17
    BY ScriptNames
  <1>2. \A i \in 1 .. 17 : When(~Recorded(Scripts[i]), Scripts[i])
          = IF i \in {k \in 1 .. 17 : Recorded(Scripts[k])} THEN <<>> ELSE Scripts[i]
    BY DEF When
  <1> QED
    BY <1>1, <1>2 DEF Unrecorded, Skipping

LEMMA DeployRunInOrder ==
    ASSUME OrderInv, NEW transfer
    PROVE  /\ Steps(DeployRun(transfer))
           /\ \A c : Secured(c) \/ InOrder(c, DeployRun(transfer))
  <1>1. config \in Seq(Assets)
    BY DEF OrderInv
  <1>2. PICK R : R = {i \in 1 .. 17 : Recorded(Scripts[i])}
    OBVIOUS
  <1>3. Unrecorded(Scripts) = Skipping(R)
    BY <1>2, SkippedScripts
  <1>4. PICK s : s = FlattenSeq(Unrecorded(Scripts))
    OBVIOUS
  <1>5. Steps(s)
    BY <1>1, <1>3, <1>4, SkippingSteps
  <1>6. ASSUME NEW c PROVE Secured(c) \/ (InOrder(c, s) /\ (c \in Early => Has(c, s)))
    <2>1. CASE c \in Early => SecuredAt(c) \notin R
      BY <1>1, <1>3, <1>4, <2>1, SkippingInOrder
    <2>2. CASE c \in Early /\ SecuredAt(c) \in R
      BY <1>1, <1>2, <2>2, RecordOf DEF OrderInv
    <2> QED
      BY <2>1, <2>2
  <1>7. \A c : InOrder(c, AfterDeploy(transfer)) \/ c \in Early \/ Secured(c)
    BY <1>1, AfterDeployInOrder, MarksAreSecured DEF Early, Marks
  <1>8. DeployRun(transfer) = s \o AfterDeploy(transfer)
    BY <1>4 DEF DeployRun
  <1> QED
    BY <1>1, <1>5, <1>6, <1>7, <1>8, AfterDeployInOrder, ConcatInOrder, StepsConcat

\* Sequences that may follow a read: what they use the read uses or an earlier
\* run has secured, and what the read secures they secure.
Follows(f, step) ==
    /\ Steps(f)
    /\ \A c : Secured(c) \/ Uses(c, step) \/ InOrder(c, f)
    /\ \A c : Secures(c, step) => Secured(c) \/ Has(c, f)

LEMMA QuietFollows ==
    ASSUME NEW f, NEW step, AllQuiet(f), \A c : Secures(c, step) => Secured(c) \/ Has(c, f)
    PROVE  Follows(f, step)
  BY QuietInOrder DEF Follows, AllQuiet

LEMMA EmptyQuiet == AllQuiet(<<>>) /\ \A c : InOrder(c, <<>>)
  BY StepsEmpty DEF AllQuiet, InOrder

LEMMA AttachFollows ==
    ASSUME NEW step, step.op = "read",
           step.on \in {"DataProvider", "PriceOracle", "Pool", "PoolConfigurator"}
    PROVE  Follows(Attach(step.on), step)
  <1>1. PICK b : b = Book(step.on)
    OBVIOUS
  <1>2. b.op = "book" /\ b.on = step.on
    BY <1>1 DEF Book
  <1>3. \A c : Uses(c, b) => Uses(c, step)
    BY <1>2 DEF Uses
  <1>4. \A c : Secures(c, step) => Secures(c, b)
    BY <1>2 DEF Secures
  <1>5. CASE step.on \notin book
    <2>1. Attach(step.on) = <<b>>
      BY <1>1, <1>5 DEF Attach, When
    <2> QED
      BY <1>3, <1>4, <2>1, One DEF Follows
  <1>6. CASE step.on \in book
    <2>1. Attach(step.on) = <<>>
      BY <1>6 DEF Attach, When
    <2>2. \A c : Secures(c, step) => c = "PriceOracle" /\ step.on = c
      BY DEF Secures
    <2>3. \A c : Secures(c, step) => Secured(c)
      BY <1>6, <2>2, TokenNames DEF Secured, Seals, Adminships, Deployed, Ownable
    <2> QED
      BY <2>1, <2>3, EmptyQuiet, QuietFollows
  <1> QED
    BY <1>5, <1>6

\* Reads that secure nothing.
LEMMA PlainReads ==
    ASSUME NEW step, step.op = "read", step.on # "PriceOracle"
    PROVE  \A c : ~Secures(c, step)
  BY DEF Secures

\* Two steps, the second of which may use what the first secures.
LEMMA PairInOrder ==
    ASSUME NEW x, NEW y
    PROVE  /\ Steps(<<x, y>>)
           /\ \A c : ~Uses(c, x) /\ (Uses(c, y) => Secures(c, x)) => InOrder(c, <<x, y>>)
  <1>1. PICK f : f = <<x, y>>
    OBVIOUS
  <1>2. f \in Seq({x, y}) /\ Len(f) = 2 /\ f[1] = x /\ f[2] = y
    BY <1>1
  <1>3. Steps(f)
    BY <1>2 DEF Steps
  <1>4. ASSUME NEW c, ~Uses(c, x), Uses(c, y) => Secures(c, x)
        PROVE  InOrder(c, f)
    <2> SUFFICES ASSUME NEW j \in 1 .. 2, Uses(c, f[j])
                 PROVE  \E k \in 1 .. (j - 1) : Secures(c, f[k])
      BY <1>2 DEF InOrder
    <2>1. j = 2 /\ Secures(c, f[1])
      BY <1>2, <1>4
    <2>2. 1 \in 1 .. (j - 1)
      BY <2>1
    <2> QED
      BY <2>1, <2>2
  <1> QED
    BY <1>1, <1>3, <1>4

LEMMA IncentivesFollows ==
    ASSUME NEW step, step.op = "read", step.on = "IncentivesController"
    PROVE  Follows(When("Incentives" \notin book, <<Book("Incentives"), Save("IncentivesProxy")>>), step)
  <1>1. PICK x, y : x = Book("Incentives") /\ y = Save("IncentivesProxy")
    OBVIOUS
  <1>2. \A c : Uses(c, x) => Uses(c, step)
    BY <1>1 DEF Uses, Book, BookedFor
  <1>3. \A c : ~Uses(c, y)
    BY <1>1, QuietForms DEF Quiet
  <1>4. Follows(<<x, y>>, step)
    BY <1>2, <1>3, PairInOrder, PlainReads DEF Follows
  <1>5. Follows(<<>>, step)
    BY PlainReads, EmptyQuiet, QuietFollows
  <1> QED
    BY <1>1, <1>4, <1>5 DEF When

LEMMA ListsFollow ==
    ASSUME config \in Seq(Assets),
           NEW step, step.op = "read", step.on = "initReserves", NEW t
    PROVE  Follows(InitReservesByHelper(t), step)
  <1>1. PICK s : s = Among(KnownAssets, {a \in Assets : ~IsListed(a)})
    OBVIOUS
  <1>2. Len(s) \in Nat
    <2>1. KnownAssets \in Seq(Assets)
      BY AmongRange DEF KnownAssets
    <2> QED
      BY <1>1, <2>1, AmongRange, LenProperties
  <1>3. PICK n \in Nat : n = (Len(s) + InitChunks - 1) \div InitChunks
    BY <1>2 DEF InitChunks
  <1>4. PICK new : new = Chunks(s, InitChunks)
    OBVIOUS
  <1>5. DOMAIN new = 1 .. n
    BY <1>3, <1>4 DEF Chunks
  <1>6. PICK f : f = InitReservesByHelper(t)
    OBVIOUS
  <1>7. f = [i \in 1 .. n |-> List(new[i], t)]
    BY <1>1, <1>4, <1>5, <1>6 DEF InitReservesByHelper
  <1>8. f = [i \in 1 .. n |-> f[i]] /\ \A i \in 1 .. n : f[i] = List(new[i], t)
    BY <1>7
  <1>9. Steps(f) /\ Len(f) = n
    BY <1>8, StepsMap
  <1>10. \A c, l : c # "list" /\ Uses(c, List(l, t)) => Uses(c, step)
    BY DEF Uses, List
  <1>11. \A c : c # "list" => Uses(c, step) \/ InOrder(c, f)
    BY <1>8, <1>9, <1>10 DEF InOrder
  <1> QED
    BY <1>6, <1>9, <1>11, MarksAreSecured, PlainReads DEF Follows, Marks

LEMMA ConfigureFollows ==
    ASSUME NEW step, step.op = "read", step.on = "configureReserves"
    PROVE  Follows(ConfigureReservesByHelper, step)
  <1>1. PICK new : new = Among(KnownAssets, {a \in Assets : <<"collateral", a>> \notin settings})
    OBVIOUS
  <1>2. Quiet(Revoke("RISK_ADMIN", Helper))
    BY DEF Quiet, Uses, Revoke, Helper, Adminships
  <1>3. AllQuiet(<<Grant("RISK_ADMIN", Helper), Configure(new), Revoke("RISK_ADMIN", Helper)>>)
    BY <1>2, QuietForms, QuietTuple DEF Roles, Helper, Deployer
  <1>4. AllQuiet(ConfigureReservesByHelper)
    BY <1>1, <1>3, EmptyQuiet DEF ConfigureReservesByHelper, When
  <1> QED
    BY <1>4, PlainReads, QuietFollows

LEMMA HandOverFollows ==
    ASSUME NEW step, step.op = "read", step.on \in Roles
    PROVE  Follows(HandOver(step.on), step)
  <1>1. PICK r : r = step.on
    OBVIOUS
  <1>2. PICK x, y : x = Grant(r, Multisig) /\ y = Revoke(r, Deployer)
    OBVIOUS
  <1>3. \A c : ~Uses(c, x)
    BY <1>1, <1>2, QuietForms DEF Quiet, Multisig, Deployer
  <1>4. \A c : Uses(c, y) => Secures(c, x)
    BY <1>2 DEF Uses, Secures, Grant, Revoke
  <1>5. step.on # "PriceOracle"
    BY DEF Roles
  <1>6. Follows(<<x, y>>, step)
    BY <1>3, <1>4, <1>5, PairInOrder, PlainReads DEF Follows
  <1>7. Follows(<<>>, step)
    BY <1>5, PlainReads, EmptyQuiet, QuietFollows
  <1> QED
    BY <1>1, <1>2, <1>6, <1>7 DEF HandOver, When

LEMMA RenounceFollows ==
    ASSUME NEW step, step.op = "read", step.on = "renounce-pool-admin"
    PROVE  Follows(When(Holds("POOL_ADMIN", Deployer) /\ Holds("POOL_ADMIN", Multisig),
                        <<Renounce("POOL_ADMIN")>>), step)
  <1>1. PICK x : x = Renounce("POOL_ADMIN")
    OBVIOUS
  <1>2. \A c : Uses(c, x) => c = "POOL_ADMIN"
    BY <1>1 DEF Uses, Renounce
  <1>3. Holds("POOL_ADMIN", Multisig) => Secured("POOL_ADMIN")
    BY TokenNames DEF Secured, Seals, Deployed, Ownable
  <1>4. Holds("POOL_ADMIN", Multisig) => Follows(<<x>>, step)
    BY <1>2, <1>3, One, PlainReads DEF Follows
  <1>5. Follows(<<>>, step)
    BY PlainReads, EmptyQuiet, QuietFollows
  <1> QED
    BY <1>1, <1>4, <1>5 DEF When

LEMMA FollowingInOrder ==
    ASSUME config \in Seq(Assets), NEW step, step.op = "read", step.on \in ReadNames
    PROVE  Follows(Following(step), step)
  <1>1. CASE step.on \in {"DataProvider", "PriceOracle", "Pool", "PoolConfigurator"}
    <2>1. Following(step) = Attach(step.on)
      BY <1>1 DEF Following, Roles, Ownable
    <2> QED
      BY <1>1, <2>1, AttachFollows
  <1>2. CASE step.on = "IncentivesController"
    <2>1. Following(step) = When("Incentives" \notin book,
                                 <<Book("Incentives"), Save("IncentivesProxy")>>)
      BY <1>2 DEF Following, Roles, Ownable
    <2> QED
      BY <1>2, <2>1, IncentivesFollows
  <1>3. CASE step.on = "initReserves"
    <2>1. Following(step) = InitReservesByHelper(step.treasury)
      BY <1>3 DEF Following, Roles, Ownable
    <2> QED
      BY <1>3, <2>1, ListsFollow
  <1>4. CASE step.on = "configureReserves"
    <2>1. Following(step) = ConfigureReservesByHelper
      BY <1>4 DEF Following, Roles, Ownable
    <2> QED
      BY <1>4, <2>1, ConfigureFollows
  <1>5. CASE step.on \in {"review-stable-borrow", "upgrade-rstokens"}
    <2>1. Following(step) = IF step.on = "review-stable-borrow" THEN ReviewStableBorrow
                                                                 ELSE UpgradeEachRSToken
      BY <1>5 DEF Following, Roles, Ownable
    <2>2. AllQuiet(ReviewStableBorrow) /\ AllQuiet(UpgradeEachRSToken)
      BY PutsAmongQuiet DEF ReviewStableBorrow, UpgradeEachRSToken
    <2> QED
      BY <1>5, <2>1, <2>2, PlainReads, QuietFollows
  <1>6. CASE step.on \in Roles
    <2>1. Following(step) = HandOver(step.on)
      BY <1>6 DEF Following, Roles, Ownable
    <2> QED
      BY <1>6, <2>1, HandOverFollows
  <1>7. CASE step.on = "ACLAdmin"
    <2>1. Following(step) = When(Holds("ACLAdmin", Deployer), <<SetACLAdmin(Multisig)>>)
      BY <1>7 DEF Following, Roles, Ownable
    <2>2. AllQuiet(<<SetACLAdmin(Multisig)>>)
      BY QuietForms, One
    <2> QED
      BY <1>7, <2>1, <2>2, EmptyQuiet, PlainReads, QuietFollows DEF When
  <1>8. CASE step.on \in Ownable
    <2>1. Following(step) = When(Holds(step.on, Deployer), <<Transfer(step.on, Multisig)>>)
      BY <1>8 DEF Following, Roles, Ownable
    <2>2. AllQuiet(<<Transfer(step.on, Multisig)>>)
      BY <1>8, QuietForms, One DEF Adminships, Ownable
    <2>3. step.on # "PriceOracle"
      BY <1>8 DEF Ownable
    <2> QED
      BY <1>8, <2>1, <2>2, <2>3, EmptyQuiet, PlainReads, QuietFollows DEF When
  <1>9. CASE step.on = "renounce-pool-admin"
    <2>1. Following(step) = When(Holds("POOL_ADMIN", Deployer) /\ Holds("POOL_ADMIN", Multisig),
                                 <<Renounce("POOL_ADMIN")>>)
      BY <1>9 DEF Following, Roles, Ownable
    <2> QED
      BY <1>9, <2>1, RenounceFollows
  <1> QED
    BY <1>1, <1>2, <1>3, <1>4, <1>5, <1>6, <1>7, <1>8, <1>9 DEF ReadNames

-----------------------------------------------------------------------------
(* The steps of the system. *)

\* What is secured remains so.
Stays == \A c : Secured(c) => Secured(c)'

\* A step that is taken is used by nothing that is not secured, and secures
\* what the rest of the run may use.
LEMMA HeadSecured ==
    ASSUME OrderInv, job # <<>>, NEW c, Uses(c, Head(job))
    PROVE  Secured(c)
  <1>1. Head(job) = job[1] /\ 1 \in 1 .. Len(job)
    BY StepsTail DEF OrderInv
  <1>2. ~InOrder(c, job)
    BY <1>1 DEF InOrder
  <1> QED
    BY <1>2 DEF OrderInv

LEMMA TailInOrder ==
    ASSUME OrderInv, job # <<>>, NEW c
    PROVE  /\ Steps(Tail(job))
           /\ Secured(c) \/ Secures(c, Head(job)) \/ InOrder(c, Tail(job))
  <1>1. /\ Steps(Tail(job)) /\ Len(Tail(job)) = Len(job) - 1 /\ Len(job) \in Nat \ {0}
        /\ Head(job) = job[1]
        /\ \A i \in 1 .. Len(Tail(job)) : Tail(job)[i] = job[i + 1]
    BY StepsTail DEF OrderInv
  <1>2. SUFFICES ASSUME InOrder(c, job), ~Secures(c, Head(job)) PROVE InOrder(c, Tail(job))
    BY <1>1 DEF OrderInv
  <1> SUFFICES ASSUME NEW j \in 1 .. Len(Tail(job)), Uses(c, Tail(job)[j])
               PROVE  \E k \in 1 .. (j - 1) : Secures(c, Tail(job)[k])
    BY DEF InOrder
  <1>3. j + 1 \in 1 .. Len(job) /\ Uses(c, job[j + 1])
    BY <1>1
  <1>4. PICK k \in 1 .. ((j + 1) - 1) : Secures(c, job[k])
    BY <1>2, <1>3 DEF InOrder
  <1>5. k # 1
    BY <1>1, <1>2, <1>4
  <1>6. k - 1 \in 1 .. (j - 1) /\ k - 1 \in 1 .. Len(Tail(job)) /\ (k - 1) + 1 = k
    BY <1>1, <1>5
  <1>7. Tail(job)[k - 1] = job[k]
    BY <1>1, <1>6
  <1> QED
    BY <1>4, <1>6, <1>7

\* A step other than a read.
LEMMA AdvanceInOrder ==
    ASSUME OrderInv, job # <<>>, job' = Tail(job), Stays,
           \A c : Secures(c, Head(job)) => Secured(c)'
    PROVE  /\ Steps(job)'
           /\ \A c : Secured(c)' \/ InOrder(c, job)'
  <1>1. Steps(job)'
    BY TailInOrder DEF Steps
  <1>2. ASSUME NEW c PROVE Secured(c)' \/ InOrder(c, job)'
    <2>1. CASE InOrder(c, Tail(job))
      <3>1. InOrder(c, job')
        BY <2>1
      <3>2. InOrder(c, job)' <=> InOrder(c, job')
        BY DEF InOrder, Uses, Secures, RecordedFor, BookedFor, Grounds, ReadNames, Roles,
               Ownable, Adminships, Deployed, Seals, TokenImpls, Deployer, Helper, Multisig
      <3> QED
        BY <3>1, <3>2
    <2> QED
      BY <2>1, TailInOrder DEF Stays
  <1> QED
    BY <1>1, <1>2

\* What it takes for everything secured to remain so.
LEMMA StaysWhen ==
    ASSUME config \in Seq(Assets), config' \in Seq(Assets),
           Range(config) \subseteq Range(config'), market' = market,
           initialized \subseteq initialized', artifacts \subseteq artifacts', book \subseteq book',
           Secured("Oracle") => Secured("Oracle")',
           \A r \in Adminships : Holds(r, Multisig) => Holds(r, Multisig)'
    PROVE  Stays
  <1>1. Range(KnownAssets) \subseteq Range(KnownAssets)'
    <2>1. \A a : Known(a) => Known(a)'
      BY DEF Known
    <2>2. Range(KnownAssets) = Range(config) \cap {a \in Assets : Known(a)}
      BY AmongRange DEF KnownAssets
    <2>3. Range(KnownAssets)' = Range(config') \cap {a \in Assets : Known(a)'}
      <3>1. KnownAssets' = Among(config', {a \in Assets : Known(a)'})
        BY DEF KnownAssets, Among, When
      <3>2. Range(Among(config', {a \in Assets : Known(a)'}))
            = Range(config') \cap {a \in Assets : Known(a)'}
        BY AmongRange
      <3>3. Range(KnownAssets)' = Range(KnownAssets')
        BY DEF Range
      <3> QED
        BY <3>1, <3>2, <3>3
    <2> QED
      BY <2>1, <2>2, <2>3
  <1> SUFFICES ASSUME NEW c, Secured(c) PROVE Secured(c)'
    BY DEF Stays
  <1>2. CASE c = "Oracle"
    BY <1>2
  <1>3. CASE c # "Oracle"
    BY <1>1, <1>3 DEF Secured, Seals, Deployed, Adminships
  <1> QED
    BY <1>2, <1>3

LEMMA OrderKept ==
    ASSUME OrderInv, Stays, config' \in Seq(Assets), Range(config) \subseteq Range(config'),
           Steps(job)', \A c : Secured(c)' \/ InOrder(c, job)',
           \A c : \A m \in migrations' : m \notin migrations /\ <<m, c>> \in RecordedFor => Secured(c)',
           \A c : \A k \in book' : k \notin book /\ <<k, c>> \in BookedFor => Secured(c)',
           listed' # {} => listed # {} \/ \A c \in Grounds : Secured(c)',
           "Oracle" \in artifacts' => "Oracle" \in artifacts \/ Secured("Oracle")'
    PROVE  OrderInv'
  <1>1. \A c : \A m \in migrations' : <<m, c>> \in RecordedFor => Secured(c)'
    BY DEF OrderInv, Stays
  <1>2. \A c : \A k \in book' : <<k, c>> \in BookedFor => Secured(c)'
    BY DEF OrderInv, Stays
  <1>3. listed' # {} => \A c \in Grounds : Secured(c)'
    BY DEF OrderInv, Stays
  <1>4. "Oracle" \in artifacts' => Secured("Oracle")'
    BY DEF OrderInv, Stays
  <1>5. RecordedFor' = RecordedFor /\ BookedFor' = BookedFor /\ Grounds' = Grounds
    BY DEF RecordedFor, BookedFor, Grounds, TokenImpls
  <1>6. Range(FirstAssets) \subseteq Range(config')
    BY DEF OrderInv
  <1>7. config' \in Seq(Assets)
    OBVIOUS
  <1> QED
    BY <1>1, <1>2, <1>3, <1>4, <1>5, <1>6, <1>7 DEF OrderInv

LEMMA DeployKeepsOrder == ASSUME OrderInv, DeployContract PROVE OrderInv'
  <1>1. /\ job # <<>> /\ Head(job).op = "deploy" /\ Enabled(Head(job))
        /\ job' = Tail(job) /\ market' = market /\ config' = config
        /\ artifacts' = artifacts \cup {Head(job).on}
        /\ migrations' = migrations /\ initialized' = initialized /\ book' = book
        /\ listed' = listed
    BY DEF DeployContract, Perform, Doing, Advance, Step
  <1>2. Head(job).on = "Oracle" => Secured("addresses")
    BY <1>1, HeadSecured DEF Uses
  <1>3. /\ priced' # priced => Head(job).on = "Oracle" /\ "Oracle" \notin artifacts
        /\ Head(job).on = "Oracle" /\ "Oracle" \notin artifacts => priced' = Range(KnownAssets)
        /\ power \subseteq power'
    BY DEF DeployContract, Step
  <1>4. Head(job).on = "Oracle" => Secured("Oracle")'
    <2> SUFFICES ASSUME Head(job).on = "Oracle" PROVE Range(FirstAssets) \subseteq priced'
      BY TokenNames DEF Secured, Seals, Adminships, Deployed, Ownable
    <2>1. CASE "Oracle" \in artifacts
      <3>1. Secured("Oracle")
        BY <2>1 DEF OrderInv
      <3> QED
        BY <1>3, <2>1, <3>1 DEF Secured
    <2>2. CASE "Oracle" \notin artifacts
      BY <1>2, <1>3, <2>2 DEF Secured
    <2> QED
      BY <2>1, <2>2
  <1>5. Secured("Oracle") => Secured("Oracle")'
    <2>1. CASE Head(job).on = "Oracle"
      BY <1>4, <2>1
    <2>2. CASE Head(job).on # "Oracle"
      <3>1. priced' = priced
        BY <1>3, <2>2
      <3> QED
        BY <3>1, TokenNames DEF Secured, Seals, Adminships, Deployed, Ownable
    <2> QED
      BY <2>1, <2>2
  <1>6. Stays
    <2>1. \A r \in Adminships : Holds(r, Multisig) => Holds(r, Multisig)'
      BY <1>3 DEF Holds, Multisig
    <2> QED
      BY <1>1, <1>5, <2>1, StaysWhen DEF OrderInv
  <1>7. ASSUME NEW c, Secures(c, Head(job)) PROVE Secured(c)'
    <2>1. (c = "Oracle" /\ Head(job).on = "Oracle") \/ (c = Head(job).on /\ c \in Deployed)
      BY <1>1, <1>7 DEF Secures
    <2>2. CASE c \in Deployed /\ c = Head(job).on
      BY <1>1, <2>2, TokenNames DEF Secured, Seals, Adminships, Deployed, Ownable
    <2> QED
      BY <1>4, <2>1, <2>2
  <1>8. Steps(job)' /\ \A c : Secured(c)' \/ InOrder(c, job)'
    BY <1>1, <1>6, <1>7, AdvanceInOrder
  <1>9. "Oracle" \in artifacts' => "Oracle" \in artifacts \/ Secured("Oracle")'
    BY <1>1, <1>4
  <1> QED
    BY <1>1, <1>6, <1>8, <1>9, OrderKept DEF OrderInv

\* A step that leaves alone what the order of steps is about.
LEMMA OracleStays ==
    priced' = priced /\ Secured("Oracle") => Secured("Oracle")'
  BY TokenNames DEF Secured, Seals, Adminships, Deployed, Ownable

LEMMA RoleStays ==
    power' = power => \A r \in Adminships : Holds(r, Multisig) => Holds(r, Multisig)'
  BY DEF Holds, Multisig

LEMMA InitializeKeepsOrder == ASSUME OrderInv, InitializeContract PROVE OrderInv'
  <1>1. /\ job # <<>> /\ Head(job).op = "initialize"
        /\ job' = Tail(job) /\ market' = market /\ config' = config
        /\ initialized' = initialized \cup {Head(job).on}
        /\ artifacts' = artifacts /\ migrations' = migrations /\ book' = book
        /\ power' = power /\ listed' = listed /\ priced' = priced
    BY DEF InitializeContract, Perform, Doing, Advance, Step, disk
  <1>2. Stays
    BY <1>1, OracleStays, RoleStays, StaysWhen DEF OrderInv
  <1>3. ASSUME NEW c, Secures(c, Head(job)) PROVE Secured(c)'
    <2>1. c = Head(job).on /\ c \in Seals
      BY <1>1, <1>3 DEF Secures
    <2> QED
      BY <1>1, <2>1, TokenNames DEF Secured, Seals, Adminships, Deployed, Ownable
  <1>4. Steps(job)' /\ \A c : Secured(c)' \/ InOrder(c, job)'
    BY <1>1, <1>2, <1>3, AdvanceInOrder
  <1> QED
    BY <1>1, <1>2, <1>4, OrderKept DEF OrderInv

LEMMA PowerKeepsOrder == ASSUME OrderInv, ChangePower PROVE OrderInv'
  <1>1. /\ job # <<>>
        /\ Head(job).op \in {"transfer", "setACLAdmin", "grant", "revoke", "renounce"}
        /\ job' = Tail(job) /\ market' = market /\ config' = config
        /\ initialized' = initialized /\ artifacts' = artifacts /\ migrations' = migrations
        /\ book' = book /\ listed' = listed /\ priced' = priced
    BY DEF ChangePower, Perform, Doing, Advance, Step, disk
  <1>2. Head(job).op = "revoke" => Head(job).to \in {Deployer, Helper}
    <2>1. ~Secured("form")
      BY DEF Secured
    <2> QED
      BY <1>1, <2>1, HeadSecured DEF Uses
  <1>3. ASSUME NEW r \in Adminships, Holds(r, Multisig) PROVE Holds(r, Multisig)'
    <2>1. r # "ACLAdmin" /\ <<r, Multisig>> \in power
      BY <1>3 DEF Adminships, Holds
    <2>2. <<r, Multisig>> \in power'
      BY <1>1, <1>2, <2>1 DEF ChangePower, Perform, Doing, Step, Multisig, Deployer, Helper
    <2> QED
      BY <2>2 DEF Holds, Multisig
  <1>4. Stays
    BY <1>1, <1>3, OracleStays, StaysWhen DEF OrderInv
  <1>5. ASSUME NEW c, Secures(c, Head(job)) PROVE Secured(c)'
    <2>1. c = Head(job).on /\ c \in Adminships /\ Head(job).op = "grant" /\ Head(job).to = Multisig
      BY <1>1, <1>5 DEF Secures
    <2>2. Holds(c, Multisig)'
      BY <2>1 DEF ChangePower, Perform, Doing, Step, Holds, Multisig
    <2>3. c \notin Seals \cup Deployed \cup {"addresses", "Oracle", "PriceOracle", "form"}
      BY <2>1, TokenNames DEF Seals, Adminships, Deployed, Ownable
    <2> QED
      BY <2>2, <2>3 DEF Secured, Seals, Adminships, Deployed, Ownable, TokenImpls
  <1>6. Steps(job)' /\ \A c : Secured(c)' \/ InOrder(c, job)'
    BY <1>1, <1>4, <1>5, AdvanceInOrder
  <1> QED
    BY <1>1, <1>4, <1>6, OrderKept DEF OrderInv

LEMMA BookKeepsOrder == ASSUME OrderInv, SetInBook PROVE OrderInv'
  <1>1. /\ job # <<>> /\ Head(job).op = "book"
        /\ job' = Tail(job) /\ market' = market /\ config' = config
        /\ book' = book \cup {Head(job).on}
        /\ initialized' = initialized /\ artifacts' = artifacts /\ migrations' = migrations
        /\ power' = power /\ listed' = listed /\ priced' = priced
    BY DEF SetInBook, Perform, Doing, Advance, Step, disk
  <1>2. Stays
    BY <1>1, OracleStays, RoleStays, StaysWhen DEF OrderInv
  <1>3. ASSUME NEW c, Secures(c, Head(job)) PROVE Secured(c)'
    <2>1. c = Head(job).on /\ c = "PriceOracle"
      BY <1>1, <1>3 DEF Secures
    <2> QED
      BY <1>1, <2>1, TokenNames DEF Secured, Seals, Adminships, Deployed, Ownable
  <1>4. Steps(job)' /\ \A c : Secured(c)' \/ InOrder(c, job)'
    BY <1>1, <1>2, <1>3, AdvanceInOrder
  <1>5. ASSUME NEW c, NEW k \in book', k \notin book, <<k, c>> \in BookedFor
        PROVE  Secured(c)'
    <2>1. Uses(c, Head(job))
      BY <1>1, <1>5 DEF Uses
    <2> QED
      BY <1>1, <1>2, <2>1, HeadSecured DEF Stays
  <1> QED
    BY <1>1, <1>2, <1>4, <1>5, OrderKept DEF OrderInv

LEMMA SettingsKeepOrder == ASSUME OrderInv, ChangeSettings PROVE OrderInv'
  <1>1. /\ job # <<>> /\ Head(job).op \in {"register", "put", "configure"}
        /\ job' = Tail(job) /\ market' = market /\ config' = config
        /\ book' = book /\ initialized' = initialized /\ artifacts' = artifacts
        /\ migrations' = migrations /\ power' = power /\ listed' = listed /\ priced' = priced
    BY DEF ChangeSettings, Perform, Doing, Advance, Step, disk
  <1>2. Stays
    BY <1>1, OracleStays, RoleStays, StaysWhen DEF OrderInv
  <1>3. \A c : ~Secures(c, Head(job))
    BY <1>1 DEF Secures
  <1>4. Steps(job)' /\ \A c : Secured(c)' \/ InOrder(c, job)'
    BY <1>1, <1>2, <1>3, AdvanceInOrder
  <1> QED
    BY <1>1, <1>2, <1>4, OrderKept DEF OrderInv

LEMMA ListKeepsOrder == ASSUME OrderInv, ListReserves PROVE OrderInv'
  <1>1. /\ job # <<>> /\ Head(job).op = "list"
        /\ job' = Tail(job) /\ market' = market /\ config' = config
        /\ book' = book /\ initialized' = initialized /\ artifacts' = artifacts
        /\ migrations' = migrations /\ power' = power /\ priced' = priced
    BY DEF ListReserves, Perform, Doing, Advance, Step, disk
  <1>2. Stays
    BY <1>1, OracleStays, RoleStays, StaysWhen DEF OrderInv
  <1>3. \A c : ~Secures(c, Head(job))
    BY <1>1 DEF Secures
  <1>4. Steps(job)' /\ \A c : Secured(c)' \/ InOrder(c, job)'
    BY <1>1, <1>2, <1>3, AdvanceInOrder
  <1>5. \A c \in Grounds : Secured(c)'
    <2>1. \A c \in Grounds : Secured(c)
      BY <1>1, HeadSecured DEF Uses
    <2> QED
      BY <1>2, <2>1 DEF Stays
  <1> QED
    BY <1>1, <1>2, <1>4, <1>5, OrderKept DEF OrderInv

LEMMA SourcesKeepOrder == ASSUME OrderInv, SetAssetSources PROVE OrderInv'
  <1>1. /\ job # <<>> /\ Head(job).op = "setSources"
        /\ job' = Tail(job) /\ market' = market /\ config' = config
        /\ book' = book /\ initialized' = initialized /\ artifacts' = artifacts
        /\ migrations' = migrations /\ power' = power /\ listed' = listed
        /\ priced \subseteq priced'
    BY DEF SetAssetSources, Perform, Doing, Advance, Step, disk
  <1>2. Secured("Oracle") => Secured("Oracle")'
    BY <1>1, TokenNames DEF Secured, Seals, Adminships, Deployed, Ownable
  <1>3. Stays
    BY <1>1, <1>2, RoleStays, StaysWhen DEF OrderInv
  <1>4. \A c : ~Secures(c, Head(job))
    BY <1>1 DEF Secures
  <1>5. Steps(job)' /\ \A c : Secured(c)' \/ InOrder(c, job)'
    BY <1>1, <1>3, <1>4, AdvanceInOrder
  <1> QED
    BY <1>1, <1>3, <1>5, OrderKept DEF OrderInv

LEMMA DiskKeepsOrder == ASSUME OrderInv, WriteToDisk PROVE OrderInv'
  <1>1. /\ job # <<>> /\ Head(job).op \in {"save", "record"}
        /\ job' = Tail(job) /\ market' = market /\ config' = config
        /\ book' = book /\ initialized' = initialized /\ artifacts \subseteq artifacts'
        /\ power' = power /\ listed' = listed /\ priced' = priced
    BY DEF WriteToDisk, Perform, Doing, Advance, Step, chain
  <1>2. /\ "Oracle" \in artifacts' /\ "Oracle" \notin artifacts =>
               Head(job).op = "save" /\ Head(job).on = "Oracle"
        /\ \A m \in migrations' : m \notin migrations => Head(job).op = "record" /\ Head(job).on = m
    BY DEF WriteToDisk, Perform, Doing, Step
  <1>3. Stays
    BY <1>1, OracleStays, RoleStays, StaysWhen DEF OrderInv
  <1>4. \A c : ~Secures(c, Head(job))
    BY <1>1 DEF Secures
  <1>5. Steps(job)' /\ \A c : Secured(c)' \/ InOrder(c, job)'
    BY <1>1, <1>3, <1>4, AdvanceInOrder
  <1>6. ~("Oracle" \in artifacts' /\ "Oracle" \notin artifacts)
    <2>1. ~Secured("form")
      BY DEF Secured
    <2> QED
      BY <1>1, <1>2, <2>1, HeadSecured DEF Uses
  <1>7. ASSUME NEW c, NEW m \in migrations', m \notin migrations, <<m, c>> \in RecordedFor
        PROVE  Secured(c)'
    <2>1. Uses(c, Head(job))
      BY <1>2, <1>7 DEF Uses
    <2> QED
      BY <1>1, <1>3, <2>1, HeadSecured DEF Stays
  <1> QED
    BY <1>1, <1>3, <1>5, <1>6, <1>7, OrderKept DEF OrderInv

LEMMA CheckKeepsOrder == ASSUME OrderInv, PassCheck PROVE OrderInv'
  <1>1. /\ job # <<>> /\ Head(job).op \in {"check", "require"} /\ Enabled(Head(job))
        /\ job' = Tail(job) /\ market' = market /\ config' = config
        /\ book' = book /\ initialized' = initialized /\ artifacts' = artifacts
        /\ migrations' = migrations /\ power' = power /\ listed' = listed /\ priced' = priced
    BY DEF PassCheck, Perform, Doing, Advance, Step, chain, disk
  <1>2. Stays
    BY <1>1, OracleStays, RoleStays, StaysWhen DEF OrderInv
  <1>3. ASSUME NEW c, Secures(c, Head(job)) PROVE Secured(c)
    <2>1. CASE Head(job).op = "check"
      <3>1. c = "addresses" /\ Head(job).on = "addresses"
        BY <1>3, <2>1 DEF Secures
      <3>2. Range(KnownAssets) = Range(config)
        BY <1>1, <2>1, <3>1 DEF Enabled, Passes
      <3> QED
        BY <3>1, <3>2, TokenNames DEF OrderInv, Secured, Seals, Adminships, Deployed, Ownable
    <2>2. CASE Head(job).op = "require"
      <3>1. c = Head(job).on /\ c \in Deployed
        BY <1>3, <2>2 DEF Secures
      <3>2. c \in artifacts
        BY <1>1, <2>2, <3>1 DEF Enabled
      <3> QED
        BY <3>1, <3>2, TokenNames DEF Secured, Seals, Adminships, Deployed, Ownable
    <2> QED
      BY <1>1, <2>1, <2>2
  <1>4. Steps(job)' /\ \A c : Secured(c)' \/ InOrder(c, job)'
    BY <1>1, <1>2, <1>3, AdvanceInOrder DEF Stays
  <1> QED
    BY <1>1, <1>2, <1>4, OrderKept DEF OrderInv

LEMMA InOrderPrimed ==
    ASSUME NEW c, NEW s, job' = s, Steps(s), InOrder(c, s)
    PROVE  Steps(job)' /\ InOrder(c, job)'
  BY DEF Steps, InOrder, Uses, Secures, RecordedFor, BookedFor, Grounds, ReadNames, Roles,
         Ownable, Adminships, Deployed, Seals, TokenImpls, Deployer, Helper, Multisig

LEMMA ReadKeepsOrder == ASSUME OrderInv, ReadChain PROVE OrderInv'
  <1>1. /\ job # <<>> /\ Head(job).op = "read"
        /\ job' = Following(Head(job)) \o Tail(job) /\ market' = market /\ config' = config
        /\ book' = book /\ initialized' = initialized /\ artifacts' = artifacts
        /\ migrations' = migrations /\ power' = power /\ listed' = listed /\ priced' = priced
    BY DEF ReadChain, Doing, Step, chain, disk
  <1>2. Stays
    BY <1>1, OracleStays, RoleStays, StaysWhen DEF OrderInv
  <1>3. Head(job).on \in ReadNames
    <2>1. ~Secured("form")
      BY DEF Secured
    <2> QED
      BY <1>1, <2>1, HeadSecured DEF Uses
  <1>4. PICK f : f = Following(Head(job))
    OBVIOUS
  <1>5. Follows(f, Head(job))
    BY <1>1, <1>3, <1>4, FollowingInOrder DEF OrderInv
  <1>6. Steps(f \o Tail(job))
    BY <1>1, <1>5, TailInOrder, StepsConcat DEF Follows
  <1>7. ASSUME NEW c, ~Secured(c) PROVE InOrder(c, f \o Tail(job))
    <2>1. ~Uses(c, Head(job))
      BY <1>1, <1>7, HeadSecured
    <2>2. InOrder(c, f) /\ (Secures(c, Head(job)) => Has(c, f))
      BY <1>5, <1>7, <2>1 DEF Follows
    <2>3. Secures(c, Head(job)) \/ InOrder(c, Tail(job))
      BY <1>1, <1>7, TailInOrder
    <2> QED
      BY <1>1, <1>5, <2>2, <2>3, TailInOrder, ConcatInOrder DEF Follows
  <1>8. job' = f \o Tail(job)
    BY <1>1, <1>4
  <1>9. Steps(job)' /\ \A c : Secured(c)' \/ InOrder(c, job)'
    <2>1. Steps(job)'
      BY <1>6, <1>8 DEF Steps
    <2>2. \A c : Secured(c) \/ InOrder(c, job)'
      BY <1>6, <1>7, <1>8, InOrderPrimed
    <2> QED
      BY <1>2, <2>1, <2>2 DEF Stays
  <1> QED
    BY <1>1, <1>2, <1>9, OrderKept DEF OrderInv

\* The run ends, or takes a step that does nothing.
LEMMA NothingKeepsOrder ==
    ASSUME OrderInv, market' = market, config' = config, initialized' = initialized,
           artifacts' = artifacts, migrations' = migrations, book' = book, power' = power,
           listed' = listed, priced' = priced,
           \/ job' = job
           \/ job' = <<>>
           \/ job # <<>> /\ job' = Tail(job) /\ \A c : ~Secures(c, Head(job))
    PROVE  OrderInv'
  <1>1. Stays
    BY OracleStays, RoleStays, StaysWhen DEF OrderInv
  <1>2. Steps(job)' /\ \A c : Secured(c)' \/ InOrder(c, job)'
    <2>1. CASE job' = job
      <3>1. \A c : InOrder(c, job) => InOrder(c, job)'
        BY <2>1, InOrderPrimed DEF OrderInv
      <3>2. Steps(job)'
        BY <2>1 DEF OrderInv, Steps
      <3> QED
        BY <1>1, <3>1, <3>2 DEF OrderInv, Stays
    <2>2. CASE job' = <<>>
      BY <2>2, EmptyQuiet, StepsEmpty, InOrderPrimed
    <2>3. CASE job # <<>> /\ job' = Tail(job) /\ \A c : ~Secures(c, Head(job))
      BY <1>1, <2>3, AdvanceInOrder
    <2> QED
      BY <2>1, <2>2, <2>3
  <1> QED
    BY <1>1, <1>2, OrderKept DEF OrderInv

\* A run starts.
LEMMA RunKeepsOrder ==
    ASSUME OrderInv, NEW s, Steps(s), \A c : Secured(c) \/ InOrder(c, s), job' = s,
           UNCHANGED <<market, config, chain, disk>>
    PROVE  OrderInv'
  <1>1. /\ market' = market /\ config' = config
        /\ book' = book /\ initialized' = initialized /\ artifacts' = artifacts
        /\ migrations' = migrations /\ power' = power /\ listed' = listed /\ priced' = priced
    BY DEF chain, disk
  <1>2. Stays
    BY <1>1, OracleStays, RoleStays, StaysWhen DEF OrderInv
  <1>3. Steps(job)'
    BY DEF Steps
  <1>4. \A c : Secured(c)' \/ InOrder(c, job)'
    BY <1>2, InOrderPrimed DEF Stays
  <1> QED
    BY <1>1, <1>2, <1>3, <1>4, OrderKept DEF OrderInv

LEMMA AfreshKeepsOrder ==
    ASSUME OrderInv, NEW transfer, DeployAfresh(transfer) PROVE OrderInv'
  <1>1. PICK s : s = FlattenSeq(Scripts) \o AfterDeploy(transfer)
    OBVIOUS
  <1>2. Steps(s) /\ \A c : c # "transfer" => InOrder(c, s)
    BY <1>1, DeployAfreshInOrder
  <1>3. job' = s /\ config' = config /\ migrations' = {} /\ book' = {} /\ listed' = {}
        /\ artifacts' = {}
    BY <1>1 DEF DeployAfresh
  <1>4. Steps(job)' /\ \A c : Secured(c)' \/ InOrder(c, job)'
    <2>1. \A c \in Marks : Secured(c)'
      <3>1. (\A c \in Marks : Secured(c))'
        BY MarksAreSecured, PTL
      <3> QED
        BY <3>1 DEF Marks
    <2> QED
      BY <1>2, <1>3, <2>1, InOrderPrimed DEF Steps, Marks
  <1> QED
    BY <1>3, <1>4 DEF OrderInv

LEMMA TasksInOrder ==
    ASSUME OrderInv, "ReservesInit" \in migrations
    PROVE  /\ Steps(AddReserves) /\ \A c : Secured(c) \/ InOrder(c, AddReserves)
           /\ Steps(UpgradeRSTokens) /\ \A c : Secured(c) \/ InOrder(c, UpgradeRSTokens)
           /\ Steps(TransferProtocolOwnership \o RenouncePoolAdmin)
           /\ \A c : Secured(c) \/ InOrder(c, TransferProtocolOwnership \o RenouncePoolAdmin)
  <1>1. \A c \in Grounds \cup {"Registry", "Provider", "ACLManager"} : Secured(c)
    <2>1. \A c \in Grounds \cup {"Registry", "Provider", "ACLManager"} :
              <<"ReservesInit", c>> \in RecordedFor
      BY DEF RecordedFor
    <2> QED
      BY <2>1 DEF OrderInv
  <1> QED
    BY <1>1, AddReservesInOrder, UpgradeInOrder, RunTransferInOrder, MarksAreSecured DEF Marks

LEMMA TaskKeepsOrder ==
    ASSUME OrderInv, NEW s, Steps(s), \A c : Secured(c) \/ InOrder(c, s), RunTask(s)
    PROVE  OrderInv'
  BY RunKeepsOrder DEF RunTask

\* A configuration that is extended names what it named.
LEMMA AppendKeeps ==
    ASSUME NEW S, NEW s \in Seq(S), NEW a \in S
    PROVE  Append(s, a) \in Seq(S) /\ Range(s) \subseteq Range(Append(s, a))
  <1>1. PICK t : t = Append(s, a)
    OBVIOUS
  <1>2. /\ t \in Seq(S) /\ Len(t) = Len(s) + 1 /\ Len(s) \in Nat
        /\ \A i \in 1 .. Len(s) : t[i] = s[i]
        /\ DOMAIN s = 1 .. Len(s) /\ DOMAIN t = 1 .. Len(t)
    BY <1>1, AppendProperties, LenProperties
  <1>3. ASSUME NEW x \in Range(s) PROVE x \in Range(t)
    <2>1. PICK i \in 1 .. Len(s) : x = s[i]
      BY <1>2 DEF Range
    <2>2. i \in DOMAIN t /\ t[i] = x
      BY <1>2, <2>1
    <2> QED
      BY <2>2 DEF Range
  <1> QED
    BY <1>1, <1>2, <1>3

LEMMA AddToConfigKeepsOrder ==
    ASSUME OrderInv, NEW a \in LaterAssets, AddToConfig(a) PROVE OrderInv'
  <1>1. /\ market' = market /\ config' = Append(config, a) /\ job' = job
        /\ book' = book /\ initialized' = initialized /\ artifacts' = artifacts
        /\ migrations' = migrations /\ power' = power /\ listed' = listed /\ priced' = priced
    BY DEF AddToConfig, chain, disk
  <1>2. config' \in Seq(Assets) /\ Range(config) \subseteq Range(config')
    <2>1. a \in Assets /\ config \in Seq(Assets)
      BY DEF Assets, OrderInv
    <2> QED
      BY <1>1, <2>1, AppendKeeps
  <1>3. Stays
    BY <1>1, <1>2, OracleStays, RoleStays, StaysWhen DEF OrderInv
  <1>4. Steps(job)' /\ \A c : Secured(c)' \/ InOrder(c, job)'
    <2>1. \A c : InOrder(c, job) => InOrder(c, job)'
      BY <1>1, InOrderPrimed DEF OrderInv
    <2>2. Steps(job)'
      BY <1>1 DEF OrderInv, Steps
    <2> QED
      BY <1>3, <2>1, <2>2 DEF OrderInv, Stays
  <1> QED
    BY <1>1, <1>2, <1>3, <1>4, OrderKept

LEMMA SaveForeignKeepsOrder == ASSUME OrderInv, SaveForeign PROVE OrderInv'
  <1>1. /\ market' = market /\ config' = config /\ job' = job
        /\ book' = book /\ initialized' = initialized /\ artifacts' = artifacts \cup Foreign
        /\ migrations' = migrations /\ power' = power /\ listed' = listed /\ priced' = priced
    BY DEF SaveForeign, chain
  <1>2. "Oracle" \notin Foreign
    BY DeploymentAssumption DEF Contracts
  <1>3. Stays
    BY <1>1, OracleStays, RoleStays, StaysWhen DEF OrderInv
  <1>4. Steps(job)' /\ \A c : Secured(c)' \/ InOrder(c, job)'
    <2>1. \A c : InOrder(c, job) => InOrder(c, job)'
      BY <1>1, InOrderPrimed DEF OrderInv
    <2>2. Steps(job)'
      BY <1>1 DEF OrderInv, Steps
    <2> QED
      BY <1>3, <2>1, <2>2 DEF OrderInv, Stays
  <1> QED
    BY <1>1, <1>2, <1>3, <1>4, OrderKept DEF OrderInv

LEMMA OrderInitially == Init => OrderInv
  <1> SUFFICES ASSUME Init PROVE OrderInv
    OBVIOUS
  <1>1. config = FirstAssets /\ job = <<>> /\ migrations = {} /\ book = {} /\ listed = {}
        /\ artifacts = {}
    BY DEF Init
  <1>2. config \in Seq(Assets)
    BY <1>1, DeploymentAssumption
  <1>3. Steps(job) /\ \A c : InOrder(c, job)
    BY <1>1, EmptyQuiet, StepsEmpty
  <1> QED
    BY <1>1, <1>2, <1>3 DEF OrderInv

LEMMA OrderInductive == OrderInv /\ [Next]_vars => OrderInv'
  <1> SUFFICES ASSUME OrderInv, [Next]_vars PROVE OrderInv'
    OBVIOUS
  <1>1. CASE Proceed
    <2>1. CASE Finish
      <3>1. /\ job # <<>> /\ Head(job).op = "end" /\ job' = Tail(job)
            /\ UNCHANGED <<market, config, chain, disk>>
        BY <2>1 DEF Finish, Doing
      <3>2. \A c : ~Secures(c, Head(job))
        BY <3>1 DEF Secures
      <3> QED
        BY <3>1, <3>2, NothingKeepsOrder DEF chain, disk
    <2>2. CASE Abort
      BY <2>2, NothingKeepsOrder DEF Abort, chain, disk
    <2> QED
      BY <1>1, <2>1, <2>2, DeployKeepsOrder, InitializeKeepsOrder, PowerKeepsOrder,
         BookKeepsOrder, SettingsKeepOrder, ListKeepsOrder, SourcesKeepOrder, DiskKeepsOrder,
         CheckKeepsOrder, ReadKeepsOrder DEF Proceed
  <1>2. CASE Crash
    BY <1>2, NothingKeepsOrder DEF Crash, chain, disk
  <1>3. ASSUME NEW transfer \in BOOLEAN, DeployAfresh(transfer) PROVE OrderInv'
    BY <1>3, AfreshKeepsOrder
  <1>4. ASSUME NEW transfer \in BOOLEAN, DeployAgain(transfer) PROVE OrderInv'
    BY <1>4, DeployRunInOrder, RunKeepsOrder DEF DeployAgain
  <1>5. CASE RunAddReserves
    BY <1>5, TasksInOrder, TaskKeepsOrder DEF RunAddReserves, RunTask
  <1>6. CASE RunTransfer
    BY <1>6, TasksInOrder, TaskKeepsOrder DEF RunTransfer, RunTask
  <1>7. CASE RunUpgrade
    BY <1>7, TasksInOrder, TaskKeepsOrder DEF RunUpgrade, RunTask
  <1>8. ASSUME NEW a \in LaterAssets, AddToConfig(a) PROVE OrderInv'
    BY <1>8, AddToConfigKeepsOrder
  <1>9. CASE SaveForeign
    BY <1>9, SaveForeignKeepsOrder
  <1>10. ASSUME NEW a \in Assets, Supply(a) PROVE OrderInv'
    BY <1>10, NothingKeepsOrder DEF Supply, disk
  <1>11. CASE UNCHANGED vars
    BY <1>11, NothingKeepsOrder DEF vars, chain, disk
  <1> QED
    BY <1>1, <1>2, <1>3, <1>4, <1>5, <1>6, <1>7, <1>8, <1>9, <1>10, <1>11 DEF Next

\* Whatever is used has been secured: at every step of every run, wherever the
\* runs before it ended and whatever was skipped (hardhat-deploy's migrations,
\* the guards on the provider's book).
THEOREM StepsInOrder == Spec => []OrderInv
  BY OrderInitially, OrderInductive, PTL DEF Spec

\* SealedBeforeUse holds for every market, every list of assets and any number
\* of crashes: no proxy is put before an implementation of the deployment scripts
\* that is still open.  The RSToken of upgrade-rstokens, which nobody initialises,
\* is not among them.
THEOREM ImplementationsAreSealed == Spec => []SealedBeforeUse
  <1>1. OrderInv => SealedBeforeUse
    <2> SUFFICES ASSUME OrderInv PROVE SealedBeforeUse
      OBVIOUS
    <2>1. "Pool" \in book => Secured("PoolImpl")
      BY DEF OrderInv, BookedFor
    <2>2. "PoolConfigurator" \in book => Secured("ConfiguratorImpl")
      BY DEF OrderInv, BookedFor
    <2>3. "Incentives" \in book => Secured("IncentivesImpl")
      BY DEF OrderInv, BookedFor
    <2>4. listed # {} => \A c \in Range(TokenImpls) : Secured(c)
      BY DEF OrderInv, Grounds
    <2> QED
      BY <2>1, <2>2, <2>3, <2>4 DEF SealedBeforeUse, Secured, Seals
  <1> QED
    BY <1>1, StepsInOrder, PTL

\* OpenIsPriced holds: reserves of a deployment are open to users only once the
\* oracle has their sources and the provider has the oracle.
THEOREM OpenReservesArePriced == Spec => []OpenIsPriced
  <1>1. OrderInv => OpenIsPriced
    <2> SUFFICES ASSUME OrderInv, NEW a \in Range(FirstAssets), IsListed(a)
                 PROVE  a \in priced /\ "PriceOracle" \in book
      BY DEF OpenIsPriced
    <2>1. listed # {}
      BY DEF IsListed
    <2>2. Secured("Oracle") /\ Secured("PriceOracle")
      BY <2>1 DEF OrderInv, Grounds
    <2> QED
      BY <2>2 DEF Secured
  <1> QED
    BY <1>1, StepsInOrder, PTL

\* What a step of AdminsRemain may not do.
AdminsKept ==
    \A r \in {"DEFAULT_ADMIN", "POOL_ADMIN"} :
        SomeoneHolds(r) => SomeoneHolds(r)' \/ artifacts' = {}

LEMMA PowerKeepsAdmins == ASSUME OrderInv, ChangePower PROVE AdminsKept
  <1> SUFFICES ASSUME NEW r \in {"DEFAULT_ADMIN", "POOL_ADMIN"}, NEW a \in Accounts, Holds(r, a)
               PROVE  SomeoneHolds(r)'
    BY DEF AdminsKept, SomeoneHolds
  <1>1. r # "ACLAdmin" /\ r \notin Ownable /\ r \in Adminships
    BY DEF Adminships, Ownable
  <1>2. Accounts' = Accounts /\ Multisig \in Accounts /\ Deployer \in Accounts
    BY DEF Accounts
  <1>3. job # <<>>
    BY DEF ChangePower, Perform, Doing
  <1>4. Head(job).op \in {"revoke", "renounce"} /\ Head(job).on = r
        => <<r, Multisig>> \in power
    <2>1. Secured(r) => <<r, Multisig>> \in power
      BY <1>1 DEF Secured, Holds
    <2> QED
      BY <1>1, <1>3, <2>1, HeadSecured DEF Uses
  <1>5. /\ Head(job).op = "revoke" => Head(job).to \in {Deployer, Helper}
        /\ Head(job).op = "transfer" => Head(job).on # r
    <2>1. ~Secured("form")
      BY DEF Secured
    <2> QED
      BY <1>1, <1>3, <2>1, HeadSecured DEF Uses
  <1>6. <<r, a>> \in power'
        \/ (<<r, Multisig>> \in power /\ <<r, Multisig>> \in power')
    <2>1. <<r, a>> \in power /\ <<r, a>>[1] = r
      BY DEF Holds
    <2> QED
      BY <1>1, <1>4, <1>5, <2>1
         DEF ChangePower, Perform, Doing, Step, Multisig, Deployer, Helper
  <1> QED
    BY <1>2, <1>6 DEF SomeoneHolds, Holds

LEMMA AdminsStep == OrderInv /\ [Next]_vars => AdminsKept
  <1> SUFFICES ASSUME OrderInv, [Next]_vars PROVE AdminsKept
    OBVIOUS
  <1>1. power \subseteq power' \/ artifacts' = {} \/ ChangePower
    BY DEF Next, Proceed, vars, chain, disk, DeployContract, InitializeContract, SetInBook,
           ChangeSettings, ListReserves, SetAssetSources, WriteToDisk, PassCheck, ReadChain,
           Finish, Abort, Crash, DeployAfresh, DeployAgain, RunAddReserves, RunTransfer,
           RunUpgrade, RunTask, AddToConfig, SaveForeign, Supply
  <1>2. CASE power \subseteq power'
    BY <1>2 DEF AdminsKept, SomeoneHolds, Holds, Accounts, Deployer, Multisig, Helper
  <1>3. CASE artifacts' = {}
    BY <1>3 DEF AdminsKept
  <1> QED
    BY <1>1, <1>2, <1>3, PowerKeepsAdmins

\* AdminsRemain holds: no transaction leaves the market without an account that
\* can grant roles, or without one that can configure it.
THEOREM SomeAdminRemains == Spec => AdminsRemain
  <1>1. OrderInv /\ [Next]_vars => [AdminsKept]_vars
    BY AdminsStep
  <1> QED
    BY <1>1, StepsInOrder, PTL DEF AdminsRemain, AdminsKept, Spec

-----------------------------------------------------------------------------
(* What follows a read. *)

Powers == Roles \cup Ownable \cup {"ACLAdmin"}

\* Steps that take a power from the deployer, or come to do so.
Sheds(p, x) ==
    \/ x.op = "read" /\ x.on = p
    \/ x.op = "revoke" /\ x.on = p /\ x.to = Deployer
    \/ x.op = "transfer" /\ x.on = p /\ x.to = Multisig
    \/ x.op = "setACLAdmin" /\ x.to = Multisig /\ p = "ACLAdmin"

\* Steps that give the deployer one.
Gives(p, x) ==
    \/ x.op = "deploy" /\ x.on = p /\ p \in Ownable
    \/ x.op = "deploy" /\ x.on = "ACLManager" /\ p = "DEFAULT_ADMIN"
    \/ x.op \in {"transfer", "grant"} /\ x.on = p /\ x.to = Deployer
    \/ x.op = "setACLAdmin" /\ x.to = Deployer /\ p = "ACLAdmin"

\* Steps that may follow a read.
Tame(x) ==
    /\ x.op \in {"book", "save", "list", "grant", "configure", "revoke", "put", "setACLAdmin",
                 "transfer", "renounce"}
    /\ x.op \in {"grant", "setACLAdmin", "transfer"} => x.to # Deployer
    /\ x.op = "list" => Range(x.assets) \subseteq Range(config)

AllTame(s) == Steps(s) /\ \A i \in 1 .. Len(s) : Tame(s[i])

LEMMA TameForms ==
    /\ \A c : Tame(Book(c)) /\ Tame(Save(c)) /\ Tame(Configure(c)) /\ Tame(Renounce(c))
    /\ \A k, c, a : Tame(Put(k, c, a))
    /\ \A r, a : Tame(Revoke(r, a))
    /\ \A r : Tame(Grant(r, Helper)) /\ Tame(Grant(r, Multisig)) /\ Tame(Transfer(r, Multisig))
    /\ Tame(SetACLAdmin(Multisig))
  BY DEF Tame, Book, Save, Configure, Renounce, Put, Revoke, Grant, Transfer, SetACLAdmin,
         Helper, Multisig, Deployer

LEMMA TameTuple ==
    ASSUME NEW a, NEW b, NEW c, Tame(a), Tame(b), Tame(c)
    PROVE  AllTame(<<>>) /\ AllTame(<<a>>) /\ AllTame(<<a, b>>) /\ AllTame(<<a, b, c>>)
  <1> DEFINE S == {a, b, c}
  <1>1. <<>> \in Seq(S) /\ <<a>> \in Seq(S) /\ <<a, b>> \in Seq(S) /\ <<a, b, c>> \in Seq(S)
    OBVIOUS
  <1>2. \A x \in S : Tame(x)
    OBVIOUS
  <1>3. \A s \in Seq(S) : AllTame(s)
    <2> HIDE DEF S
    <2> QED
      BY <1>2, LenProperties DEF AllTame, Steps
  <1> QED
    BY <1>1, <1>3

LEMMA PutsForm ==
    ASSUME NEW kind, NEW as, Steps(as)
    PROVE  /\ Steps(Puts(kind, as)) /\ Len(Puts(kind, as)) = Len(as)
           /\ \A i \in 1 .. Len(as) : Puts(kind, as)[i] = Put(kind, as[i], "POOL_ADMIN")
  <1>1. Len(as) \in Nat /\ DOMAIN as = 1 .. Len(as)
    BY StepsShape
  <1>2. PICK f : f = Puts(kind, as)
    OBVIOUS
  <1>3. f = [i \in 1 .. Len(as) |-> Put(kind, as[i], "POOL_ADMIN")]
    BY <1>1, <1>2 DEF Puts
  <1>4. /\ f = [i \in 1 .. Len(as) |-> f[i]]
        /\ \A i \in 1 .. Len(as) : f[i] = Put(kind, as[i], "POOL_ADMIN")
    BY <1>3
  <1>5. Steps(f) /\ Len(f) = Len(as)
    BY <1>1, <1>4, StepsMap
  <1> QED
    BY <1>2, <1>4, <1>5

LEMMA PutsTame ==
    ASSUME NEW kind, NEW S, config \in Seq(Assets)
    PROVE  AllTame(Puts(kind, Among(config, S)))
  <1>1. Steps(Among(config, S))
    BY AmongRange DEF Steps
  <1> QED
    BY <1>1, PutsForm, TameForms DEF AllTame

LEMMA ListsTame ==
    ASSUME config \in Seq(Assets), NEW t
    PROVE  AllTame(InitReservesByHelper(t))
  <1>1. PICK s : s = Among(KnownAssets, {a \in Assets : ~IsListed(a)})
    OBVIOUS
  <1>2. s \in Seq(Assets) /\ Range(s) \subseteq Range(config)
    <2>1. KnownAssets \in Seq(Assets) /\ Range(KnownAssets) \subseteq Range(config)
      BY AmongRange DEF KnownAssets
    <2> QED
      BY <1>1, <2>1, AmongRange
  <1>3. Len(s) \in Nat /\ \A i \in 1 .. Len(s) : s[i] \in Range(config)
    <2>1. Len(s) \in Nat /\ DOMAIN s = 1 .. Len(s)
      BY <1>2, LenProperties
    <2>2. \A i \in 1 .. Len(s) : s[i] \in Range(s)
      BY <2>1 DEF Range
    <2> QED
      BY <1>2, <2>1, <2>2
  <1>4. PICK n \in Nat : n = (Len(s) + InitChunks - 1) \div InitChunks
    BY <1>3 DEF InitChunks
  <1>5. PICK new : new = Chunks(s, InitChunks)
    OBVIOUS
  <1>6. /\ DOMAIN new = 1 .. n
        /\ \A k \in 1 .. n : new[k] = SubSeq(s, (k - 1) * InitChunks + 1,
                 IF k * InitChunks <= Len(s) THEN k * InitChunks ELSE Len(s))
    BY <1>4, <1>5 DEF Chunks
  <1>7. ASSUME NEW k \in 1 .. n PROVE Range(new[k]) \subseteq Range(config)
    <2>1. PICK lo, hi : /\ lo = (k - 1) * InitChunks + 1
                        /\ hi = IF k * InitChunks <= Len(s) THEN k * InitChunks ELSE Len(s)
      OBVIOUS
    <2>2. lo \in Int /\ hi \in Int /\ lo >= 1 /\ hi <= Len(s)
      BY <1>3, <2>1 DEF InitChunks
    <2>3. \A i \in lo .. hi : s[i] \in Range(config)
      BY <1>3, <2>2
    <2>4. SubSeq(s, lo, hi) \in Seq(Range(config))
      BY <2>2, <2>3, SubSeqProperties
    <2>5. new[k] \in Seq(Range(config))
      BY <1>6, <2>1, <2>4
    <2>6. /\ DOMAIN new[k] = 1 .. Len(new[k])
          /\ \A i \in 1 .. Len(new[k]) : new[k][i] \in Range(config)
      BY <2>5, LenProperties
    <2> QED
      BY <2>6 DEF Range
  <1>8. PICK f : f = InitReservesByHelper(t)
    OBVIOUS
  <1>9. f = [i \in 1 .. n |-> List(new[i], t)]
    BY <1>1, <1>5, <1>6, <1>8 DEF InitReservesByHelper
  <1>10. f = [i \in 1 .. n |-> f[i]] /\ \A i \in 1 .. n : f[i] = List(new[i], t)
    BY <1>9
  <1>11. Steps(f) /\ Len(f) = n
    BY <1>10, StepsMap
  <1>12. \A l : Range(l) \subseteq Range(config) => Tame(List(l, t))
    BY DEF Tame, List
  <1> QED
    BY <1>7, <1>8, <1>10, <1>11, <1>12 DEF AllTame

LEMMA FollowingTame ==
    ASSUME config \in Seq(Assets), NEW step, step.op = "read", step.on \in ReadNames
    PROVE  AllTame(Following(step))
  <1>0. AllTame(<<>>) /\ \A x : Tame(x) => AllTame(<<x>>)
    BY TameTuple, TameForms
  <1>1. CASE step.on \in {"DataProvider", "PriceOracle", "Pool", "PoolConfigurator"}
    <2>1. Following(step) = Attach(step.on)
      BY <1>1 DEF Following, Roles, Ownable
    <2> QED
      BY <1>0, <2>1, TameForms DEF Attach, When
  <1>2. CASE step.on = "IncentivesController"
    <2>1. Following(step) = When("Incentives" \notin book,
                                 <<Book("Incentives"), Save("IncentivesProxy")>>)
      BY <1>2 DEF Following, Roles, Ownable
    <2>2. AllTame(<<Book("Incentives"), Save("IncentivesProxy")>>)
      BY TameForms, TameTuple
    <2> QED
      BY <1>0, <2>1, <2>2 DEF When
  <1>3. CASE step.on = "initReserves"
    <2>1. Following(step) = InitReservesByHelper(step.treasury)
      BY <1>3 DEF Following, Roles, Ownable
    <2> QED
      BY <2>1, ListsTame
  <1>4. CASE step.on = "configureReserves"
    <2>1. Following(step) = ConfigureReservesByHelper
      BY <1>4 DEF Following, Roles, Ownable
    <2>2. PICK new : new = Among(KnownAssets, {a \in Assets : <<"collateral", a>> \notin settings})
      OBVIOUS
    <2>3. AllTame(<<Grant("RISK_ADMIN", Helper), Configure(new), Revoke("RISK_ADMIN", Helper)>>)
      BY TameForms, TameTuple
    <2> QED
      BY <1>0, <2>1, <2>2, <2>3 DEF ConfigureReservesByHelper, When
  <1>5. CASE step.on \in {"review-stable-borrow", "upgrade-rstokens"}
    <2>1. Following(step) = IF step.on = "review-stable-borrow" THEN ReviewStableBorrow
                                                                 ELSE UpgradeEachRSToken
      BY <1>5 DEF Following, Roles, Ownable
    <2>2. AllTame(ReviewStableBorrow) /\ AllTame(UpgradeEachRSToken)
      BY PutsTame DEF ReviewStableBorrow, UpgradeEachRSToken
    <2> QED
      BY <2>1, <2>2
  <1>6. CASE step.on \in Roles
    <2>1. Following(step) = HandOver(step.on)
      BY <1>6 DEF Following, Roles, Ownable
    <2>2. PICK r : r = step.on
      OBVIOUS
    <2>3. AllTame(<<Grant(r, Multisig), Revoke(r, Deployer)>>)
      BY TameForms, TameTuple
    <2> QED
      BY <1>0, <2>1, <2>2, <2>3 DEF HandOver, When
  <1>7. CASE step.on = "ACLAdmin"
    <2>1. Following(step) = When(Holds("ACLAdmin", Deployer), <<SetACLAdmin(Multisig)>>)
      BY <1>7 DEF Following, Roles, Ownable
    <2> QED
      BY <1>0, <2>1, TameForms DEF When
  <1>8. CASE step.on \in Ownable
    <2>1. Following(step) = When(Holds(step.on, Deployer), <<Transfer(step.on, Multisig)>>)
      BY <1>8 DEF Following, Roles, Ownable
    <2> QED
      BY <1>0, <2>1, TameForms DEF When
  <1>9. CASE step.on = "renounce-pool-admin"
    <2>1. Following(step) = When(Holds("POOL_ADMIN", Deployer) /\ Holds("POOL_ADMIN", Multisig),
                                 <<Renounce("POOL_ADMIN")>>)
      BY <1>9 DEF Following, Roles, Ownable
    <2> QED
      BY <1>0, <2>1, TameForms DEF When
  <1> QED
    BY <1>1, <1>2, <1>3, <1>4, <1>5, <1>6, <1>7, <1>8, <1>9 DEF ReadNames

\* A power the deployer holds and that is read is shed by what follows.
LEMMA FollowingSheds ==
    ASSUME NEW step, step.op = "read", step.on \in Powers, Holds(step.on, Deployer)
    PROVE  \E i \in 1 .. Len(Following(step)) : Sheds(step.on, Following(step)[i])
  <1>1. PICK p : p = step.on
    OBVIOUS
  <1>2. CASE step.on \in Roles
    <2>1. PICK y : y = Revoke(p, Deployer)
      OBVIOUS
    <2>2. PICK x : x = Grant(p, Multisig)
      OBVIOUS
    <2>3. Following(step) = <<x, y>>
      <3>1. Following(step) = HandOver(step.on)
        BY <1>2 DEF Following, Roles, Ownable
      <3> QED
        BY <3>1, <1>1, <2>1, <2>2 DEF HandOver, When
    <2>4. Sheds(p, y)
      BY <2>1 DEF Sheds, Revoke
    <2>5. 2 \in 1 .. Len(<<x, y>>) /\ <<x, y>>[2] = y
      OBVIOUS
    <2> QED
      BY <1>1, <2>3, <2>4, <2>5
  <1>3. CASE step.on = "ACLAdmin"
    <2>1. PICK y : y = SetACLAdmin(Multisig)
      OBVIOUS
    <2>2. Following(step) = <<y>>
      BY <1>3, <2>1 DEF Following, Roles, Ownable, When
    <2>3. Sheds(p, y)
      BY <1>1, <1>3, <2>1 DEF Sheds, SetACLAdmin
    <2> QED
      BY <1>1, <2>2, <2>3
  <1>4. CASE step.on \in Ownable
    <2>1. PICK y : y = Transfer(p, Multisig)
      OBVIOUS
    <2>2. Following(step) = <<y>>
      BY <1>1, <1>4, <2>1 DEF Following, Roles, Ownable, When
    <2>3. Sheds(p, y)
      BY <2>1 DEF Sheds, Transfer
    <2> QED
      BY <1>1, <2>2, <2>3
  <1> QED
    BY <1>2, <1>3, <1>4 DEF Powers

-----------------------------------------------------------------------------
(* The upgrade of the RSTokens: while a run has still to end it, each listed
   reserve has been upgraded or is among those the run has left. *)

EndsUpgrade(s) == \E j \in 1 .. Len(s) : s[j].op = "end" /\ s[j].on = "upgrade"

\* Every reserve runs the new implementation, and those to come will.
Upgraded ==
    /\ "NextRSToken" \in artifacts
    /\ \A a \in Assets : IsListed(a) => <<"upgraded", a>> \in settings

\* The reserves that are not upgraded yet are those the run puts.
Upgrading(s) ==
    /\ "NextRSToken" \in artifacts
    /\ Len(s) \in Nat \ {0} /\ s[Len(s)].op = "end"
    /\ \A i \in 1 .. (Len(s) - 1) : s[i].op = "put" /\ s[i].kind = "upgraded"
    /\ \A a \in Assets : IsListed(a) =>
           \/ <<"upgraded", a>> \in settings
           \/ \E i \in 1 .. (Len(s) - 1) : s[i].on = a

ListsKnown(s) == \A j \in 1 .. Len(s) : s[j].op = "list" => Range(s[j].assets) \subseteq Range(config)

UpgradeInv ==
    /\ OrderInv
    /\ ListsKnown(job)
    /\ \A a, t : <<a, t>> \in listed => a \in Range(config)
    /\ "upgrade" \in finished => Upgraded
    /\ EndsUpgrade(job) =>
           \/ job = UpgradeRSTokens
           \/ "NextRSToken" \in artifacts /\ job = <<Read("upgrade-rstokens"), End("upgrade")>>
           \/ Upgrading(job)

\* What each step of a process leaves of the run, and what it changes of the
\* state that the upgrade is about.
LEMMA ProceedForms ==
    ASSUME Proceed
    PROVE  /\ market' = market /\ config' = config
           /\ artifacts \subseteq artifacts' /\ settings \subseteq settings' /\ job # <<>>
           /\ \/ job' = <<>> /\ UNCHANGED <<artifacts, settings, listed, finished>>
              \/ /\ job' = IF Head(job).op = "read" THEN Following(Head(job)) \o Tail(job)
                                                   ELSE Tail(job)
                 /\ Head(job).op = "deploy" => Head(job).on \in artifacts'
                 /\ Head(job).op = "put" =>
                        <<Head(job).kind, Head(job).on>> \in settings'
                 /\ listed' = IF Head(job).op = "list"
                              THEN listed \cup (Range(Head(job).assets) \X {Head(job).treasury})
                              ELSE listed
                 /\ Head(job).op = "list" /\ "NextRSToken" \in artifacts
                        => {"upgraded"} \X Range(Head(job).assets) \subseteq settings'
                 /\ finished' = IF Head(job).op = "end" THEN finished \cup {Head(job).on}
                                                       ELSE finished
  <1>1. CASE DeployContract
    BY <1>1 DEF DeployContract, Perform, Doing, Advance, Step
  <1>2. CASE InitializeContract
    BY <1>2 DEF InitializeContract, Perform, Doing, Advance, Step, disk
  <1>3. CASE ChangePower
    BY <1>3 DEF ChangePower, Perform, Doing, Advance, Step, disk
  <1>4. CASE SetInBook
    BY <1>4 DEF SetInBook, Perform, Doing, Advance, Step, disk
  <1>5. CASE ChangeSettings
    BY <1>5 DEF ChangeSettings, Perform, Doing, Advance, Step, disk
  <1>6. CASE ListReserves
    <2>1. /\ job # <<>> /\ Head(job).op = "list" /\ Advance
          /\ listed' = listed \cup (Range(Head(job).assets) \X {Head(job).treasury})
          /\ settings' = IF "NextRSToken" \in artifacts
                   THEN settings \cup ({"upgraded"} \X Range(Head(job).assets))
                   ELSE settings
          /\ artifacts' = artifacts
      BY <1>6 DEF ListReserves, Perform, Doing, Step, disk
    <2> QED
      BY <2>1 DEF Advance
  <1>7. CASE SetAssetSources
    BY <1>7 DEF SetAssetSources, Perform, Doing, Advance, Step, disk
  <1>8. CASE WriteToDisk
    BY <1>8 DEF WriteToDisk, Perform, Doing, Advance, Step, chain
  <1>9. CASE PassCheck
    BY <1>9 DEF PassCheck, Perform, Doing, Advance, Step, chain, disk
  <1>10. CASE ReadChain
    BY <1>10 DEF ReadChain, Doing, Step, chain, disk
  <1>11. CASE Finish
    BY <1>11 DEF Finish, Doing, Step, chain, disk
  <1>12. CASE Abort
    BY <1>12 DEF Abort, chain, disk
  <1> QED
    BY <1>1, <1>2, <1>3, <1>4, <1>5, <1>6, <1>7, <1>8, <1>9, <1>10, <1>11, <1>12 DEF Proceed

\* A run that begins lists nothing by itself, and only upgrade-rstokens ends it.
LEMMA Unmarked ==
    ASSUME NEW s
    PROVE  /\ InOrder("list", s) => ListsKnown(s)
           /\ InOrder("upgrade", s) => ~EndsUpgrade(s)
  <1>1. \A x : ~Secures("list", x) /\ ~Secures("upgrade", x)
    BY TokenNames DEF Secures, Seals, Adminships, Deployed, Ownable
  <1>2. \A x : x.op = "list" => Uses("list", x)
    BY DEF Uses
  <1>3. \A x : x.op = "end" /\ x.on = "upgrade" => Uses("upgrade", x)
    BY DEF Uses
  <1> QED
    BY <1>1, <1>2, <1>3 DEF InOrder, ListsKnown, EndsUpgrade

LEMMA NothingMarked == ListsKnown(<<>>) /\ ~EndsUpgrade(<<>>)
  BY Unmarked, EmptyQuiet

\* The runs that begin, but for the upgrade.
LEMMA RunsUnmarked ==
    ASSUME OrderInv
    PROVE  \A c \in {"list", "upgrade"} :
             /\ \A transfer \in BOOLEAN : /\ InOrder(c, DeployRun(transfer))
                                          /\ InOrder(c, FlattenSeq(Scripts) \o AfterDeploy(transfer))
             /\ InOrder(c, AddReserves)
             /\ InOrder(c, TransferProtocolOwnership \o RenouncePoolAdmin)
             /\ c = "list" => InOrder(c, UpgradeRSTokens)
  <1> SUFFICES ASSUME NEW c \in {"list", "upgrade"}
               PROVE  /\ \A transfer \in BOOLEAN :
                              /\ InOrder(c, DeployRun(transfer))
                              /\ InOrder(c, FlattenSeq(Scripts) \o AfterDeploy(transfer))
                      /\ InOrder(c, AddReserves)
                      /\ InOrder(c, TransferProtocolOwnership \o RenouncePoolAdmin)
                      /\ c = "list" => InOrder(c, UpgradeRSTokens)
    OBVIOUS
  <1>1. c \notin Early /\ c \notin Grounds /\ c \notin {"Registry", "Provider", "ACLManager", "transfer"}
    BY TokenNames DEF Early, Grounds
  <1>2. ASSUME NEW transfer PROVE InOrder(c, DeployRun(transfer))
    <2>1. config \in Seq(Assets)
      BY DEF OrderInv
    <2>2. PICK R : R = {i \in 1 .. 17 : Recorded(Scripts[i])}
      OBVIOUS
    <2>3. Unrecorded(Scripts) = Skipping(R)
      BY <2>2, SkippedScripts
    <2>4. PICK s : s = FlattenSeq(Unrecorded(Scripts))
      OBVIOUS
    <2>5. Steps(s) /\ InOrder(c, s)
      BY <1>1, <2>1, <2>3, <2>4, SkippingSteps, SkippingInOrder
    <2>6. DeployRun(transfer) = s \o AfterDeploy(transfer)
      BY <2>4 DEF DeployRun
    <2> QED
      BY <1>1, <2>1, <2>5, <2>6, AfterDeployInOrder, ConcatInOrder
  <1> QED
    BY <1>1, <1>2, DeployAfreshInOrder, AddReservesInOrder, RunTransferInOrder, UpgradeInOrder

-----------------------------------------------------------------------------

\* What is listed in the steps to come, when they are f and then the rest.
LEMMA ListsConcat ==
    ASSUME NEW s, NEW t, Steps(s), Steps(t), ListsKnown(s), ListsKnown(t)
    PROVE  ListsKnown(s \o t)
  <1>1. /\ Len(s \o t) = Len(s) + Len(t) /\ Len(s) \in Nat /\ Len(t) \in Nat
        /\ \A i \in 1 .. Len(s) : (s \o t)[i] = s[i]
        /\ \A i \in 1 .. Len(t) : (s \o t)[Len(s) + i] = t[i]
    BY StepsConcat, StepsShape
  <1> SUFFICES ASSUME NEW j \in 1 .. Len(s) + Len(t), (s \o t)[j].op = "list"
               PROVE  Range((s \o t)[j].assets) \subseteq Range(config)
    BY <1>1 DEF ListsKnown
  <1>2. CASE j <= Len(s)
    BY <1>1, <1>2 DEF ListsKnown
  <1>3. CASE ~(j <= Len(s))
    <2>1. j - Len(s) \in 1 .. Len(t) /\ Len(s) + (j - Len(s)) = j
      BY <1>1, <1>3
    <2> QED
      BY <1>1, <2>1 DEF ListsKnown
  <1> QED
    BY <1>2, <1>3

LEMMA EndsConcat ==
    ASSUME NEW s, NEW t, AllTame(s), Steps(t), EndsUpgrade(s \o t)
    PROVE  EndsUpgrade(t)
  <1>1. /\ Len(s \o t) = Len(s) + Len(t) /\ Len(s) \in Nat /\ Len(t) \in Nat
        /\ \A i \in 1 .. Len(s) : (s \o t)[i] = s[i]
        /\ \A i \in 1 .. Len(t) : (s \o t)[Len(s) + i] = t[i]
    BY StepsConcat, StepsShape DEF AllTame
  <1>2. PICK j \in 1 .. Len(s) + Len(t) : (s \o t)[j].op = "end" /\ (s \o t)[j].on = "upgrade"
    BY <1>1 DEF EndsUpgrade
  <1>3. ~(j <= Len(s))
    BY <1>1, <1>2 DEF AllTame, Tame
  <1>4. j - Len(s) \in 1 .. Len(t) /\ Len(s) + (j - Len(s)) = j
    BY <1>1, <1>3
  <1> QED
    BY <1>1, <1>2, <1>4 DEF EndsUpgrade

LEMMA TailMarks ==
    ASSUME NEW s, Steps(s), s # <<>>
    PROVE  /\ ListsKnown(s) => ListsKnown(Tail(s))
           /\ EndsUpgrade(Tail(s)) => EndsUpgrade(s)
  <1>1. /\ Len(Tail(s)) = Len(s) - 1 /\ Len(s) \in Nat \ {0}
        /\ \A i \in 1 .. Len(Tail(s)) : Tail(s)[i] = s[i + 1] /\ i + 1 \in 1 .. Len(s)
    BY StepsTail
  <1> QED
    BY <1>1 DEF ListsKnown, EndsUpgrade

\* The first step of a run that ends the upgrade.
LEMMA UpgradeHead ==
    ASSUME UpgradeInv, EndsUpgrade(job), job # <<>>
    PROVE  \/ Head(job) = Deploy("NextRSToken")
              /\ Tail(job) = <<Read("upgrade-rstokens"), End("upgrade")>>
           \/ "NextRSToken" \in artifacts /\ Head(job) = Read("upgrade-rstokens")
              /\ Tail(job) = <<End("upgrade")>>
           \/ Upgrading(job) /\ Head(job).op \in {"put", "end"}
              /\ (Head(job).op = "put" => Head(job).kind = "upgraded" /\ Upgrading(job))
              /\ (Head(job).op = "end" => Tail(job) = <<>> /\ Upgraded)
  <1>1. /\ Len(Tail(job)) = Len(job) - 1 /\ Len(job) \in Nat \ {0} /\ Head(job) = job[1]
        /\ Steps(Tail(job))
    BY StepsTail DEF UpgradeInv, OrderInv
  <1>2. CASE job = UpgradeRSTokens
    <2>1. PICK x, y, z : x = Deploy("NextRSToken") /\ y = Read("upgrade-rstokens") /\ z = End("upgrade")
      OBVIOUS
    <2>2. job = <<x, y, z>>
      BY <1>2, <2>1 DEF UpgradeRSTokens
    <2>3. Head(job) = x /\ Tail(job) = <<y, z>>
      BY <2>2
    <2> QED
      BY <2>1, <2>3
  <1>3. CASE "NextRSToken" \in artifacts /\ job = <<Read("upgrade-rstokens"), End("upgrade")>>
    <2>1. PICK y, z : y = Read("upgrade-rstokens") /\ z = End("upgrade")
      OBVIOUS
    <2>2. job = <<y, z>>
      BY <1>3, <2>1
    <2>3. Head(job) = y /\ Tail(job) = <<z>>
      BY <2>2
    <2> QED
      BY <1>3, <2>1, <2>3
  <1>4. CASE Upgrading(job)
    <2>1. CASE Len(job) = 1
      <3>1. Head(job).op = "end" /\ Upgraded
        BY <1>1, <1>4, <2>1 DEF Upgrading, Upgraded
      <3>2. Tail(job) = <<>>
        <4>1. Len(Tail(job)) = 0
          BY <1>1, <2>1
        <4> QED
          BY <1>1, <4>1, EmptySeq DEF Steps
      <3> QED
        BY <1>4, <3>1, <3>2
    <2>2. CASE Len(job) # 1
      <3>1. 1 \in 1 .. (Len(job) - 1)
        BY <1>1, <2>2
      <3>2. Head(job).op = "put" /\ Head(job).kind = "upgraded"
        BY <1>1, <1>4, <3>1 DEF Upgrading
      <3> QED
        BY <1>4, <3>2
    <2> QED
      BY <2>1, <2>2
  <1> QED
    BY <1>2, <1>3, <1>4 DEF UpgradeInv

LEMMA StepsThenOne ==
    ASSUME NEW s, NEW x, Steps(s)
    PROVE  /\ Steps(s \o <<x>>) /\ Len(s \o <<x>>) = Len(s) + 1
           /\ (s \o <<x>>)[Len(s) + 1] = x
           /\ \A i \in 1 .. Len(s) : (s \o <<x>>)[i] = s[i]
  <1>1. PICK t : t = <<x>>
    OBVIOUS
  <1>2. Steps(t)
    BY <1>1, One
  <1>3. Len(t) = 1 /\ t[1] = x
    BY <1>1, One
  <1>4. /\ Steps(s \o t) /\ Len(s \o t) = Len(s) + Len(t)
        /\ \A i \in 1 .. Len(s) : (s \o t)[i] = s[i]
        /\ \A i \in 1 .. Len(t) : (s \o t)[Len(s) + i] = t[i]
    BY <1>2, StepsConcat
  <1>5. 1 \in 1 .. Len(t)
    BY <1>3
  <1> QED
    BY <1>1, <1>3, <1>4, <1>5

\* The read of the reserves leaves a step for each that is listed.
LEMMA UpgradeRead ==
    ASSUME UpgradeInv, "NextRSToken" \in artifacts
    PROVE  Upgrading(UpgradeEachRSToken \o <<End("upgrade")>>)
  <1>1. PICK as : as = Among(config, {a \in Assets : IsListed(a)})
    OBVIOUS
  <1>2. as \in Seq(Assets) /\ Range(as) = Range(config) \cap {a \in Assets : IsListed(a)}
    BY <1>1, AmongRange DEF UpgradeInv, OrderInv
  <1>3. Steps(as) /\ DOMAIN as = 1 .. Len(as) /\ Len(as) \in Nat
    BY <1>2, LenProperties DEF Steps
  <1>4. PICK f : f = UpgradeEachRSToken
    OBVIOUS
  <1>5. f = Puts("upgraded", as)
    BY <1>1, <1>4 DEF UpgradeEachRSToken
  <1>6. /\ Steps(f) /\ Len(f) = Len(as)
        /\ \A i \in 1 .. Len(as) : f[i] = Put("upgraded", as[i], "POOL_ADMIN")
    BY <1>3, <1>5, PutsForm
  <1>7. PICK z : z = End("upgrade")
    OBVIOUS
  <1>8. Steps(f)
    BY <1>6
  <1>9. /\ Len(f \o <<z>>) = Len(f) + 1 /\ (f \o <<z>>)[Len(f) + 1] = z
        /\ \A i \in 1 .. Len(f) : (f \o <<z>>)[i] = f[i]
    BY <1>8, StepsThenOne
  <1>11. PICK g : g = f \o <<z>>
    OBVIOUS
  <1>12. /\ Len(g) = Len(as) + 1
         /\ \A i \in 1 .. Len(as) : g[i] = Put("upgraded", as[i], "POOL_ADMIN")
         /\ g[Len(as) + 1] = End("upgrade")
    <2>1. Len(f) = Len(as) /\ \A i \in 1 .. Len(as) : f[i] = Put("upgraded", as[i], "POOL_ADMIN")
      BY <1>6
    <2> QED
      BY ONLY <1>7, <1>9, <1>11, <2>1
  <1>13. /\ Len(g) \in Nat \ {0} /\ Len(g) - 1 = Len(as) /\ g[Len(g)].op = "end"
         /\ \A i \in 1 .. Len(as) : g[i].op = "put" /\ g[i].kind = "upgraded" /\ g[i].on = as[i]
    <2>1. /\ End("upgrade").op = "end"
          /\ \A x : /\ Put("upgraded", x, "POOL_ADMIN").op = "put"
                     /\ Put("upgraded", x, "POOL_ADMIN").kind = "upgraded"
                     /\ Put("upgraded", x, "POOL_ADMIN").on = x
      BY DEF Put, End
    <2>2. Len(as) \in Nat
      BY <1>3
    <2>3. PICK n : n = Len(as)
      OBVIOUS
    <2>4. n \in Nat /\ n + 1 \in Nat \ {0} /\ (n + 1) - 1 = n
      <3>1. n \in Nat
        BY ONLY <2>2, <2>3
      <3>2. n + 1 \in Nat
        BY ONLY <3>1
      <3>3. n + 1 # 0
        BY ONLY <3>1
      <3>4. (n + 1) - 1 = n
        BY ONLY <3>1
      <3> QED
        BY ONLY <3>1, <3>2, <3>3, <3>4
    <2>5. Len(g) = n + 1 /\ g[n + 1] = End("upgrade")
      BY <1>12, <2>3
    <2>6. Len(g) \in Nat \ {0} /\ Len(g) - 1 = Len(as) /\ g[Len(g)] = End("upgrade")
      BY ONLY <2>3, <2>4, <2>5
    <2> QED
      BY <1>12, <2>1, <2>6
  <1>14. ASSUME NEW a \in Assets, IsListed(a) PROVE \E i \in 1 .. Len(as) : g[i].on = a
    <2>1. a \in Range(config)
      BY <1>14 DEF IsListed, UpgradeInv
    <2>2. a \in Range(as)
      BY <1>2, <1>14, <2>1
    <2>3. PICK i \in 1 .. Len(as) : as[i] = a
      BY <1>3, <2>2 DEF Range
    <2> QED
      BY <1>13, <2>3
  <1>15. Upgrading(g)
    BY <1>13, <1>14 DEF Upgrading
  <1> QED
    BY <1>4, <1>7, <1>11, <1>15

\* An upgrade is put: one reserve less is left.
LEMMA UpgradePut ==
    ASSUME Steps(job), job # <<>>, Upgrading(job), Head(job).op = "put",
           Head(job).kind = "upgraded", market' = market, listed' = listed,
           artifacts \subseteq artifacts', settings \subseteq settings',
           <<"upgraded", Head(job).on>> \in settings', job' = Tail(job)
    PROVE  Upgrading(job)'
  <1>1. /\ Len(Tail(job)) = Len(job) - 1 /\ Len(job) \in Nat \ {0} /\ Head(job) = job[1]
        /\ \A i \in 1 .. Len(Tail(job)) : Tail(job)[i] = job[i + 1]
    BY StepsTail
  <1>2. Len(job) # 1
    BY <1>1 DEF Upgrading
  <1>3. PICK n : n = Len(Tail(job))
    OBVIOUS
  <1>4. n \in Nat \ {0} /\ Len(job) = n + 1 /\ (n + 1) - 1 = n /\ (n - 1) + 1 = n
    BY <1>1, <1>2, <1>3
  <1>5. Tail(job)[n].op = "end"
    BY <1>1, <1>3, <1>4 DEF Upgrading
  <1>6. \A i \in 1 .. (n - 1) : Tail(job)[i].op = "put" /\ Tail(job)[i].kind = "upgraded"
    BY <1>1, <1>3, <1>4 DEF Upgrading
  <1>7. ASSUME NEW a \in Assets, IsListed(a)'
        PROVE  <<"upgraded", a>> \in settings' \/ \E i \in 1 .. (n - 1) : Tail(job)[i].on = a
    <2>1. IsListed(a)
      BY <1>7 DEF IsListed, None
    <2>2. CASE <<"upgraded", a>> \in settings
      BY <2>2
    <2>3. CASE \E i \in 1 .. (Len(job) - 1) : job[i].on = a
      <3>1. PICK i \in 1 .. n : job[i].on = a
        BY <1>4, <2>3
      <3>2. CASE i = 1
        BY <1>1, <3>1, <3>2
      <3>3. CASE i # 1
        <4>1. i - 1 \in 1 .. (n - 1) /\ i - 1 \in 1 .. n /\ (i - 1) + 1 = i
          BY <1>4, <3>3
        <4>2. Tail(job)[i - 1].on = a
          BY <1>1, <1>3, <3>1, <4>1
        <4> QED
          BY <4>1, <4>2
      <3> QED
        BY <3>2, <3>3
    <2> QED
      BY <2>1, <2>2, <2>3 DEF Upgrading
  <1>8. Len(job') = n
    BY <1>3
  <1>9. Assets' = Assets
    BY DEF Assets
  <1>10. "NextRSToken" \in artifacts'
    BY DEF Upgrading
  <1> QED
    BY <1>4, <1>5, <1>6, <1>7, <1>8, <1>9, <1>10 DEF Upgrading

-----------------------------------------------------------------------------

\* Names that a primed formula needs unfolded.
LEMMA UpgradePrimed ==
    ASSUME NEW s, job' = s, config' = config, ListsKnown(s)
    PROVE  ListsKnown(job)'
  BY DEF ListsKnown, Range

\* Nothing the upgrade has done is undone.
LEMMA UpgradedKept ==
    ASSUME market' = market, artifacts \subseteq artifacts', settings \subseteq settings',
           Upgraded,
           \A a, t : <<a, t>> \in listed' =>
               <<a, t>> \in listed \/ <<"upgraded", a>> \in settings'
    PROVE  Upgraded'
  <1>1. Assets' = Assets
    BY DEF Assets
  <1>2. ASSUME NEW a \in Assets, IsListed(a)' PROVE <<"upgraded", a>> \in settings'
    <2>1. IsListed(a) \/ <<"upgraded", a>> \in settings'
      BY <1>2 DEF IsListed, None
    <2> QED
      BY <2>1 DEF Upgraded
  <1> QED
    BY <1>1, <1>2 DEF Upgraded

LEMMA ProceedKeepsUpgrade == ASSUME UpgradeInv, Proceed, OrderInv' PROVE UpgradeInv'
  <1>1. /\ market' = market /\ config' = config
        /\ artifacts \subseteq artifacts' /\ settings \subseteq settings' /\ job # <<>>
    BY ProceedForms
  <1>2. OrderInv /\ Steps(job) /\ config \in Seq(Assets)
    BY DEF UpgradeInv, OrderInv
  <1>3. Range(config)' = Range(config)
    BY <1>1 DEF Range
  <1>4. CASE job' = <<>> /\ UNCHANGED <<artifacts, settings, listed, finished>>
    <2>1. ListsKnown(job)'
      BY <1>1, <1>4, NothingMarked, UpgradePrimed
    <2>2. ~EndsUpgrade(job')
      BY <1>4, NothingMarked
    <2>3. "upgrade" \in finished' => Upgraded'
      BY <1>1, <1>4, UpgradedKept DEF UpgradeInv
    <2>4. \A a, t : <<a, t>> \in listed' => a \in Range(config)'
      BY <1>3, <1>4 DEF UpgradeInv
    <2>5. EndsUpgrade(job)' <=> EndsUpgrade(job')
      BY DEF EndsUpgrade
    <2> QED
      BY <2>1, <2>2, <2>3, <2>4, <2>5 DEF UpgradeInv
  <1>5. CASE /\ job' = IF Head(job).op = "read" THEN Following(Head(job)) \o Tail(job)
                                                 ELSE Tail(job)
             /\ Head(job).op = "deploy" => Head(job).on \in artifacts'
             /\ Head(job).op = "put" => <<Head(job).kind, Head(job).on>> \in settings'
             /\ listed' = IF Head(job).op = "list"
                          THEN listed \cup (Range(Head(job).assets) \X {Head(job).treasury})
                          ELSE listed
             /\ Head(job).op = "list" /\ "NextRSToken" \in artifacts
                    => {"upgraded"} \X Range(Head(job).assets) \subseteq settings'
             /\ finished' = IF Head(job).op = "end" THEN finished \cup {Head(job).on}
                                                    ELSE finished
    <2>1. /\ Steps(Tail(job)) /\ Head(job) = job[1] /\ 1 \in 1 .. Len(job)
          /\ ListsKnown(Tail(job)) /\ (EndsUpgrade(Tail(job)) => EndsUpgrade(job))
      BY <1>1, <1>2, StepsTail, TailMarks DEF UpgradeInv
    <2>2. Head(job).op = "read" => Head(job).on \in ReadNames
      <3>1. ~Secured("form")
        BY DEF Secured
      <3> QED
        BY <1>1, <1>2, <3>1, HeadSecured DEF Uses
    <2>3. PICK f : f = Following(Head(job))
      OBVIOUS
    <2>4. Head(job).op = "read" => AllTame(f)
      BY <1>2, <2>2, <2>3, FollowingTame
    <2>5. ListsKnown(job)'
      <3>1. AllTame(f) => Steps(f) /\ ListsKnown(f)
        BY DEF AllTame, Tame, ListsKnown
      <3>2. CASE Head(job).op = "read"
        <4>1. ListsKnown(f \o Tail(job)) /\ job' = f \o Tail(job)
          BY <1>5, <2>1, <2>3, <2>4, <3>1, <3>2, ListsConcat
        <4> QED
          BY <1>1, <4>1, UpgradePrimed
      <3>3. CASE Head(job).op # "read"
        BY <1>1, <1>5, <2>1, <3>3, UpgradePrimed
      <3> QED
        BY <3>2, <3>3
    <2>6. \A a, t : <<a, t>> \in listed' => a \in Range(config)'
      <3>1. Head(job).op = "list" => Range(Head(job).assets) \subseteq Range(config)
        BY <2>1 DEF ListsKnown, UpgradeInv
      <3> QED
        BY <1>3, <1>5, <3>1 DEF UpgradeInv
    <2>7. Upgraded => Upgraded'
      <3> SUFFICES ASSUME Upgraded PROVE Upgraded'
        OBVIOUS
      <3>1. "NextRSToken" \in artifacts
        BY DEF Upgraded
      <3>2. \A a, t : <<a, t>> \in listed' =>
               <<a, t>> \in listed \/ <<"upgraded", a>> \in settings'
        BY <1>5, <3>1
      <3> QED
        BY <1>1, <3>2, UpgradedKept
    <2>8. "upgrade" \in finished' => Upgraded'
      <3>1. CASE "upgrade" \in finished
        BY <2>7, <3>1 DEF UpgradeInv
      <3>2. CASE Head(job).op = "end" /\ Head(job).on = "upgrade"
        <4>1. EndsUpgrade(job)
          BY <2>1, <3>2 DEF EndsUpgrade
        <4>2. Upgraded
          BY <1>1, <3>2, <4>1, UpgradeHead DEF Deploy, Read
        <4> QED
          BY <2>7, <4>2
      <3> QED
        BY <1>5, <3>1, <3>2
    <2>9. EndsUpgrade(job') =>
             \/ job' = UpgradeRSTokens
             \/ "NextRSToken" \in artifacts' /\ job' = <<Read("upgrade-rstokens"), End("upgrade")>>
             \/ Upgrading(job)'
      <3> SUFFICES ASSUME EndsUpgrade(job')
                   PROVE  \/ "NextRSToken" \in artifacts'
                             /\ job' = <<Read("upgrade-rstokens"), End("upgrade")>>
                          \/ Upgrading(job)'
        OBVIOUS
      <3>1. EndsUpgrade(Tail(job))
        <4>1. CASE Head(job).op = "read"
          <5>1. job' = f \o Tail(job)
            BY <1>5, <2>3, <4>1
          <5> QED
            BY <2>1, <2>4, <4>1, <5>1, EndsConcat
        <4>2. CASE Head(job).op # "read"
          BY <1>5, <4>2
        <4> QED
          BY <4>1, <4>2
      <3>2. EndsUpgrade(job)
        BY <2>1, <3>1
      <3>3. CASE Head(job) = Deploy("NextRSToken")
                 /\ Tail(job) = <<Read("upgrade-rstokens"), End("upgrade")>>
        <4>1. Head(job).op = "deploy" /\ Head(job).on = "NextRSToken"
          BY <3>3 DEF Deploy
        <4> QED
          BY <1>5, <3>3, <4>1
      <3>4. CASE "NextRSToken" \in artifacts /\ Head(job) = Read("upgrade-rstokens")
                 /\ Tail(job) = <<End("upgrade")>>
        <4>1. Head(job).op = "read" /\ Head(job).on = "upgrade-rstokens"
          BY <3>4 DEF Read
        <4>2. Following(Head(job)) = UpgradeEachRSToken
          BY <4>1 DEF Following, Roles, Ownable
        <4>3. PICK g : g = UpgradeEachRSToken \o <<End("upgrade")>>
          OBVIOUS
        <4>4. job' = g
          BY <1>5, <3>4, <4>1, <4>2, <4>3
        <4>5. Upgrading(g)
          BY <3>4, <4>3, UpgradeRead
        <4>6. UNCHANGED <<market, listed>>
          BY <1>1, <1>5, <4>1
        <4> QED
          BY <1>1, <4>4, <4>5, <4>6 DEF Upgrading, IsListed, Assets, None
      <3>5. CASE Upgrading(job) /\ Head(job).op = "put" /\ Head(job).kind = "upgraded"
        BY <1>1, <1>2, <1>5, <3>5, UpgradePut
      <3>6. CASE Head(job).op = "end" /\ Tail(job) = <<>>
        BY <3>1, <3>6, NothingMarked
      <3> QED
        BY <1>1, <3>2, <3>3, <3>4, <3>5, <3>6, UpgradeHead
    <2>10. EndsUpgrade(job)' <=> EndsUpgrade(job')
      BY DEF EndsUpgrade
    <2>11. UpgradeRSTokens' = UpgradeRSTokens
      BY DEF UpgradeRSTokens, Deploy, Read, End
    <2>12. Read("upgrade-rstokens")' = Read("upgrade-rstokens") /\ End("upgrade")' = End("upgrade")
      BY DEF Read, End
    <2> QED
      BY <2>5, <2>6, <2>8, <2>9, <2>10, <2>11, <2>12 DEF UpgradeInv
  <1> QED
    BY <1>4, <1>5, ProceedForms

-----------------------------------------------------------------------------

\* A step of the operator or a user, or the end of a process.
LEMMA QuietlyUpgraded ==
    ASSUME UpgradeInv, OrderInv', market' = market, Range(config) \subseteq Range(config'),
           artifacts \subseteq artifacts', settings' = settings, listed' = listed,
           finished' = finished,
           \/ job' = job
           \/ job' = UpgradeRSTokens /\ InOrder("list", job')
           \/ InOrder("list", job') /\ InOrder("upgrade", job')
    PROVE  UpgradeInv'
  <1>1. Range(config)' = Range(config')
    BY DEF Range
  <1>2. ListsKnown(job')
    BY Unmarked DEF UpgradeInv
  <1>3. ListsKnown(job)'
    BY <1>1, <1>2 DEF ListsKnown, Range
  <1>4. \A a, t : <<a, t>> \in listed' => a \in Range(config)'
    BY <1>1 DEF UpgradeInv
  <1>5. "upgrade" \in finished' => Upgraded'
    BY UpgradedKept DEF UpgradeInv
  <1>6. Upgrading(job) /\ job' = job => Upgrading(job)'
    BY DEF Upgrading, IsListed, Assets, None
  <1>7. EndsUpgrade(job') =>
           \/ job' = UpgradeRSTokens
           \/ "NextRSToken" \in artifacts' /\ job' = <<Read("upgrade-rstokens"), End("upgrade")>>
           \/ Upgrading(job)'
    BY <1>6, Unmarked DEF UpgradeInv
  <1>8. EndsUpgrade(job)' <=> EndsUpgrade(job')
    BY DEF EndsUpgrade
  <1>9. UpgradeRSTokens' = UpgradeRSTokens
    BY DEF UpgradeRSTokens, Deploy, Read, End
  <1>10. Read("upgrade-rstokens")' = Read("upgrade-rstokens") /\ End("upgrade")' = End("upgrade")
    BY DEF Read, End
  <1> QED
    BY <1>3, <1>4, <1>5, <1>7, <1>8, <1>9, <1>10 DEF UpgradeInv

\* Everything is new.
LEMMA AfreshKeepsUpgrade ==
    ASSUME UpgradeInv, OrderInv', NEW transfer \in BOOLEAN, DeployAfresh(transfer)
    PROVE  UpgradeInv'
  <1>1. /\ InOrder("list", FlattenSeq(Scripts) \o AfterDeploy(transfer))
        /\ InOrder("upgrade", FlattenSeq(Scripts) \o AfterDeploy(transfer))
    BY RunsUnmarked DEF UpgradeInv
  <1>2. job' = FlattenSeq(Scripts) \o AfterDeploy(transfer) /\ listed' = {} /\ finished' = {}
        /\ config' = config
    BY DEF DeployAfresh
  <1>3. ListsKnown(job') /\ ~EndsUpgrade(job')
    BY <1>1, <1>2, Unmarked
  <1>4. ListsKnown(job)'
    BY <1>2, <1>3, UpgradePrimed
  <1>5. ~EndsUpgrade(job)'
    BY <1>3 DEF EndsUpgrade
  <1> QED
    BY <1>2, <1>4, <1>5 DEF UpgradeInv

LEMMA UpgradeInductive == UpgradeInv /\ [Next]_vars => UpgradeInv'
  <1> SUFFICES ASSUME UpgradeInv, [Next]_vars PROVE UpgradeInv'
    OBVIOUS
  <1>1. OrderInv'
    BY OrderInductive DEF UpgradeInv
  <1>2. CASE Proceed
    BY <1>1, <1>2, ProceedKeepsUpgrade
  <1>3. CASE Crash
    <2>1. InOrder("list", <<>>) /\ InOrder("upgrade", <<>>)
      BY EmptyQuiet
    <2> QED
      BY <1>1, <1>3, <2>1, QuietlyUpgraded DEF Crash, chain, disk
  <1>4. ASSUME NEW transfer \in BOOLEAN, DeployAfresh(transfer) PROVE UpgradeInv'
    BY <1>1, <1>4, AfreshKeepsUpgrade
  <1>5. ASSUME NEW transfer \in BOOLEAN, DeployAgain(transfer) PROVE UpgradeInv'
    <2>1. InOrder("list", DeployRun(transfer)) /\ InOrder("upgrade", DeployRun(transfer))
      BY RunsUnmarked DEF UpgradeInv
    <2> QED
      BY <1>1, <1>5, <2>1, QuietlyUpgraded DEF DeployAgain, chain, disk
  <1>6. CASE RunAddReserves
    <2>1. InOrder("list", AddReserves) /\ InOrder("upgrade", AddReserves)
      BY RunsUnmarked DEF UpgradeInv
    <2> QED
      BY <1>1, <1>6, <2>1, QuietlyUpgraded DEF RunAddReserves, RunTask, chain, disk
  <1>7. CASE RunTransfer
    <2>1. /\ InOrder("list", TransferProtocolOwnership \o RenouncePoolAdmin)
          /\ InOrder("upgrade", TransferProtocolOwnership \o RenouncePoolAdmin)
      BY RunsUnmarked DEF UpgradeInv
    <2> QED
      BY <1>1, <1>7, <2>1, QuietlyUpgraded DEF RunTransfer, RunTask, chain, disk
  <1>8. CASE RunUpgrade
    <2>1. InOrder("list", UpgradeRSTokens)
      BY RunsUnmarked DEF UpgradeInv
    <2> QED
      BY <1>1, <1>8, <2>1, QuietlyUpgraded DEF RunUpgrade, RunTask, chain, disk
  <1>9. ASSUME NEW a \in LaterAssets, AddToConfig(a) PROVE UpgradeInv'
    <2>1. Range(config) \subseteq Range(config')
      <3>1. a \in Assets /\ config \in Seq(Assets) /\ config' = Append(config, a)
        BY <1>9 DEF Assets, OrderInv, UpgradeInv, AddToConfig
      <3> QED
        BY <3>1, AppendKeeps
    <2> QED
      BY <1>1, <1>9, <2>1, QuietlyUpgraded DEF AddToConfig, chain, disk
  <1>10. CASE SaveForeign
    BY <1>1, <1>10, QuietlyUpgraded DEF SaveForeign, chain
  <1>11. ASSUME NEW a \in Assets, Supply(a) PROVE UpgradeInv'
    BY <1>1, <1>11, QuietlyUpgraded DEF Supply, disk
  <1>12. CASE UNCHANGED vars
    BY <1>1, <1>12, QuietlyUpgraded DEF vars, chain, disk
  <1> QED
    BY <1>2, <1>3, <1>4, <1>5, <1>6, <1>7, <1>8, <1>9, <1>10, <1>11, <1>12 DEF Next

\* UpgradeIsWhole holds: when upgrade-rstokens has come to its end, in whatever
\* run of it, every reserve runs the new implementation, and those listed later
\* do too (initReserves takes the saved one).
THEOREM UpgradesAreWhole == Spec => []UpgradeIsWhole
  <1>1. Init => UpgradeInv
    <2> SUFFICES ASSUME Init PROVE UpgradeInv
      OBVIOUS
    <2>1. job = <<>> /\ listed = {} /\ finished = {} /\ OrderInv
      BY OrderInitially DEF Init
    <2> QED
      BY <2>1, NothingMarked DEF UpgradeInv
  <1>2. UpgradeInv => UpgradeIsWhole
    BY DEF UpgradeInv, Upgraded, UpgradeIsWhole
  <1> QED
    BY <1>1, <1>2, UpgradeInductive, PTL DEF Spec

-----------------------------------------------------------------------------
(* The handover: before a run ends it, each power the deployer has is given
   away, and nothing gives it back. *)

EndsTransfer(x) == x.op = "end" /\ x.on = "transfer"

\* Of the first j - 1 steps of s, one gives p away and none after it gives it
\* to the deployer.
ShedsBefore(p, s, j) ==
    \E i \in 1 .. (j - 1) : Sheds(p, s[i]) /\ \A k \in (i + 1) .. (j - 1) : ~Gives(p, s[k])

GivesBefore(p, s, j) == \E k \in 1 .. (j - 1) : Gives(p, s[k])

\* A risk admin is made of the setup contract only.
Handed == Powers \ {"RISK_ADMIN"}

Clears(s) ==
    \A p \in Handed : \A j \in 1 .. Len(s) : EndsTransfer(s[j]) => ShedsBefore(p, s, j)

\* A power is still to be given away, or gone.
LeftClear ==
    \A p \in Handed : \A j \in 1 .. Len(job) :
        EndsTransfer(job[j]) =>
            \/ ShedsBefore(p, job, j)
            \/ ~Holds(p, Deployer) /\ ~GivesBefore(p, job, j)

HandoverInv ==
    /\ OrderInv
    /\ \A q \in power : \E p \in Powers : \E a : q = <<p, a>>
    /\ ~Holds("RISK_ADMIN", Deployer)
    /\ "transfer" \in finished => Deployed \subseteq artifacts /\ \A p \in Handed : ~Holds(p, Deployer)
    /\ LeftClear

LEMMA PowerNames ==
    /\ Powers = {"Registry", "Provider", "EmissionManager", "Gateway", "DEFAULT_ADMIN",
                 "POOL_ADMIN", "EMERGENCY_ADMIN", "RISK_ADMIN", "ACLAdmin"}
    /\ Handed = {"Registry", "Provider", "EmissionManager", "Gateway", "DEFAULT_ADMIN",
                 "POOL_ADMIN", "EMERGENCY_ADMIN", "ACLAdmin"}
    /\ Deployed = {"Registry", "Provider", "EmissionManager", "Gateway", "ACLManager"}
  BY DEF Powers, Handed, Deployed, Roles, Ownable

\* A run without the end of a handover.
LEMMA ClearsUnmarked ==
    ASSUME NEW s, InOrder("transfer", s)
    PROVE  Clears(s) /\ \A j \in 1 .. Len(s) : ~EndsTransfer(s[j])
  <1>1. \A x : ~Secures("transfer", x)
    BY TokenNames DEF Secures, Seals, Adminships, Deployed, Ownable
  <1>2. \A x : EndsTransfer(x) => Uses("transfer", x)
    BY DEF Uses, EndsTransfer
  <1> QED
    BY <1>1, <1>2 DEF InOrder, Clears

LEMMA ClearsConcat ==
    ASSUME NEW s, NEW t, Steps(s), Steps(t), Clears(s), Clears(t)
    PROVE  Clears(s \o t)
  <1>1. PICK w : w = s \o t
    OBVIOUS
  <1>2. PICK n, m : n = Len(s) /\ m = Len(t)
    OBVIOUS
  <1>3. /\ Len(w) = n + m /\ n \in Nat /\ m \in Nat
        /\ \A i \in 1 .. n : w[i] = s[i]
        /\ \A i \in 1 .. m : w[n + i] = t[i]
    BY <1>1, <1>2, StepsConcat, StepsShape
  <1>4. SUFFICES ASSUME NEW p \in Handed, NEW j \in 1 .. (n + m), EndsTransfer(w[j])
                 PROVE  ShedsBefore(p, w, j)
    BY <1>1, <1>3 DEF Clears
  <1>5. CASE j <= n
    <2>1. j \in 1 .. n /\ EndsTransfer(s[j])
      BY <1>3, <1>4, <1>5
    <2>2. PICK i \in 1 .. (j - 1) : Sheds(p, s[i]) /\ \A k \in (i + 1) .. (j - 1) : ~Gives(p, s[k])
      BY <1>2, <2>1 DEF Clears, ShedsBefore
    <2>3. \A k \in 1 .. (j - 1) : w[k] = s[k]
      BY <1>3, <2>1
    <2>4. \A k \in (i + 1) .. (j - 1) : k \in 1 .. (j - 1)
      BY <2>1, <2>2
    <2> QED
      BY <2>2, <2>3, <2>4 DEF ShedsBefore
  <1>6. CASE ~(j <= n)
    <2>1. PICK h : h = j - n
      OBVIOUS
    <2>2. h \in 1 .. m /\ j = n + h
      BY <1>3, <1>6, <2>1
    <2>3. EndsTransfer(t[h])
      BY <1>3, <1>4, <2>2
    <2>4. PICK i \in 1 .. (h - 1) : Sheds(p, t[i]) /\ \A k \in (i + 1) .. (h - 1) : ~Gives(p, t[k])
      BY <1>2, <2>2, <2>3 DEF Clears, ShedsBefore
    <2>5. n + i \in 1 .. (j - 1) /\ i \in 1 .. m
      BY <1>3, <2>2
    <2>6. Sheds(p, w[n + i])
      BY <1>3, <2>4, <2>5
    <2>7. ASSUME NEW k \in (n + i + 1) .. (j - 1) PROVE ~Gives(p, w[k])
      <3>1. k - n \in (i + 1) .. (h - 1) /\ k - n \in 1 .. m /\ n + (k - n) = k
        BY <1>3, <2>2
      <3>2. w[k] = t[k - n]
        BY <1>3, <3>1
      <3> QED
        BY <2>4, <3>1, <3>2
    <2> QED
      BY <2>5, <2>6, <2>7 DEF ShedsBefore
  <1> QED
    BY <1>5, <1>6

\* The task reads who has each power, and what then follows gives it away.
LEMMA TransferClears == Clears(TransferProtocolOwnership)
  <1>1. PICK s : s = TransferProtocolOwnership
    OBVIOUS
  <1>2. /\ Len(s) = 14
        /\ s[1] = Require("Gateway") /\ s[2] = Require("EmissionManager")
        /\ s[3] = Require("ParaSwapLiquiditySwapAdapter") /\ s[4] = Require("ParaSwapRepayAdapter")
        /\ s[5] = Check("marketOwner") /\ s[6] = Read("EMERGENCY_ADMIN") /\ s[7] = Read("POOL_ADMIN")
        /\ s[8] = Read("ACLAdmin") /\ s[9] = Read("Provider") /\ s[10] = Read("Registry")
        /\ s[11] = Read("Gateway") /\ s[12] = Read("EmissionManager")
        /\ s[13] = Read("DEFAULT_ADMIN") /\ s[14] = End("transfer")
    BY <1>1 DEF TransferProtocolOwnership
  <1>3. \A c : ~EndsTransfer(Require(c)) /\ ~EndsTransfer(Check(c)) /\ ~EndsTransfer(Read(c))
    BY DEF EndsTransfer, Require, Check, Read
  <1>4. \A c, p : ~Gives(p, Read(c))
    BY DEF Gives, Read
  <1>5. \A p : Sheds(p, Read(p))
    BY DEF Sheds, Read
  <1>6. \A j \in 1 .. 14 : j \in {1, 2, 3, 4, 5, 6, 7, 8, 9, 10, 11, 12, 13, 14}
    OBVIOUS
  <1>7. ASSUME NEW j \in 1 .. 14, EndsTransfer(s[j]) PROVE j = 14
    BY <1>2, <1>3, <1>6, <1>7
  <1>8. \A k \in 6 .. 13 : \E c : s[k] = Read(c)
    <2>1. \A k \in 6 .. 13 : k \in {6, 7, 8, 9, 10, 11, 12, 13}
      OBVIOUS
    <2> QED
      BY <1>2, <2>1
  <1>9. \A p \in Handed : \E i \in 6 .. 13 : s[i] = Read(p)
    BY <1>2, PowerNames
  <1>10. ASSUME NEW p \in Handed PROVE ShedsBefore(p, s, 14)
    <2>1. PICK i \in 6 .. 13 : s[i] = Read(p)
      BY <1>9
    <2>2. i \in 1 .. (14 - 1) /\ \A k \in (i + 1) .. (14 - 1) : k \in 6 .. 13
      OBVIOUS
    <2>3. \A k \in 6 .. 13 : ~Gives(p, s[k])
      BY <1>4, <1>8
    <2> QED
      BY <1>5, <2>1, <2>2, <2>3 DEF ShedsBefore
  <1> QED
    BY <1>1, <1>2, <1>7, <1>10 DEF Clears

-----------------------------------------------------------------------------

LEMMA QuietClears ==
    ASSUME NEW s, AllQuiet(s)
    PROVE  Steps(s) /\ Clears(s)
  BY QuietInOrder, ClearsUnmarked DEF AllQuiet

LEMMA RunTransferClears == Clears(TransferProtocolOwnership \o RenouncePoolAdmin)
  <1>1. AllQuiet(RenouncePoolAdmin)
    BY QuietReads, One DEF RenouncePoolAdmin
  <1> QED
    BY <1>1, TransferInOrder, TransferClears, QuietClears, ClearsConcat

LEMMA AfterDeployClears ==
    ASSUME NEW transfer, config \in Seq(Assets)
    PROVE  Clears(AfterDeploy(transfer))
  <1>1. PICK e : e = When(transfer, TransferProtocolOwnership \o RenouncePoolAdmin)
    OBVIOUS
  <1>2. PICK s : AllQuiet(s) /\ AfterDeploy(transfer) = (s \o e) \o <<End("deploy")>>
    BY <1>1, AfterDeployForm
  <1>3. Steps(e) /\ Clears(e)
    <2>1. Steps(<<>>) /\ Clears(<<>>)
      BY EmptyQuiet, QuietClears
    <2> QED
      BY <1>1, <2>1, RunTransferInOrder, RunTransferClears DEF When
  <1>4. PICK d : d = <<End("deploy")>>
    OBVIOUS
  <1>5. Steps(d) /\ Clears(d)
    <2>1. AllQuiet(<<End("deploy")>>)
      BY QuietForms, One
    <2> QED
      BY <1>4, <2>1, QuietClears
  <1>6. PICK b : b = s \o e
    OBVIOUS
  <1>7. Steps(b) /\ Clears(b)
    BY <1>2, <1>3, <1>6, QuietClears, ClearsConcat, StepsConcat
  <1>8. AfterDeploy(transfer) = b \o d
    BY <1>2, <1>4, <1>6
  <1> QED
    BY <1>5, <1>7, <1>8, ClearsConcat

\* Every run that begins clears the deployer's powers before it ends a handover.
LEMMA RunsClear ==
    ASSUME OrderInv
    PROVE  /\ \A transfer \in BOOLEAN : /\ Clears(DeployRun(transfer))
                                        /\ Clears(FlattenSeq(Scripts) \o AfterDeploy(transfer))
           /\ Clears(AddReserves) /\ Clears(UpgradeRSTokens) /\ Clears(<<>>)
           /\ Clears(TransferProtocolOwnership \o RenouncePoolAdmin)
  <1>1. config \in Seq(Assets)
    BY DEF OrderInv
  <1>2. "transfer" \notin Early /\ "transfer" \notin Grounds
    BY TokenNames DEF Early, Grounds
  <1>3. ASSUME NEW R, NEW transfer PROVE Clears(FlattenSeq(Skipping(R)) \o AfterDeploy(transfer))
    <2>1. PICK s : s = FlattenSeq(Skipping(R))
      OBVIOUS
    <2>2. Steps(s) /\ Clears(s)
      BY <1>1, <1>2, <2>1, SkippingSteps, SkippingInOrder, ClearsUnmarked
    <2> QED
      BY <1>1, <2>1, <2>2, AfterDeployInOrder, AfterDeployClears, ClearsConcat
  <1>4. ASSUME NEW transfer PROVE Clears(DeployRun(transfer))
    <2>1. PICK R : R = {i \in 1 .. 17 : Recorded(Scripts[i])}
      OBVIOUS
    <2>2. Unrecorded(Scripts) = Skipping(R)
      BY <2>1, SkippedScripts
    <2> QED
      BY <1>3, <2>2 DEF DeployRun
  <1>5. ASSUME NEW transfer PROVE Clears(FlattenSeq(Scripts) \o AfterDeploy(transfer))
    BY <1>3, FreshRun
  <1>6. Clears(AddReserves) /\ Clears(UpgradeRSTokens)
    BY <1>2, AddReservesInOrder, UpgradeInOrder, ClearsUnmarked
  <1>7. Clears(<<>>)
    BY EmptyQuiet, QuietClears
  <1> QED
    BY <1>4, <1>5, <1>6, <1>7, RunTransferClears

-----------------------------------------------------------------------------

\* What each step of a process does to the deployer's powers.
LEMMA PowerForms ==
    ASSUME Proceed
    PROVE  \/ job' = <<>> /\ power' = power
           \/ Head(job).op = "deploy" /\
                power' = power \cup
                  (IF Head(job).on \in artifacts THEN {}
                   ELSE (IF Head(job).on \in Ownable THEN {<<Head(job).on, Deployer>>} ELSE {})
                        \cup (IF Head(job).on = "ACLManager"
                              THEN {<<"DEFAULT_ADMIN", a>> :
                                        a \in {b \in Accounts : Holds("ACLAdmin", b)}}
                              ELSE {}))
           \/ Head(job).op = "transfer" /\ Authorised(Head(job).on)
              /\ power' = (power \ {<<Head(job).on, Deployer>>}) \cup {<<Head(job).on, Head(job).to>>}
           \/ Head(job).op = "setACLAdmin" /\ Authorised("Provider")
              /\ power' = {pa \in power : pa[1] # "ACLAdmin"} \cup {<<"ACLAdmin", Head(job).to>>}
           \/ Head(job).op = "grant" /\ Authorised("DEFAULT_ADMIN")
              /\ power' = power \cup {<<Head(job).on, Head(job).to>>}
           \/ Head(job).op = "revoke" /\ power' = power \ {<<Head(job).on, Head(job).to>>}
           \/ Head(job).op = "renounce" /\ power' = power \ {<<Head(job).on, Deployer>>}
           \/ /\ power' = power
              /\ Head(job).op \notin {"deploy", "transfer", "setACLAdmin", "grant", "revoke", "renounce"}
  <1>1. CASE DeployContract
    BY <1>1 DEF DeployContract, Perform, Doing, Step
  <1>2. CASE InitializeContract
    BY <1>2 DEF InitializeContract, Perform, Doing, Step
  <1>3. CASE ChangePower
    <2>1. CASE Perform("transfer") /\ power' = (power \ {<<Step.on, Deployer>>}) \cup {<<Step.on, Step.to>>}
      <3>1. Head(job).op = "transfer" /\ Authorised(Head(job).on)
        BY <2>1 DEF Perform, Doing, Step, Enabled
      <3> QED
        BY <2>1, <3>1 DEF Step
    <2>2. CASE Perform("setACLAdmin")
               /\ power' = {pa \in power : pa[1] # "ACLAdmin"} \cup {<<"ACLAdmin", Step.to>>}
      <3>1. Head(job).op = "setACLAdmin" /\ Authorised("Provider")
        BY <2>2 DEF Perform, Doing, Step, Enabled
      <3> QED
        BY <2>2, <3>1 DEF Step
    <2>3. CASE Perform("grant") /\ power' = power \cup {<<Step.on, Step.to>>}
      <3>1. Head(job).op = "grant" /\ Authorised("DEFAULT_ADMIN")
        BY <2>3 DEF Perform, Doing, Step, Enabled, GrantAllowed
      <3> QED
        BY <2>3, <3>1 DEF Step
    <2>4. CASE Perform("revoke") /\ power' = power \ {<<Step.on, Step.to>>}
      BY <2>4 DEF Perform, Doing, Step
    <2>5. CASE Perform("renounce") /\ power' = power \ {<<Step.on, Deployer>>}
      BY <2>5 DEF Perform, Doing, Step
    <2> QED
      BY <1>3, <2>1, <2>2, <2>3, <2>4, <2>5 DEF ChangePower
  <1>4. CASE SetInBook
    BY <1>4 DEF SetInBook, Perform, Doing, Step
  <1>5. CASE ChangeSettings
    BY <1>5 DEF ChangeSettings, Perform, Doing, Step
  <1>6. CASE ListReserves
    BY <1>6 DEF ListReserves, Perform, Doing, Step
  <1>7. CASE SetAssetSources
    BY <1>7 DEF SetAssetSources, Perform, Doing, Step
  <1>8. CASE WriteToDisk
    BY <1>8 DEF WriteToDisk, Perform, Doing, Step, chain
  <1>9. CASE PassCheck
    BY <1>9 DEF PassCheck, Perform, Doing, Step, chain
  <1>10. CASE ReadChain
    BY <1>10 DEF ReadChain, Doing, Step, chain
  <1>11. CASE Finish
    BY <1>11 DEF Finish, Doing, Step, chain
  <1>12. CASE Abort
    BY <1>12 DEF Abort, chain
  <1> QED
    BY <1>1, <1>2, <1>3, <1>4, <1>5, <1>6, <1>7, <1>8, <1>9, <1>10, <1>11, <1>12 DEF Proceed

-----------------------------------------------------------------------------

\* The forms of the steps that change powers, which OrderInv implies.
LEMMA PowerSteps ==
    ASSUME OrderInv, job # <<>>
    PROVE  /\ Head(job).op = "transfer" => Head(job).on \in Ownable
           /\ Head(job).op = "grant" => /\ Head(job).on \in Roles
                                        /\ Head(job).on = "RISK_ADMIN" => Head(job).to # Deployer
  <1>1. ~Secured("form")
    BY DEF Secured
  <1> QED
    BY <1>1, HeadSecured DEF Uses

LEMMA PowersTyped ==
    ASSUME OrderInv, Proceed, \A q \in power : \E p \in Powers : \E a : q = <<p, a>>
    PROVE  \A q \in power' : \E p \in Powers : \E a : q = <<p, a>>
  <1>1. job # <<>>
    BY ProceedForms
  <1>2. ASSUME NEW q \in power', q \notin power PROVE \E p \in Powers : \E a : q = <<p, a>>
    <2>1. \/ Head(job).on \in Ownable /\ q = <<Head(job).on, Deployer>>
          \/ \E a \in Accounts : q = <<"DEFAULT_ADMIN", a>>
          \/ Head(job).op \in {"transfer", "grant"} /\ q = <<Head(job).on, Head(job).to>>
          \/ q = <<"ACLAdmin", Head(job).to>>
      BY <1>2, PowerForms
    <2>2. Head(job).op \in {"transfer", "grant"} => Head(job).on \in Powers
      BY <1>1, PowerSteps DEF Powers
    <2>3. Ownable \subseteq Powers /\ {"DEFAULT_ADMIN", "ACLAdmin"} \subseteq Powers
      BY DEF Powers, Roles
    <2> QED
      BY <2>1, <2>2, <2>3
  <1> QED
    BY <1>2

\* A power the deployer has after a step he had before, or the step gives it.
LEMMA PowerGiven ==
    ASSUME OrderInv, Proceed, NEW p \in Powers, Holds(p, Deployer)', ~Holds(p, Deployer)
    PROVE  Gives(p, Head(job)) /\ p # "RISK_ADMIN"
           /\ \/ Head(job).op = "deploy" /\ Head(job).on \notin artifacts
                 /\ Head(job).on \in Deployed
              \/ \E r \in Handed : Holds(r, Deployer)
  <1>1. job # <<>>
    BY ProceedForms
  <1>2. <<p, Deployer>> \in power' /\ <<p, Deployer>> \notin power
    BY DEF Holds, Deployer
  <1>3. CASE /\ Head(job).op = "deploy" /\ Head(job).on \notin artifacts
             /\ \/ p = Head(job).on /\ p \in Ownable
                \/ p = "DEFAULT_ADMIN" /\ Head(job).on = "ACLManager"
    BY <1>3 DEF Gives, Deployed, Ownable
  <1>4. CASE /\ Head(job).op = "transfer" /\ Holds(Head(job).on, Deployer)
             /\ p = Head(job).on /\ Head(job).to = Deployer
    BY <1>1, <1>4, PowerSteps, PowerNames DEF Gives, Ownable
  <1>5. CASE /\ Head(job).op = "setACLAdmin" /\ Holds("Provider", Deployer)
             /\ p = "ACLAdmin" /\ Head(job).to = Deployer
    BY <1>5, PowerNames DEF Gives
  <1>6. CASE /\ Head(job).op = "grant" /\ Holds("DEFAULT_ADMIN", Deployer)
             /\ p = Head(job).on /\ Head(job).to = Deployer
    BY <1>1, <1>6, PowerSteps, PowerNames DEF Gives
  <1> QED
    BY <1>2, <1>3, <1>4, <1>5, <1>6, PowerForms DEF Authorised

\* A step that sheds a power, other than a read, leaves the deployer without it.
LEMMA PowerShed ==
    ASSUME OrderInv, Proceed, job' # <<>>, NEW p \in Handed, Sheds(p, Head(job)),
           Head(job).op # "read"
    PROVE  ~Holds(p, Deployer)'
  <1>1. Deployer # Multisig
    BY DEF Deployer, Multisig
  <1>2. <<p, Deployer>> \notin power'
    <2>1. CASE Head(job).op = "revoke" /\ Head(job).on = p /\ Head(job).to = Deployer
      BY <2>1, PowerForms
    <2>2. CASE Head(job).op = "transfer" /\ Head(job).on = p /\ Head(job).to = Multisig
      BY <1>1, <2>2, PowerForms
    <2>3. CASE Head(job).op = "setACLAdmin" /\ Head(job).to = Multisig /\ p = "ACLAdmin"
      BY <1>1, <2>3, PowerForms
    <2> QED
      BY <2>1, <2>2, <2>3 DEF Sheds
  <1> QED
    BY <1>2 DEF Holds, Deployer

\* The steps a run has left, after a step other than a read.
LEMMA TailHandover ==
    ASSUME HandoverInv, Proceed, job' = Tail(job), Head(job).op # "read",
           NEW p \in Handed, NEW j \in 1 .. Len(job'), EndsTransfer(job'[j])
    PROVE  \/ ShedsBefore(p, job', j)
           \/ ~Holds(p, Deployer)' /\ ~GivesBefore(p, job', j)
  <1>1. job # <<>> /\ OrderInv
    BY ProceedForms DEF HandoverInv
  <1>2. PICK t : t = job'
    OBVIOUS
  <1>3. /\ Len(t) = Len(job) - 1 /\ Len(job) \in Nat \ {0} /\ Head(job) = job[1]
        /\ \A i \in 1 .. Len(t) : t[i] = job[i + 1]
    BY <1>1, <1>2, StepsTail DEF OrderInv
  <1>4. j \in 1 .. Len(t) /\ j + 1 \in 1 .. Len(job) /\ (j + 1) - 1 = j /\ EndsTransfer(job[j + 1])
    BY <1>2, <1>3
  <1>5. t # <<>>
    BY <1>4, StepsEmpty
  <1>6. \A k \in 2 .. j : k - 1 \in 1 .. (j - 1) /\ t[k - 1] = job[k]
    BY <1>3, <1>4
  <1>7. \A k \in 1 .. (j - 1) : k + 1 \in 2 .. j /\ t[k] = job[k + 1]
    BY <1>3, <1>4
  <1>8. CASE ShedsBefore(p, job, j + 1)
    <2>1. PICK i \in 1 .. j : Sheds(p, job[i]) /\ \A k \in (i + 1) .. j : ~Gives(p, job[k])
      BY <1>4, <1>8 DEF ShedsBefore
    <2>2. CASE i = 1
      <3>1. ~Holds(p, Deployer)'
        BY <1>1, <1>2, <1>3, <1>5, <2>1, <2>2, PowerShed
      <3>2. \A k \in 1 .. (j - 1) : ~Gives(p, t[k])
        BY <1>7, <2>1, <2>2
      <3> QED
        BY <1>2, <3>1, <3>2 DEF GivesBefore
    <2>3. CASE i # 1
      <3>1. i - 1 \in 1 .. (j - 1) /\ Sheds(p, t[i - 1])
        BY <1>6, <2>1, <2>3
      <3>2. ASSUME NEW k \in ((i - 1) + 1) .. (j - 1) PROVE ~Gives(p, t[k])
        <4>1. k \in 1 .. (j - 1) /\ k + 1 \in (i + 1) .. j
          <5>1. i \in Nat \ {0} /\ j \in Nat
            BY <1>3, <1>4, <2>1
          <5>2. k \in ((i - 1) + 1) .. (j - 1)
            OBVIOUS
          <5>3. (i - 1) + 1 = i
            BY ONLY <5>1
          <5>4. k \in i .. (j - 1)
            BY ONLY <5>2, <5>3
          <5> QED
            BY ONLY <5>1, <5>4
        <4> QED
          BY <1>7, <2>1, <4>1
      <3> QED
        BY <1>2, <3>1, <3>2 DEF ShedsBefore
    <2> QED
      BY <2>2, <2>3
  <1>9. CASE ~Holds(p, Deployer) /\ ~GivesBefore(p, job, j + 1)
    <2>1. \A k \in 1 .. j : ~Gives(p, job[k])
      BY <1>4, <1>9 DEF GivesBefore
    <2>2. ~Gives(p, Head(job))
      BY <1>3, <1>4, <2>1
    <2>3. ~Holds(p, Deployer)'
      BY <1>1, <1>9, <2>2, PowerGiven DEF Handed
    <2>4. \A k \in 1 .. (j - 1) : ~Gives(p, t[k])
      <3>1. \A k \in 1 .. (j - 1) : k + 1 \in 1 .. j
        BY <1>4
      <3> QED
        BY <1>7, <2>1, <3>1
    <2> QED
      BY <1>2, <2>3, <2>4 DEF GivesBefore
  <1> QED
    BY <1>4, <1>8, <1>9 DEF HandoverInv, LeftClear

-----------------------------------------------------------------------------

\* The steps a run has left, after a read: what follows gives away what was
\* there to give, and gives the deployer nothing.
LEMMA ReadHandover ==
    ASSUME HandoverInv, Proceed, job' = Following(Head(job)) \o Tail(job), Head(job).op = "read",
           NEW p \in Handed, NEW j \in 1 .. Len(job'), EndsTransfer(job'[j])
    PROVE  \/ ShedsBefore(p, job', j)
           \/ ~Holds(p, Deployer)' /\ ~GivesBefore(p, job', j)
  <1>1. job # <<>> /\ OrderInv /\ config \in Seq(Assets)
    BY ProceedForms DEF HandoverInv, OrderInv
  <1>2. PICK t, f : t = job' /\ f = Following(Head(job))
    OBVIOUS
  <1>3. AllTame(f)
    <2>1. ~Secured("form")
      BY DEF Secured
    <2>2. Head(job).on \in ReadNames
      BY <1>1, <2>1, HeadSecured DEF Uses
    <2> QED
      BY <1>1, <1>2, <2>2, FollowingTame
  <1>4. PICK r : r = Tail(job)
    OBVIOUS
  <1>5. /\ Steps(r) /\ Len(r) = Len(job) - 1 /\ Len(job) \in Nat \ {0} /\ Head(job) = job[1]
        /\ \A i \in 1 .. Len(r) : r[i] = job[i + 1]
    BY <1>1, <1>4, StepsTail DEF OrderInv
  <1>6. PICK n, m : n = Len(f) /\ m = Len(r)
    OBVIOUS
  <1>7. /\ t = f \o r /\ Steps(f) /\ Steps(r)
    BY <1>2, <1>3, <1>4, <1>5 DEF AllTame
  <1>8. /\ Len(t) = n + m /\ n \in Nat /\ m \in Nat
        /\ \A i \in 1 .. n : t[i] = f[i]
        /\ \A i \in 1 .. m : t[n + i] = r[i]
    BY <1>6, <1>7, StepsConcat, StepsShape
  <1>9. \A i \in 1 .. n : Tame(f[i]) /\ ~EndsTransfer(f[i]) /\ ~Gives(p, f[i])
    BY <1>3, <1>6 DEF AllTame, Tame, EndsTransfer, Gives
  <1>10. ~(j <= n)
    <2> SUFFICES ASSUME j <= n PROVE FALSE
      OBVIOUS
    <2>1. j \in 1 .. (n + m) /\ EndsTransfer(t[j])
      BY <1>2, <1>8
    <2>2. j \in 1 .. n
      BY <1>8, <2>1
    <2>3. t[j] = f[j]
      BY <1>8, <2>2
    <2> QED
      BY <1>9, <2>1, <2>2, <2>3
  <1>11. PICK h : h = (j - n) + 1
    OBVIOUS
  <1>12. h - 1 \in 1 .. m /\ h \in 1 .. Len(job) /\ j = n + (h - 1) /\ (h - 1) + 1 = h /\ h \in Nat
    <2>1. j \in 1 .. (n + m)
      BY <1>2, <1>8
    <2>2. m = Len(job) - 1
      BY <1>5, <1>6
    <2> QED
      BY ONLY <1>5, <1>8, <1>10, <1>11, <2>1, <2>2
  <1>13. EndsTransfer(job[h])
    <2>1. t[n + (h - 1)] = r[h - 1] /\ r[h - 1] = job[(h - 1) + 1]
      BY <1>5, <1>6, <1>8, <1>12
    <2> QED
      BY <1>2, <1>12, <2>1
  \* The steps between, in the run before and after the read.
  <1>14. ASSUME NEW k \in 2 .. (h - 1) PROVE n + (k - 1) \in (n + 1) .. (j - 1) /\ t[n + (k - 1)] = job[k]
    <2>1. k - 1 \in 1 .. m /\ (k - 1) + 1 = k
      BY <1>8, <1>12
    <2>2. t[n + (k - 1)] = r[k - 1] /\ r[k - 1] = job[(k - 1) + 1]
      BY <1>5, <1>6, <1>8, <2>1
    <2>3. n + (k - 1) \in (n + 1) .. (j - 1)
      BY <1>8, <1>12
    <2> QED
      BY <2>1, <2>2, <2>3
  <1>15. ASSUME NEW k \in (n + 1) .. (j - 1) PROVE (k - n) + 1 \in 2 .. (h - 1) /\ t[k] = job[(k - n) + 1]
    <2>1. (k - n) + 1 \in 2 .. (h - 1) /\ n + (((k - n) + 1) - 1) = k
      BY <1>8, <1>12
    <2> QED
      BY <1>14, <2>1
  <1>16. power' = power
    BY <1>1, PowerForms
  <1>17. ASSUME ~Holds(p, Deployer), \A k \in 2 .. (h - 1) : ~Gives(p, job[k])
         PROVE  ~Holds(p, Deployer)' /\ ~GivesBefore(p, t, j)
    <2>1. ~Holds(p, Deployer)'
      BY <1>16, <1>17 DEF Holds, Deployer
    <2>2. ASSUME NEW k \in 1 .. (j - 1) PROVE ~Gives(p, t[k])
      <3>1. CASE k <= n
        BY <1>8, <1>9, <3>1
      <3>2. CASE ~(k <= n)
        <4>1. k \in (n + 1) .. (j - 1)
          BY <1>8, <1>12, <3>2
        <4> QED
          BY <1>15, <1>17, <4>1
      <3> QED
        BY <3>1, <3>2
    <2> QED
      BY <2>1, <2>2 DEF GivesBefore
  <1>18. CASE ShedsBefore(p, job, h)
    <2>1. PICK i \in 1 .. (h - 1) : Sheds(p, job[i]) /\ \A k \in (i + 1) .. (h - 1) : ~Gives(p, job[k])
      BY <1>18 DEF ShedsBefore
    <2>2. CASE i # 1
      <3>1. i \in 2 .. (h - 1)
        BY <1>12, <2>1, <2>2
      <3>2. n + (i - 1) \in 1 .. (j - 1) /\ Sheds(p, t[n + (i - 1)])
        BY <1>8, <1>14, <2>1, <3>1
      <3>3. ASSUME NEW k \in ((n + (i - 1)) + 1) .. (j - 1) PROVE ~Gives(p, t[k])
        <4>1. k \in (n + 1) .. (j - 1) /\ (k - n) + 1 \in (i + 1) .. (h - 1)
          BY <1>8, <1>12, <2>1, <3>1
        <4> QED
          BY <1>15, <2>1, <4>1
      <3> QED
        BY <1>2, <3>2, <3>3 DEF ShedsBefore
    <2>3. CASE i = 1
      <3>1. \A k \in 2 .. (h - 1) : ~Gives(p, job[k])
        BY <2>1, <2>3
      <3>2. CASE ~Holds(p, Deployer)
        BY <1>2, <1>17, <3>1, <3>2
      <3>3. CASE Holds(p, Deployer)
        <4>1. Head(job).on = p
          BY <1>5, <2>1, <2>3 DEF Sheds
        <4>2. PICK l \in 1 .. n : Sheds(p, f[l])
          BY <1>2, <1>6, <3>3, <4>1, FollowingSheds DEF Handed
        <4>3. l \in 1 .. (j - 1) /\ Sheds(p, t[l])
          BY <1>8, <1>12, <4>2
        <4>4. ASSUME NEW k \in (l + 1) .. (j - 1) PROVE ~Gives(p, t[k])
          <5>1. CASE k <= n
            <6>1. k \in 1 .. n
              BY <1>8, <4>2, <5>1
            <6> QED
              BY <1>8, <1>9, <6>1
          <5>2. CASE ~(k <= n)
            <6>1. k \in (n + 1) .. (j - 1)
              BY <1>8, <1>12, <4>2, <5>2
            <6> QED
              BY <1>15, <3>1, <6>1
          <5> QED
            BY <5>1, <5>2
        <4> QED
          BY <1>2, <4>3, <4>4 DEF ShedsBefore
      <3> QED
        BY <3>2, <3>3
    <2> QED
      BY <2>2, <2>3
  <1>19. CASE ~Holds(p, Deployer) /\ ~GivesBefore(p, job, h)
    <2>1. \A k \in 2 .. (h - 1) : k \in 1 .. (h - 1)
      OBVIOUS
    <2> QED
      BY <1>2, <1>17, <1>19, <2>1 DEF GivesBefore
  <1> QED
    BY <1>12, <1>13, <1>18, <1>19 DEF HandoverInv, LeftClear

-----------------------------------------------------------------------------

LEMMA ClearsLeft == ASSUME Clears(job') PROVE LeftClear'
  BY DEF LeftClear, Clears, Handed, Powers, Roles, Ownable, EndsTransfer, ShedsBefore,
         GivesBefore, Sheds, Gives, Deployer, Multisig, Holds

\* Nothing about the handover changes but the steps to come.
LEMMA HandoverKept ==
    ASSUME HandoverInv, OrderInv', power' = power, finished' = finished,
           artifacts \subseteq artifacts', job' = job \/ Clears(job')
    PROVE  HandoverInv'
  <1>1. \A p \in Handed : \A j \in 1 .. Len(job') :
            EndsTransfer(job'[j]) =>
                \/ ShedsBefore(p, job', j)
                \/ ~Holds(p, Deployer) /\ ~GivesBefore(p, job', j)
    BY DEF HandoverInv, LeftClear, Clears
  <1>2. LeftClear'
    BY <1>1 DEF LeftClear, Handed, Powers, Roles, Ownable, EndsTransfer, ShedsBefore, GivesBefore,
                Sheds, Gives, Deployer, Multisig, Holds
  <1>3. /\ \A q \in power' : \E p \in Powers' : \E a : q = <<p, a>>
        /\ ~Holds("RISK_ADMIN", Deployer)'
        /\ "transfer" \in finished' =>
               Deployed' \subseteq artifacts' /\ \A p \in Handed' : ~Holds(p, Deployer)'
    BY DEF HandoverInv, Handed, Powers, Deployed, Roles, Ownable, Holds, Deployer
  <1> QED
    BY <1>2, <1>3 DEF HandoverInv, LeftClear

LEMMA ProceedKeepsHandover == ASSUME HandoverInv, Proceed, OrderInv' PROVE HandoverInv'
  <1>1. job # <<>> /\ OrderInv /\ artifacts \subseteq artifacts'
    BY ProceedForms DEF HandoverInv
  <1>2. \A q \in power' : \E p \in Powers : \E a : q = <<p, a>>
    BY <1>1, PowersTyped DEF HandoverInv
  <1>3. ~Holds("RISK_ADMIN", Deployer)'
    BY <1>1, PowerGiven, PowerNames DEF HandoverInv
  <1>4. ASSUME "transfer" \in finished
        PROVE  Deployed \subseteq artifacts' /\ \A p \in Handed : ~Holds(p, Deployer)'
    <2>1. Deployed \subseteq artifacts /\ \A p \in Handed : ~Holds(p, Deployer)
      BY <1>4 DEF HandoverInv
    <2> QED
      BY <1>1, <2>1, PowerGiven DEF Handed
  <1>5. CASE job' = <<>> /\ UNCHANGED <<artifacts, settings, listed, finished>>
    <2>1. Clears(job')
      BY <1>1, <1>5, RunsClear
    <2>2. LeftClear'
      BY <2>1, ClearsLeft
    <2>3. "transfer" \in finished' =>
              Deployed' \subseteq artifacts' /\ \A p \in Handed' : ~Holds(p, Deployer)'
      BY <1>4, <1>5 DEF Handed, Powers, Deployed, Roles, Ownable
    <2>4. \A q \in power' : \E p \in Powers' : \E a : q = <<p, a>>
      BY <1>2 DEF Powers, Roles, Ownable
    <2> QED
      BY <1>3, <2>2, <2>3, <2>4 DEF HandoverInv, LeftClear
  <1>6. CASE /\ job' = IF Head(job).op = "read" THEN Following(Head(job)) \o Tail(job)
                                                 ELSE Tail(job)
             /\ finished' = IF Head(job).op = "end" THEN finished \cup {Head(job).on}
                                                    ELSE finished
    <2>1. \A p \in Handed : \A j \in 1 .. Len(job') :
              EndsTransfer(job'[j]) =>
                  \/ ShedsBefore(p, job', j)
                  \/ ~Holds(p, Deployer)' /\ ~GivesBefore(p, job', j)
      BY <1>6, TailHandover, ReadHandover
    <2>2. "transfer" \in finished' =>
              Deployed \subseteq artifacts' /\ \A p \in Handed : ~Holds(p, Deployer)'
      <3>1. CASE "transfer" \in finished
        BY <1>4, <3>1
      <3>2. CASE Head(job).op = "end" /\ Head(job).on = "transfer"
        <4>1. Head(job) = job[1] /\ 1 \in 1 .. Len(job)
          BY <1>1, StepsTail DEF OrderInv
        <4>2. EndsTransfer(job[1])
          BY <3>2, <4>1 DEF EndsTransfer
        <4>3. \A p \in Handed : ~Holds(p, Deployer)
          BY <4>1, <4>2 DEF HandoverInv, LeftClear, ShedsBefore
        <4>4. \A p \in Handed : ~Holds(p, Deployer)'
          <5>1. \A p : ~Gives(p, Head(job))
            BY <3>2 DEF Gives
          <5> QED
            BY <1>1, <4>3, <5>1, PowerGiven DEF Handed
        <4>5. Deployed \subseteq artifacts
          <5>1. \A c \in Deployed : Uses(c, Head(job))
            BY <3>2 DEF Uses
          <5>2. \A c \in Deployed : Secured(c)
            BY <1>1, <5>1, HeadSecured
          <5> QED
            BY <5>2 DEF Secured
        <4> QED
          BY <1>1, <4>4, <4>5
      <3> QED
        BY <1>6, <3>1, <3>2
    <2>3. LeftClear'
      BY <2>1 DEF LeftClear, Handed, Powers, Roles, Ownable, EndsTransfer, ShedsBefore,
                  GivesBefore, Sheds, Gives, Deployer, Multisig, Holds
    <2>4. /\ \A q \in power' : \E p \in Powers' : \E a : q = <<p, a>>
          /\ "transfer" \in finished' =>
                 Deployed' \subseteq artifacts' /\ \A p \in Handed' : ~Holds(p, Deployer)'
      BY <1>2, <2>2 DEF Handed, Powers, Deployed, Roles, Ownable
    <2> QED
      BY <1>3, <2>3, <2>4 DEF HandoverInv, LeftClear
  <1> QED
    BY <1>5, <1>6, ProceedForms

\* Everything is new.
LEMMA AfreshKeepsHandover ==
    ASSUME HandoverInv, OrderInv', NEW transfer \in BOOLEAN, DeployAfresh(transfer)
    PROVE  HandoverInv'
  <1>1. job' = FlattenSeq(Scripts) \o AfterDeploy(transfer) /\ power' = {} /\ finished' = {}
    BY DEF DeployAfresh
  <1>2. Clears(job')
    BY <1>1, RunsClear DEF HandoverInv
  <1>3. LeftClear'
    BY <1>2, ClearsLeft
  <1>4. ~Holds("RISK_ADMIN", Deployer)'
    BY <1>1 DEF Holds
  <1> QED
    BY <1>1, <1>3, <1>4 DEF HandoverInv, LeftClear

LEMMA HandoverInductive == HandoverInv /\ [Next]_vars => HandoverInv'
  <1> SUFFICES ASSUME HandoverInv, [Next]_vars PROVE HandoverInv'
    OBVIOUS
  <1>1. OrderInv /\ OrderInv'
    BY OrderInductive DEF HandoverInv
  <1>2. CASE Proceed
    BY <1>1, <1>2, ProceedKeepsHandover
  <1>3. CASE Crash
    BY <1>1, <1>3, RunsClear, HandoverKept DEF Crash, chain, disk
  <1>4. ASSUME NEW transfer \in BOOLEAN, DeployAfresh(transfer) PROVE HandoverInv'
    BY <1>1, <1>4, AfreshKeepsHandover
  <1>5. ASSUME NEW transfer \in BOOLEAN, DeployAgain(transfer) PROVE HandoverInv'
    BY <1>1, <1>5, RunsClear, HandoverKept DEF DeployAgain, chain, disk
  <1>6. CASE RunAddReserves
    BY <1>1, <1>6, RunsClear, HandoverKept DEF RunAddReserves, RunTask, chain, disk
  <1>7. CASE RunTransfer
    BY <1>1, <1>7, RunsClear, HandoverKept DEF RunTransfer, RunTask, chain, disk
  <1>8. CASE RunUpgrade
    BY <1>1, <1>8, RunsClear, HandoverKept DEF RunUpgrade, RunTask, chain, disk
  <1>9. ASSUME NEW a \in LaterAssets, AddToConfig(a) PROVE HandoverInv'
    BY <1>1, <1>9, HandoverKept DEF AddToConfig, chain, disk
  <1>10. CASE SaveForeign
    BY <1>1, <1>10, HandoverKept DEF SaveForeign, chain
  <1>11. ASSUME NEW a \in Assets, Supply(a) PROVE HandoverInv'
    BY <1>1, <1>11, HandoverKept DEF Supply, disk
  <1>12. CASE UNCHANGED vars
    BY <1>1, <1>12, HandoverKept DEF vars, chain, disk
  <1> QED
    BY <1>2, <1>3, <1>4, <1>5, <1>6, <1>7, <1>8, <1>9, <1>10, <1>11, <1>12 DEF Next

\* HandoverIsWhole holds: when transfer-protocol-ownership has come to its end,
\* in whatever run of it, the deployer's key has no power left, and no later
\* step of any run gives one back.
THEOREM HandoversAreWhole == Spec => []HandoverIsWhole
  <1>1. Init => HandoverInv
    <2> SUFFICES ASSUME Init PROVE HandoverInv
      OBVIOUS
    <2>1. job = <<>> /\ power = {} /\ finished = {} /\ OrderInv
      BY OrderInitially DEF Init
    <2>2. Clears(job)
      BY <2>1, RunsClear
    <2>3. ~Holds("RISK_ADMIN", Deployer)
      BY <2>1 DEF Holds
    <2> QED
      BY <2>1, <2>2, <2>3 DEF HandoverInv, LeftClear, Clears
  <1>2. HandoverInv => HandoverIsWhole
    <2> SUFFICES ASSUME HandoverInv, "transfer" \in finished, NEW q \in power, q[2] = Deployer
                 PROVE  FALSE
      BY DEF HandoverIsWhole
    <2>1. PICK p \in Powers : \E a : q = <<p, a>>
      BY DEF HandoverInv
    <2>2. q = <<p, Deployer>>
      BY <2>1
    <2> QED
      BY <2>2, PowerNames DEF HandoverInv, Holds
  <1> QED
    BY <1>1, <1>2, HandoverInductive, PTL DEF Spec

=============================================================================
