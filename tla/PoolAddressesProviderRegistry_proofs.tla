----------------- MODULE PoolAddressesProviderRegistry_proofs -----------------
(***************************************************************************)
(* Proofs about the registry of markets, for every set of providers and    *)
(* ids and lists of any length.  The invariant is inductive as a whole:    *)
(* that removing a provider leaves the list exact needs every index to be  *)
(* right, and that an id is free exactly when no provider has it needs     *)
(* both mappings.  From it follows that the registry implements the        *)
(* directory.                                                              *)
(***************************************************************************)
EXTENDS PoolAddressesProviderRegistry, TLAPS

IInv == TypeOK /\ LookupsAgree /\ ListIsExact

(* The invariant holds of an empty registry. *)
LEMMA InitIsSound == Init => IInv
BY RegistryAssumption DEF Init, IInv, TypeOK, LookupsAgree, ListIsExact, Registered

(* Registering preserves it: the new provider comes last, and its id was free. *)
LEMMA RegisterIsSound ==
    ASSUME NEW provider \in Providers, NEW id \in Ids, IInv,
           RegisterAddressesProvider(provider, id)
    PROVE  IInv'
<1> USE RegistryAssumption DEF RegisterAddressesProvider, IInv, TypeOK
<1>1. TypeOK'
  OBVIOUS
<1>2. Registered' = Registered \cup {provider}
  BY DEF Registered
<1>3. provider \notin Registered
  BY DEF Registered
<1>4. LookupsAgree'
  <2>1. ASSUME NEW p \in Registered'
        PROVE  /\ addressesProviderToId'[p] \in Ids \ {0}
               /\ idToAddressesProvider'[addressesProviderToId'[p]] = p
    BY <2>1, <1>2 DEF LookupsAgree, Registered
  <2>2. ASSUME NEW i \in Ids, idToAddressesProvider'[i] # NoProvider
        PROVE  i # 0 /\ addressesProviderToId'[idToAddressesProvider'[i]] = i
    BY <2>2 DEF LookupsAgree
  <2> QED BY <2>1, <2>2 DEF LookupsAgree
<1>5. ListIsExact'
  <2>1. ASSUME NEW p \in Registered'
        PROVE  /\ addressesProvidersIndexes'[p] < Len(addressesProvidersList')
               /\ addressesProvidersList'[addressesProvidersIndexes'[p] + 1] = p
    <3>1. CASE p = provider
      BY <3>1
    <3>2. CASE p # provider
      BY <3>2, <1>2 DEF ListIsExact, Registered
    <3> QED BY <3>1, <3>2
  <2>2. ASSUME NEW i \in 1 .. Len(addressesProvidersList')
        PROVE  /\ addressesProvidersList'[i] \in Registered'
               /\ addressesProvidersIndexes'[addressesProvidersList'[i]] = i - 1
    <3>1. CASE i = Len(addressesProvidersList) + 1
      BY <3>1, <1>2
    <3>2. CASE i # Len(addressesProvidersList) + 1
      BY <3>2, <1>2, <1>3 DEF ListIsExact
    <3> QED BY <3>1, <3>2
  <2> QED BY <2>1, <2>2 DEF ListIsExact
<1> QED BY <1>1, <1>4, <1>5

(* Removing the provider at `index' moves the last one there, if it is another. *)
LEMMA ListWithoutIsShorter ==
    ASSUME NEW provider \in Registered, IInv
    PROVE  LET n == Len(addressesProvidersList)
               index == addressesProvidersIndexes[provider]
           IN  /\ n \in Nat /\ index \in 0 .. n - 1
               /\ ListWithout(provider) \in Seq(Providers)
               /\ Len(ListWithout(provider)) = n - 1
               /\ \A i \in 1 .. n - 1 :
                      ListWithout(provider)[i] =
                          IF i = index + 1 THEN addressesProvidersList[n]
                          ELSE addressesProvidersList[i]
<1> DEFINE n == Len(addressesProvidersList)
           index == addressesProvidersIndexes[provider]
           moved == IF index < n - 1
                    THEN [addressesProvidersList EXCEPT ![index + 1] = addressesProvidersList[n]]
                    ELSE addressesProvidersList
<1>1. n \in Nat /\ index \in Nat /\ index < n
  BY DEF IInv, TypeOK, ListIsExact, Registered
<1>2. addressesProvidersList \in Seq(Providers) /\ addressesProvidersList[n] \in Providers
  BY <1>1 DEF IInv, TypeOK
<1>3. moved \in Seq(Providers) /\ Len(moved) = n
  BY <1>1, <1>2
<1>4. \A i \in 1 .. n - 1 :
         moved[i] = IF i = index + 1 THEN addressesProvidersList[n] ELSE addressesProvidersList[i]
  BY <1>1, <1>2
<1>5. ListWithout(provider) = SubSeq(moved, 1, n - 1)
  BY DEF ListWithout
<1> HIDE DEF moved
<1>6. /\ SubSeq(moved, 1, n - 1) \in Seq(Providers)
      /\ Len(SubSeq(moved, 1, n - 1)) = n - 1
      /\ \A i \in 1 .. n - 1 : SubSeq(moved, 1, n - 1)[i] = moved[i]
  BY <1>1, <1>3
<1> QED BY <1>1, <1>4, <1>5, <1>6

(* Unregistering preserves it: whoever was moved is found at its new index, and
   everybody else where they were. *)
LEMMA UnregisterIsSound ==
    ASSUME NEW provider \in Providers, IInv, UnregisterAddressesProvider(provider)
    PROVE  IInv'
<1> DEFINE n == Len(addressesProvidersList)
           index == addressesProvidersIndexes[provider]
           last == addressesProvidersList[n]
<1> USE RegistryAssumption
<1>1. provider \in Registered
  BY DEF UnregisterAddressesProvider, Registered
<1>2. Registered' = Registered \ {provider}
  BY DEF UnregisterAddressesProvider, Registered, IInv, TypeOK
<1>3. /\ n \in Nat /\ index \in 0 .. n - 1
      /\ addressesProvidersList' \in Seq(Providers)
      /\ Len(addressesProvidersList') = n - 1
      /\ \A i \in 1 .. n - 1 :
             addressesProvidersList'[i] =
                 IF i = index + 1 THEN last ELSE addressesProvidersList[i]
  BY <1>1, ListWithoutIsShorter DEF UnregisterAddressesProvider
<1>4. /\ last \in Registered /\ addressesProvidersIndexes[last] = n - 1
      /\ addressesProvidersList[index + 1] = provider
      /\ last \in Providers /\ (n - 1) + 1 = n
  BY <1>1, <1>3 DEF IInv, ListIsExact, Registered
<1>5. /\ addressesProvidersIndexes' \in [Providers -> Nat]
      /\ \A p \in Providers : addressesProvidersIndexes'[p] =
             IF index < n - 1 /\ p = last THEN index
             ELSE IF p = provider THEN 0 ELSE addressesProvidersIndexes[p]
  <2> DEFINE cleared == [addressesProvidersIndexes EXCEPT ![provider] = 0]
  <2>1. addressesProvidersIndexes' = IF index < n - 1 THEN [cleared EXCEPT ![last] = index]
                                     ELSE cleared
    BY <1>4 DEF UnregisterAddressesProvider, IndexesWithout
  <2>2. /\ cleared \in [Providers -> Nat]
        /\ \A p \in Providers :
               cleared[p] = IF p = provider THEN 0 ELSE addressesProvidersIndexes[p]
    BY DEF IInv, TypeOK
  <2> HIDE DEF cleared
  <2>3. CASE index < n - 1
    BY <2>1, <2>2, <2>3, <1>3, <1>4
  <2>4. CASE ~(index < n - 1)
    BY <2>1, <2>2, <2>4
  <2> QED BY <2>3, <2>4
<1>6. TypeOK'
  BY <1>3, <1>5 DEF IInv, TypeOK, UnregisterAddressesProvider
<1>7. LookupsAgree'
  <2>1. ASSUME NEW p \in Registered'
        PROVE  /\ addressesProviderToId'[p] \in Ids \ {0}
               /\ idToAddressesProvider'[addressesProviderToId'[p]] = p
    <3>1. p \in Registered /\ p # provider /\ p \in Providers
      BY <2>1, <1>2 DEF Registered
    <3>2. addressesProviderToId'[p] = addressesProviderToId[p]
      BY <3>1 DEF IInv, TypeOK, UnregisterAddressesProvider
    <3>3. addressesProviderToId[p] # addressesProviderToId[provider]
      BY <3>1, <1>1 DEF IInv, LookupsAgree
    <3> QED BY <3>1, <3>2, <3>3 DEF IInv, TypeOK, LookupsAgree, UnregisterAddressesProvider
  <2>2. ASSUME NEW i \in Ids, idToAddressesProvider'[i] # NoProvider
        PROVE  i # 0 /\ addressesProviderToId'[idToAddressesProvider'[i]] = i
    <3>1. i # addressesProviderToId[provider] /\ idToAddressesProvider'[i] = idToAddressesProvider[i]
      BY <2>2 DEF IInv, TypeOK, UnregisterAddressesProvider
    <3>2. i # 0 /\ addressesProviderToId[idToAddressesProvider[i]] = i
      BY <2>2, <3>1 DEF IInv, LookupsAgree
    <3>3. idToAddressesProvider[i] # provider
      BY <3>1, <3>2
    <3> QED BY <2>2, <3>1, <3>2, <3>3 DEF IInv, TypeOK, UnregisterAddressesProvider
  <2> QED BY <2>1, <2>2 DEF LookupsAgree
<1>8. ListIsExact'
  <2>1. ASSUME NEW p \in Registered'
        PROVE  /\ addressesProvidersIndexes'[p] < Len(addressesProvidersList')
               /\ addressesProvidersList'[addressesProvidersIndexes'[p] + 1] = p
    <3>1. p \in Registered /\ p # provider /\ p \in Providers
      BY <2>1, <1>2 DEF Registered
    <3>2. /\ addressesProvidersIndexes[p] \in Nat /\ addressesProvidersIndexes[p] < n
          /\ addressesProvidersList[addressesProvidersIndexes[p] + 1] = p
      BY <3>1 DEF IInv, TypeOK, ListIsExact
    <3>3. CASE p = last
      BY <3>1, <3>3, <1>3, <1>4, <1>5
    <3>4. CASE p # last
      <4>1. addressesProvidersIndexes[p] # n - 1 /\ addressesProvidersIndexes[p] # index
        BY <3>1, <3>2, <3>4, <1>3, <1>4
      <4>2. addressesProvidersIndexes'[p] = addressesProvidersIndexes[p]
        BY <3>1, <3>4, <1>5
      <4>3. addressesProvidersIndexes[p] + 1 \in 1 .. n - 1
        BY <4>1, <3>2, <1>3
      <4> QED BY <4>1, <4>2, <4>3, <3>2, <1>3
    <3> QED BY <3>3, <3>4
  <2>2. ASSUME NEW i \in 1 .. Len(addressesProvidersList')
        PROVE  /\ addressesProvidersList'[i] \in Registered'
               /\ addressesProvidersIndexes'[addressesProvidersList'[i]] = i - 1
    <3>1. i \in 1 .. n - 1
      BY <1>3
    <3>2. /\ addressesProvidersList[i] \in Registered
          /\ addressesProvidersIndexes[addressesProvidersList[i]] = i - 1
      BY <3>1, <1>3 DEF IInv, ListIsExact
    <3>3. CASE i = index + 1
      BY <3>1, <3>3, <1>2, <1>3, <1>4, <1>5 DEF Registered
    <3>4. CASE i # index + 1
      <4>1. addressesProvidersList[i] # last /\ addressesProvidersList[i] # provider
        BY <3>1, <3>2, <3>4, <1>3, <1>4
      <4>2. addressesProvidersList'[i] = addressesProvidersList[i]
        BY <3>1, <3>4, <1>3
      <4>3. addressesProvidersList[i] \in Providers
        BY <3>2 DEF Registered
      <4>4. addressesProvidersIndexes'[addressesProvidersList[i]] = i - 1
        BY <4>1, <4>3, <3>2, <1>5
      <4> QED BY <4>1, <4>2, <4>4, <3>2, <1>2
    <3> QED BY <3>3, <3>4
  <2> QED BY <2>1, <2>2 DEF ListIsExact
<1> QED BY <1>6, <1>7, <1>8 DEF IInv

LEMMA RegistryInvariant == Spec => []IInv
<1>1. Init => IInv
  BY InitIsSound
<1>2. IInv /\ [Next]_registryVars => IInv'
  <2> SUFFICES ASSUME IInv, [Next]_registryVars PROVE IInv'
    OBVIOUS
  <2>1. ASSUME NEW provider \in Providers, NEW id \in Ids,
               RegisterAddressesProvider(provider, id)
        PROVE  IInv'
    BY <2>1, RegisterIsSound
  <2>2. ASSUME NEW provider \in Providers, UnregisterAddressesProvider(provider)
        PROVE  IInv'
    BY <2>2, UnregisterIsSound
  <2>3. CASE UNCHANGED registryVars
    BY <2>3 DEF registryVars, IInv, TypeOK, LookupsAgree, ListIsExact, Registered
  <2> QED BY <2>1, <2>2, <2>3 DEF Next
<1> QED BY <1>1, <1>2, PTL DEF Spec

(* However providers come, go and return under other ids, the provider of an id and the
   id of a provider lead to each other. *)
THEOREM LookupsAlwaysAgree == Spec => []LookupsAgree
BY RegistryInvariant, PTL DEF IInv

(* The swap with the last place of the list never loses a provider nor lists one twice,
   and everybody's index is kept up. *)
THEOREM ListAlwaysExact == Spec => []ListIsExact
BY RegistryInvariant, PTL DEF IInv

-----------------------------------------------------------------------------
(* The directory that the registry stands for. *)
Entries == {<<addressesProviderToId[p], p>> : p \in Registered}

(* A registration is one of the directory: no entry has the id or the provider. *)
LEMMA RegisterImplements ==
    ASSUME NEW provider \in Providers, NEW id \in Ids, IInv,
           RegisterAddressesProvider(provider, id)
    PROVE  Directory!Register(provider, id)
<1>1. \A p \in Registered : addressesProviderToId[p] # id /\ p # provider
  BY RegistryAssumption DEF RegisterAddressesProvider, IInv, LookupsAgree, Registered
<1>2. Registered' = Registered \cup {provider}
  BY DEF RegisterAddressesProvider, IInv, TypeOK, Registered
<1>3. \A p \in Registered' :
         addressesProviderToId'[p] = IF p = provider THEN id ELSE addressesProviderToId[p]
  BY DEF RegisterAddressesProvider, IInv, TypeOK, Registered
<1>4. Entries' = Entries \cup {<<id, provider>>}
  BY <1>1, <1>2, <1>3 DEF Entries
<1>5. \A entry \in Entries : entry[1] # id /\ entry[2] # provider
  BY <1>1 DEF Entries
<1> QED BY <1>4, <1>5 DEF RegisterAddressesProvider, Entries, Directory!Register

(* Unregistering takes out the provider's entry and no other. *)
LEMMA UnregisterImplements ==
    ASSUME NEW provider \in Providers, IInv, UnregisterAddressesProvider(provider)
    PROVE  Directory!Unregister(provider)
<1> DEFINE id == addressesProviderToId[provider]
<1>1. provider \in Registered /\ id \in Ids
  BY DEF UnregisterAddressesProvider, IInv, LookupsAgree, Registered
<1>2. Registered' = Registered \ {provider}
  BY DEF UnregisterAddressesProvider, IInv, TypeOK, Registered
<1>3. \A p \in Registered' : addressesProviderToId'[p] = addressesProviderToId[p]
  BY <1>2 DEF UnregisterAddressesProvider, IInv, TypeOK, Registered
<1>4. Entries' = Entries \ {<<id, provider>>}
  BY <1>1, <1>2, <1>3 DEF Entries
<1>5. <<id, provider>> \in Entries
  BY <1>1 DEF Entries
<1> QED BY <1>1, <1>4, <1>5 DEF Entries, Directory!Unregister

(* The registry implements the directory: looking up by id, by provider or in the list
   answers as one set of entries would. *)
THEOREM RegistryImplementsDirectory == Spec => IsDirectory
<1>1. Init => Directory!Init
  BY DEF Init, Directory!Init, Registered
<1>2. IInv /\ [Next]_registryVars => [Directory!Next]_Entries
  <2> SUFFICES ASSUME IInv, [Next]_registryVars PROVE [Directory!Next]_Entries
    OBVIOUS
  <2>1. ASSUME NEW provider \in Providers, NEW id \in Ids,
               RegisterAddressesProvider(provider, id)
        PROVE  Directory!Next
    BY <2>1, RegisterImplements DEF Directory!Next
  <2>2. ASSUME NEW provider \in Providers, UnregisterAddressesProvider(provider)
        PROVE  Directory!Next
    BY <2>2, UnregisterImplements DEF Directory!Next
  <2>3. CASE UNCHANGED registryVars
    <3>1. Registered' = Registered
      BY <2>3 DEF registryVars, Registered
    <3> QED BY <2>3, <3>1 DEF registryVars, Entries
  <2> QED BY <2>1, <2>2, <2>3 DEF Next
<1>3. Spec => []IInv
  BY RegistryInvariant
<1> QED BY <1>1, <1>2, <1>3, PTL DEF Spec, IsDirectory, Directory!Spec, Entries
=============================================================================
