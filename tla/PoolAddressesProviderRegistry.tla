--------------------- MODULE PoolAddressesProviderRegistry ---------------------
(***************************************************************************)
(* The registry of markets: two mappings that are inverse to each other, a *)
(* list of the registered providers, and where each is in the list.  A     *)
(* provider is removed from the list by moving the last one into its       *)
(* place.  Only the owner registers and unregisters.  The positions of the *)
(* list count from zero, as in the code; those of the sequence from one.   *)
(***************************************************************************)
EXTENDS Naturals, Sequences

CONSTANTS Providers,   \* addresses of providers; the zero address is not one
          Ids,         \* that the owner chooses from
          NoProvider   \* address(0)

ASSUME RegistryAssumption == Ids \subseteq Nat /\ NoProvider \notin Providers

VARIABLES addressesProviderToId, idToAddressesProvider,
          addressesProvidersList, addressesProvidersIndexes

registryVars == <<addressesProviderToId, idToAddressesProvider,
                  addressesProvidersList, addressesProvidersIndexes>>

Init ==
    /\ addressesProviderToId = [p \in Providers |-> 0]
    /\ idToAddressesProvider = [id \in Ids |-> NoProvider]
    /\ addressesProvidersList = <<>>
    /\ addressesProvidersIndexes = [p \in Providers |-> 0]

(* Mutant: an id may be given out again. *)
RegisterAnyId(provider, id) ==
    /\ id # 0
    /\ addressesProviderToId[provider] = 0
    /\ addressesProviderToId' = [addressesProviderToId EXCEPT ![provider] = id]
    /\ idToAddressesProvider' = [idToAddressesProvider EXCEPT ![id] = provider]
    /\ addressesProvidersIndexes' =
           [addressesProvidersIndexes EXCEPT ![provider] = Len(addressesProvidersList)]
    /\ addressesProvidersList' = Append(addressesProvidersList, provider)

RegisterAddressesProvider(provider, id) ==
    /\ id # 0
    /\ idToAddressesProvider[id] = NoProvider
    /\ addressesProviderToId[provider] = 0
    /\ addressesProviderToId' = [addressesProviderToId EXCEPT ![provider] = id]
    /\ idToAddressesProvider' = [idToAddressesProvider EXCEPT ![id] = provider]
    /\ addressesProvidersIndexes' =
           [addressesProvidersIndexes EXCEPT ![provider] = Len(addressesProvidersList)]
    /\ addressesProvidersList' = Append(addressesProvidersList, provider)

(* Mutant: the moved provider keeps the index it had. *)
IndexesMovingNone(provider) == [addressesProvidersIndexes EXCEPT ![provider] = 0]

(* The indexes once the last provider of the list has taken the place of one. *)
IndexesWithout(provider) ==
    LET index == addressesProvidersIndexes[provider]
        lastIndex == Len(addressesProvidersList) - 1
        cleared == [addressesProvidersIndexes EXCEPT ![provider] = 0]
    IN  IF index < lastIndex
        THEN [cleared EXCEPT ![addressesProvidersList[lastIndex + 1]] = index]
        ELSE cleared

ListWithout(provider) ==
    LET index == addressesProvidersIndexes[provider]
        length == Len(addressesProvidersList)
        moved == IF index < length - 1
                 THEN [addressesProvidersList EXCEPT ![index + 1] = addressesProvidersList[length]]
                 ELSE addressesProvidersList
    IN  SubSeq(moved, 1, length - 1)

(* Mutant: the id stays taken. *)
UnregisterKeepingId(provider) ==
    /\ addressesProviderToId[provider] # 0
    /\ addressesProviderToId' = [addressesProviderToId EXCEPT ![provider] = 0]
    /\ addressesProvidersIndexes' = IndexesWithout(provider)
    /\ addressesProvidersList' = ListWithout(provider)
    /\ UNCHANGED idToAddressesProvider

UnregisterAddressesProvider(provider) ==
    /\ addressesProviderToId[provider] # 0
    /\ idToAddressesProvider' =
           [idToAddressesProvider EXCEPT ![addressesProviderToId[provider]] = NoProvider]
    /\ addressesProviderToId' = [addressesProviderToId EXCEPT ![provider] = 0]
    /\ addressesProvidersIndexes' = IndexesWithout(provider)
    /\ addressesProvidersList' = ListWithout(provider)

Next ==
    \E provider \in Providers :
        \/ \E id \in Ids : RegisterAddressesProvider(provider, id)
        \/ UnregisterAddressesProvider(provider)

Spec == Init /\ [][Next]_registryVars

-----------------------------------------------------------------------------
TypeOK ==
    /\ addressesProviderToId \in [Providers -> Ids \cup {0}]
    /\ idToAddressesProvider \in [Ids -> Providers \cup {NoProvider}]
    /\ addressesProvidersList \in Seq(Providers)
    /\ addressesProvidersIndexes \in [Providers -> Nat]

Registered == {p \in Providers : addressesProviderToId[p] # 0}

(* The id of a provider and the provider of an id lead to each other, so that an id is
   free exactly when no provider has it; 0 is the id of none. *)
LookupsAgree ==
    /\ \A p \in Registered : /\ addressesProviderToId[p] \in Ids \ {0}
                             /\ idToAddressesProvider[addressesProviderToId[p]] = p
    /\ \A id \in Ids : idToAddressesProvider[id] # NoProvider =>
           /\ id # 0
           /\ addressesProviderToId[idToAddressesProvider[id]] = id

(* The list names every registered provider once, at the index stored for it, however
   providers were moved into the places of others. *)
ListIsExact ==
    /\ \A p \in Registered :
           /\ addressesProvidersIndexes[p] < Len(addressesProvidersList)
           /\ addressesProvidersList[addressesProvidersIndexes[p] + 1] = p
    /\ \A i \in 1 .. Len(addressesProvidersList) :
           /\ addressesProvidersList[i] \in Registered
           /\ addressesProvidersIndexes[addressesProvidersList[i]] = i - 1

(* All three views of the registry are views of one directory, to which every call does
   what its name says. *)
Directory == INSTANCE ProviderDirectory
    WITH directory <- {<<addressesProviderToId[p], p>> : p \in Registered}

IsDirectory == Directory!Spec
=============================================================================
