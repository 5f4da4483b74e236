--------------------------- MODULE ProviderDirectory ---------------------------
(***************************************************************************)
(* What the registry of markets promises: a directory in which every       *)
(* market's addresses provider has one id of its own.  Whoever looks one   *)
(* up by the other, or lists them all, sees this directory and nothing     *)
(* else.                                                                   *)
(***************************************************************************)
EXTENDS Naturals

CONSTANTS Providers, Ids   \* Ids that a caller may ask for; 0 is none

VARIABLE directory   \* pairs of an id and the provider registered under it

Init == directory = {}

Register(provider, id) ==
    /\ id # 0
    /\ \A entry \in directory : entry[1] # id /\ entry[2] # provider
    /\ directory' = directory \cup {<<id, provider>>}

Unregister(provider) ==
    \E id \in Ids : /\ <<id, provider>> \in directory
                    /\ directory' = directory \ {<<id, provider>>}

Next == \E provider \in Providers : \/ \E id \in Ids : Register(provider, id)
                                    \/ Unregister(provider)

Spec == Init /\ [][Next]_directory
=============================================================================
