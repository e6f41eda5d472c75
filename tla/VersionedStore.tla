---------------------------- MODULE VersionedStore ----------------------------
(***************************************************************************)
(* What a SubscriptionAccountCache promises, without its lock, its staging  *)
(* map or its loops: a store in which a whole batch takes effect in one     *)
(* step, every account only moves to a newer version, and which stops for   *)
(* good once it has been found to disagree with the chain.                  *)
(***************************************************************************)
CONSTANTS
    Key,              \* account addresses
    Account,          \* versioned account values
    NoAccount,        \* the value of an address never observed
    Newer(_, _)       \* Newer(a, b): a's version is above b's

VARIABLES store, poisoned

Init ==
    /\ store = [k \in Key |-> NoAccount]
    /\ poisoned = FALSE

Supersedes(a, b) == a # NoAccount /\ (b # NoAccount => Newer(a, b))

Advance ==
    /\ ~ poisoned
    /\ store' \in [Key -> Account \cup {NoAccount}]
    /\ \A k \in Key : store'[k] # store[k] => Supersedes(store'[k], store[k])
    /\ UNCHANGED poisoned

Poison ==
    /\ poisoned' = TRUE
    /\ UNCHANGED store

Next == Advance \/ Poison

Spec == Init /\ [][Next]_<<store, poisoned>>
=============================================================================
