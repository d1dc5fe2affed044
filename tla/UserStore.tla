----------------------------- MODULE UserStore -----------------------------
(***************************************************************************)
(* What the game server promises about accounts: a name is registered at   *)
(* most once, the password given at registration stays with it for ever    *)
(* (across restarts of the server too), and nothing else ever enters the   *)
(* store, until the server is stopped while it rewrites the users file.    *)
(* After that it promises nothing.  UserAccounts, which models             *)
(* UserManager::registerUser and FileManager line by line, implements it.  *)
(***************************************************************************)
CONSTANTS Name, Pass, NoPass

VARIABLES accounts, torn

Unregistered == [n \in Name |-> NoPass]

Init == accounts = Unregistered /\ torn = FALSE

Register(n, p) ==
    /\ ~torn /\ torn' = torn
    /\ accounts[n] = NoPass
    /\ accounts' = [accounts EXCEPT ![n] = p]

\* A stop inside a rewrite: the accounts are what the next server makes of them.
Tear == torn'

Next == Tear \/ \E n \in Name, p \in Pass : Register(n, p)

Spec == Init /\ [][Next]_<<accounts, torn>>
=============================================================================
