--------------------------- MODULE MCUserAccounts ---------------------------
(* Instances of UserAccounts for TLC. *)
EXTENDS UserAccounts

Letters == {"a", "b"}

\* One password reads the same backwards, the other does not.
Passwords == {<<"a", "b">>, <<"b">>}

Scores == {7}
OnePoint == {1}
=============================================================================
