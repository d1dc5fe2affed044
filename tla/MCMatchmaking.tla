--------------------------- MODULE MCMatchmaking ---------------------------
(* Instances of Matchmaking for TLC. *)
EXTENDS Matchmaking, TLC

CONSTANTS n1, n2

\* One name is as long as ACCEPT_MATCH is numbered, the other is of no
\* consequence.
Lengths == n1 :> 6 @@ n2 :> 9

=============================================================================
