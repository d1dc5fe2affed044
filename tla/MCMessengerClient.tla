------------------------- MODULE MCMessengerClient -------------------------
(* Instances of MessengerClient for TLC. *)
EXTENDS MessengerClient

=============================================================================
