--------------------------- MODULE MCP2PMessenger ---------------------------
(* Instances of P2PMessenger for TLC. *)
EXTENDS P2PMessenger

=============================================================================
