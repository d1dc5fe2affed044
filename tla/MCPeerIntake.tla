---------------------------- MODULE MCPeerIntake ----------------------------
(* Instances of PeerIntake for TLC. *)
EXTENDS PeerIntake

=============================================================================
