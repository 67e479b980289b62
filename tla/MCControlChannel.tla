-------------------------- MODULE MCControlChannel --------------------------
(* ControlChannel with small constants for TLC. *)
EXTENDS ControlChannel

MCPolicies == [ack_deadline_secs : {1}, max_delivery_attempts : {1}]
==============================================================================
