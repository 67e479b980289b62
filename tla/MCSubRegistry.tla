---------------------------- MODULE MCSubRegistry ----------------------------
(* SubRegistry with small constants for TLC. *)
EXTENDS SubRegistry

PolicyOf(deadline, attempts) ==
  [ack_deadline_secs |-> deadline, max_delivery_attempts |-> attempts]

(* One policy that retries forever, two that dead-letter, one invalid. *)
MCPolicies == {PolicyOf(1, 0), PolicyOf(1, 1), PolicyOf(2, 2), PolicyOf(0, 1)}

(* One that dead-letters after a single attempt. *)
MCOneAttempt == {PolicyOf(1, 1)}
==============================================================================
