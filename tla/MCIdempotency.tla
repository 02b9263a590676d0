--------------------------- MODULE MCIdempotency ----------------------------
(* Constant values for Idempotency: three requests, r3 with another body, on   *)
(* two replicas that share the store and have a Locker each.                  *)
EXTENDS Idempotency, TLC

CONSTANTS r1, r2, r3, p, q, shared, b1, b2

Bodies == [r \in Requests |-> IF r = r3 THEN b2 ELSE b1]
TwoReplicas == [r \in Requests |-> IF r = r3 THEN q ELSE p]
Own == [x \in Replicas |-> x]
SharedPlace == [x \in Replicas |-> shared]
=============================================================================
