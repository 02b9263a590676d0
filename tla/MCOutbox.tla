------------------------------ MODULE MCOutbox ------------------------------
(* Constant values for Outbox.  Events a and b are of one aggregate, a older;  *)
(* c has no key.                                                              *)
EXTENDS Outbox

CONSTANTS a, b, c, r1, r2, K

KeyOfEvents == [e \in Events |-> IF e = c THEN NoKey ELSE K]
CreatedAt == [e \in Events |-> CASE e = a -> 1 [] e = b -> 2 [] e = c -> 1]
=============================================================================
