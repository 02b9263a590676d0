---------------------------- MODULE MCRedisQueue ----------------------------
(* Constant values for RedisQueue.  Process P has two slots, so that one job *)
(* may be delivered to it twice; Q has one and no handler for job a.  Job b  *)
(* does not decode.                                                          *)
EXTENDS RedisQueue, TLC

CONSTANTS a, b, P, Q, s1, s2, s3, m1, m2

MCProcOf == s1 :> P @@ s2 :> P @@ s3 :> Q
LessAbleQ == P :> Jobs @@ Q :> Jobs \ {a}
TwoTries == [j \in Jobs |-> 2]

=============================================================================
