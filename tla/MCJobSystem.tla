---------------------------- MODULE MCJobSystem -----------------------------
(* Constant values for JobSystem.  Jobs a and b share a group key, c has     *)
(* none; d is the one DLQ id and copies c.  Process p has two slots, q one.  *)
EXTENDS JobSystem, TLC

CONSTANTS a, b, c, d, p, q, s1, s2, s3, K

MCGroupOf == a :> K @@ b :> K @@ c :> NoKey @@ d :> NoKey
MCRank == a :> 1 @@ b :> 2 @@ c :> 0 @@ d :> 3
MCProcOf == s1 :> p @@ s2 :> p @@ s3 :> q

RestrictTo(f) == [j \in Jobs |-> f[j]]
GroupOfJobs == RestrictTo(MCGroupOf)
RankOfJobs == RestrictTo(MCRank)
ProcOfSlots == [s \in Slots |-> MCProcOf[s]]

TwoTries == [j \in Jobs |-> 2]

AllHandled == [x \in Procs |-> Jobs]
NoneUndecodable == [x \in Procs |-> {}]

\* q cannot handle c, nor decode its copy.
LessAbleQ == p :> Jobs @@ q :> Jobs \ {c}
BlindQ == p :> {} @@ q :> {d}

=============================================================================
