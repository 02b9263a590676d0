---------------------------- MODULE JobLifecycle ----------------------------
(***************************************************************************)
(* What the jobs package promises a producer, whatever adapter and workers *)
(* stand behind it (jobs.go: Status, Job.MaxRetry, Job.GroupKey): a job is *)
(* submitted once, waits, is taken out to be worked on, may be put back,   *)
(* and finishes for good; two jobs of one key are never out together; a    *)
(* handler is started only while the job is out, and MaxRetry times at     *)
(* most.  A step may move several jobs at once, as a batch claim does.     *)
(***************************************************************************)
EXTENDS Naturals

CONSTANTS Jobs, NoKey, GroupOf, MaxRetry

VARIABLES life,   \* Jobs -> "absent", "waiting", "active" or "finished"
          tries   \* Jobs -> how often a handler was started

After(l) == CASE l = "absent"   -> {"absent", "waiting"}
              [] l = "waiting"  -> {"waiting", "active", "finished"}
              [] l = "active"   -> {"active", "waiting", "finished"}
              [] l = "finished" -> {"finished"}

Exclusive == \A j, k \in Jobs :
  /\ life[j] = "active" /\ life[k] = "active"
  /\ GroupOf[j] = GroupOf[k] /\ GroupOf[j] # NoKey
  => j = k

Init == /\ life = [j \in Jobs |-> "absent"]
        /\ tries = [j \in Jobs |-> 0]

Move == /\ \A j \in Jobs : life'[j] \in After(life[j])
        /\ Exclusive'
        /\ UNCHANGED tries

Start(j) == /\ life[j] = "active"
            /\ tries[j] < MaxRetry[j]
            /\ tries' = [tries EXCEPT ![j] = @ + 1]
            /\ UNCHANGED life

Next == Move \/ \E j \in Jobs : Start(j)

Spec == Init /\ [][Next]_<<life, tries>>

=============================================================================
