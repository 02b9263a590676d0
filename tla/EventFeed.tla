----------------------------- MODULE EventFeed ------------------------------
(***************************************************************************)
(* What the outbox promises the writer of an event (outbox.go, package     *)
(* comment, RelayOptions): a committed event stays pending until it has    *)
(* been delivered or dead-lettered, or is dropped where no DLQ is          *)
(* configured; it is delivered only while pending, and with OrderedByKey   *)
(* only when no older event of its aggregate is pending any more.          *)
(***************************************************************************)
EXTENDS Naturals

CONSTANTS Events, NoKey, KeyOf, Created, OrderedByKey, HasDLQ

VARIABLES stage,      \* Events -> "absent", "pending" or "resolved"
          delivered, dead

Older(e) == {k \in Events : /\ KeyOf[k] = KeyOf[e] /\ KeyOf[e] # NoKey
                            /\ Created[k] < Created[e]}

Init == /\ stage = [e \in Events |-> "absent"]
        /\ delivered = {} /\ dead = {}

Insert(e) == /\ stage[e] = "absent"
             /\ \A k \in Events : e \in Older(k) => stage[k] = "absent"
             /\ stage' = [stage EXCEPT ![e] = "pending"]
             /\ UNCHANGED <<delivered, dead>>

Deliver(e) == /\ stage[e] = "pending"
              /\ OrderedByKey => \A k \in Older(e) : stage[k] # "pending"
              /\ delivered' = delivered \cup {e}
              /\ UNCHANGED <<stage, dead>>

Bury(e) == /\ stage[e] = "pending"
           /\ HasDLQ
           /\ dead' = dead \cup {e}
           /\ UNCHANGED <<stage, delivered>>

Resolve(e) == /\ stage[e] = "pending"
              /\ e \in delivered \cup dead \/ ~HasDLQ
              /\ stage' = [stage EXCEPT ![e] = "resolved"]
              /\ UNCHANGED <<delivered, dead>>

Next == \E e \in Events : Insert(e) \/ Deliver(e) \/ Bury(e) \/ Resolve(e)

Spec == Init /\ [][Next]_<<stage, delivered, dead>>

=============================================================================
