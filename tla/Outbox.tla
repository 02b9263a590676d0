------------------------------- MODULE Outbox -------------------------------
(***************************************************************************)
(* The transactional outbox of events/outbox (outbox.go): rows of the      *)
(* event_outbox table and the Relayers, in any number of processes, that   *)
(* ship them to a downstream publisher.                                    *)
(*                                                                         *)
(* A row is reduced to what the statements compare: whether shipped_at is  *)
(* set, attempts, lease_until ("none", "held" in the future, "lapsed"),    *)
(* next_attempt_at (due or not) and whose lease_id it carries.  A lease_id *)
(* is fresh for every relay call, so a row carries a relayer's name only   *)
(* while it is that relayer's latest claim.  Each statement is atomic; a   *)
(* relayer may lose the processor, its context or its life between two.    *)
(*                                                                         *)
(* Faults come from budgets: MaxFails publishes the broker refuses (or     *)
(* accepts without the relayer learning it), MaxLost statements that fail, *)
(* MaxHalts relayers stopped or killed in mid-batch, MaxLapses leases that *)
(* run out (30 s) while their relayer is still at work.                    *)
(***************************************************************************)
EXTENDS Integers, FiniteSets

CONSTANTS
  Events,        \* ids of the rows that may be inserted
  Relayers,
  NoKey, KeyOf,  \* ordering_key, NoKey for a NULL one
  Created,       \* Events -> created_at
  Poison,        \* rows whose payload does not decode
  OrderedByKey, MaxAttempts, BatchSize,   \* RelayOptions
  HasDLQ,        \* DLQType is not empty
  MaxFails, MaxLost, MaxHalts, MaxLapses,
  None

ASSUME OutboxAssumption ==
  /\ IsFiniteSet(Relayers)
  /\ Created \in [Events -> Nat]
  /\ Poison \subseteq Events
  /\ OrderedByKey \in BOOLEAN /\ HasDLQ \in BOOLEAN
  /\ MaxAttempts \in Nat \ {0} /\ BatchSize \in Nat \ {0}
  /\ MaxFails \in Nat /\ MaxLost \in Nat /\ MaxHalts \in Nat /\ MaxLapses \in Nat
  /\ None \notin Events /\ None \notin Relayers

VARIABLES
  row,        \* the table
  relay,      \* Relayers -> where the relayer is in relay()
  delivered,  \* events the downstream publisher accepted, at least once
  dead,       \* events whose dead letter it accepted
  failed,     \* history: Events -> publishes that returned an error
  fails, lost, halts, lapses   \* faults spent

faultVars == <<fails, lost, halts, lapses>>
vars == <<row, relay, delivered, dead, failed, fails, lost, halts, lapses>>

Row == [st       : {"absent", "pending", "shipped", "deleted"},
        attempts : Nat,
        lease    : {"none", "held", "lapsed"},
        owner    : Relayers \cup {None},
        due      : BOOLEAN]

\* batch and att are the rows and attempt counts the SELECT returned, cur the
\* row processRow is at.
Relay == [ph    : {"idle", "claimed", "ready", "shipping", "erring", "deadletter",
                   "holding"},
          batch : SUBSET Events,
          att   : [Events -> Nat],
          cur   : Events \cup {None}]

Idle == [ph |-> "idle", batch |-> {}, att |-> [e \in Events |-> 0], cur |-> None]

Init ==
  /\ row = [e \in Events |-> [st |-> "absent", attempts |-> 0, lease |-> "none",
                              owner |-> None, due |-> TRUE]]
  /\ relay = [r \in Relayers |-> Idle]
  /\ delivered = {} /\ dead = {}
  /\ failed = [e \in Events |-> 0]
  /\ fails = 0 /\ lost = 0 /\ halts = 0 /\ lapses = 0

SameKey(e, k) == KeyOf[e] = KeyOf[k] /\ KeyOf[e] # NoKey

\* e is an older event of k's aggregate.
Before(e, k) == SameKey(e, k) /\ Created[e] < Created[k]

-----------------------------------------------------------------------------
(* Producers *)

\* insert, at the commit of the transaction it runs in.  created_at is the clock
\* at the INSERT; writers of one aggregate are serialised by the lock on its
\* row, so its events commit in that order.
Insert(e) ==
  /\ row[e].st = "absent"
  /\ \A k \in Events : Before(e, k) => row[k].st = "absent"
  /\ row' = [row EXCEPT ![e].st = "pending"]
  /\ UNCHANGED <<relay, delivered, dead, failed, faultVars>>

-----------------------------------------------------------------------------
(* relay: claim and fetch *)

Pending == {e \in Events : row[e].st = "pending"}

\* Mutant: a row waits only behind older rows that are due.
OrderGuardDue(e) == OrderedByKey => \A k \in Pending : Before(k, e) => ~row[k].due

\* orderGuard: no older unshipped row of the aggregate.
OrderGuard(e) == OrderedByKey => \A k \in Pending : ~Before(k, e)

\* Mutant: an expired lease does not make a row eligible again.
EligibleUnleased == {e \in Pending : /\ row[e].lease = "none"
                                     /\ row[e].due
                                     /\ row[e].attempts < MaxAttempts
                                     /\ OrderGuard(e)}

Eligible == {e \in Pending : /\ row[e].lease # "held"
                             /\ row[e].due
                             /\ row[e].attempts < MaxAttempts
                             /\ OrderGuard(e)}

\* ORDER BY created_at LIMIT BatchSize; ties are broken either way.
IsBatch(C) ==
  /\ C \subseteq Eligible
  /\ Cardinality(C) = BatchSize \/ (Cardinality(C) < BatchSize /\ C = Eligible)
  /\ \A e \in C, k \in Eligible \ C : Created[e] <= Created[k]

\* Mutant: only lease_until is stamped.
ClaimUnnamed(r) ==
  /\ relay[r].ph = "idle"
  /\ \E C \in SUBSET Events :
       /\ IsBatch(C)
       /\ C # {}
       /\ row' = [e \in Events |->
                    IF e \in C THEN [row[e] EXCEPT !.owner = r] ELSE row[e]]
  /\ relay' = [relay EXCEPT ![r].ph = "claimed"]
  /\ UNCHANGED <<delivered, dead, failed, faultVars>>

\* claimBatch.  Rows a relayer claimed under an earlier lease_id no longer answer
\* to the one it selects by.
Claim(r) ==
  /\ relay[r].ph = "idle"
  /\ \E C \in SUBSET Events :
       /\ IsBatch(C)
       /\ C # {}
       /\ row' = [e \in Events |->
                    IF e \in C THEN [row[e] EXCEPT !.lease = "held", !.owner = r]
                    ELSE IF row[e].owner = r THEN [row[e] EXCEPT !.owner = None]
                    ELSE row[e]]
  /\ relay' = [relay EXCEPT ![r].ph = "claimed"]
  /\ UNCHANGED <<delivered, dead, failed, faultVars>>

\* The SELECT by lease_id.  It has no ORDER BY, so the batch is a set.
Fetch(r) ==
  /\ relay[r].ph = "claimed"
  /\ LET B == {e \in Pending : row[e].owner = r}
     IN  relay' = [relay EXCEPT ![r] =
                     IF B = {} THEN Idle
                     ELSE [ph |-> "ready", batch |-> B, cur |-> None,
                           att |-> [e \in Events |-> IF e \in B THEN row[e].attempts
                                                                ELSE 0]]]
  /\ UNCHANGED <<row, delivered, dead, failed, faultVars>>

-----------------------------------------------------------------------------
(* processRow *)

At(r, e, ph) == relay' = [relay EXCEPT ![r] = [@ EXCEPT !.ph = ph, !.cur = e]]

\* processRow returns; relay goes on with the rest of the batch.
Finish(r) ==
  LET rest == relay[r].batch \ {relay[r].cur}
  IN  relay' = [relay EXCEPT ![r] =
                  IF rest = {} THEN Idle
                  ELSE [@ EXCEPT !.ph = "ready", !.batch = rest, !.cur = None,
                                 !.att = [e \in Events |->
                                            IF e \in rest THEN relay[r].att[e] ELSE 0]]]

\* downstream.Publish returns nil.
Deliver(r, e) ==
  /\ relay[r].ph = "ready"
  /\ e \in relay[r].batch \ Poison
  /\ delivered' = delivered \cup {e}
  /\ At(r, e, "shipping")
  /\ UNCHANGED <<row, dead, failed, faultVars>>

\* It returns an error, although the broker may have the event.
Refused(r, e) ==
  /\ fails < MaxFails
  /\ relay[r].ph = "ready"
  /\ e \in relay[r].batch \ Poison
  /\ delivered' \in {delivered, delivered \cup {e}}
  /\ At(r, e, "erring")
  /\ failed' = [failed EXCEPT ![e] = @ + 1]
  /\ fails' = fails + 1
  /\ UNCHANGED <<row, dead, lost, halts, lapses>>

\* handlePoison goes straight to the dead letter.
Undecoded(r, e) ==
  /\ relay[r].ph = "ready"
  /\ e \in relay[r].batch \cap Poison
  /\ At(r, e, "deadletter")
  /\ UNCHANGED <<row, delivered, dead, failed, faultVars>>

\* An UPDATE by id; it matches nothing once the row is deleted.
Writes(e, r) == row' = IF row[e].st = "deleted" THEN row ELSE [row EXCEPT ![e] = r]

\* Exhaustion is judged by the attempts the batch was fetched with.
AfterError(r) ==
  LET e == relay[r].cur
  IN  IF relay[r].att[e] + 1 >= MaxAttempts THEN At(r, e, "deadletter") ELSE Finish(r)

MarkError(r) ==
  /\ relay[r].ph = "erring"
  /\ LET e == relay[r].cur
     IN  Writes(e, [row[e] EXCEPT !.attempts = @ + 1, !.lease = "none",
                                  !.owner = None, !.due = FALSE])
  /\ AfterError(r)
  /\ UNCHANGED <<delivered, dead, failed, faultVars>>

\* Mutant: the result of the dead letter is ignored.
DeadLetterUnchecked(r) ==
  /\ relay[r].ph = "deadletter"
  /\ dead' \in {dead, dead \cup {relay[r].cur}}
  /\ At(r, relay[r].cur, "shipping")
  /\ UNCHANGED <<row, delivered, failed, faultVars>>

\* routeToDLQ: true without a publish when no DLQ is configured.
DeadLetter(r) ==
  /\ relay[r].ph = "deadletter"
  /\ dead' = IF HasDLQ THEN dead \cup {relay[r].cur} ELSE dead
  /\ At(r, relay[r].cur, "shipping")
  /\ UNCHANGED <<row, delivered, failed, faultVars>>

DeadLetterRefused(r) ==
  /\ fails < MaxFails
  /\ HasDLQ
  /\ relay[r].ph = "deadletter"
  /\ dead' \in {dead, dead \cup {relay[r].cur}}
  /\ At(r, relay[r].cur, "holding")
  /\ fails' = fails + 1
  /\ UNCHANGED <<row, delivered, failed, lost, halts, lapses>>

\* Mutant: attempts stay where markError left them.
HoldAtCap(r) ==
  /\ relay[r].ph = "holding"
  /\ LET e == relay[r].cur
     IN  Writes(e, [row[e] EXCEPT !.attempts = MaxAttempts, !.lease = "none",
                                  !.owner = None, !.due = FALSE])
  /\ Finish(r)
  /\ UNCHANGED <<delivered, dead, failed, faultVars>>

\* holdForRetry winds the row back to one attempt below the cap.
Hold(r) ==
  /\ relay[r].ph = "holding"
  /\ LET e == relay[r].cur
     IN  Writes(e, [row[e] EXCEPT !.attempts = MaxAttempts - 1, !.lease = "none",
                                  !.owner = None, !.due = FALSE])
  /\ Finish(r)
  /\ UNCHANGED <<delivered, dead, failed, faultVars>>

MarkShipped(r) ==
  /\ relay[r].ph = "shipping"
  /\ LET e == relay[r].cur
     IN  Writes(e, [row[e] EXCEPT !.st = "shipped", !.lease = "none", !.owner = None])
  /\ Finish(r)
  /\ UNCHANGED <<delivered, dead, failed, faultVars>>

\* A statement of processRow fails; its error is dropped.
StatementFails(r) ==
  /\ lost < MaxLost
  /\ \/ relay[r].ph = "erring" /\ AfterError(r)
     \/ relay[r].ph \in {"holding", "shipping"} /\ Finish(r)
  /\ lost' = lost + 1
  /\ UNCHANGED <<row, delivered, dead, failed, fails, halts, lapses>>

-----------------------------------------------------------------------------
(* The process, retention and the clock *)

\* The relayer is killed, its SELECT fails, or its context is cancelled, after
\* which every further publish and statement of the batch fails.
Halt(r) ==
  /\ halts < MaxHalts
  /\ relay[r].ph # "idle"
  /\ relay' = [relay EXCEPT ![r] = Idle]
  /\ halts' = halts + 1
  /\ UNCHANGED <<row, delivered, dead, failed, fails, lost, lapses>>

\* sweep, once RetainShipped has passed.
Sweep(e) ==
  /\ row[e].st = "shipped"
  /\ row' = [row EXCEPT ![e].st = "deleted"]
  /\ UNCHANGED <<relay, delivered, dead, failed, faultVars>>

\* Its relayer still has to fetch or process the row.
Working(r, e) == \/ relay[r].ph = "claimed" /\ row[e].owner = r
                 \/ e \in relay[r].batch

Lapse(e) == /\ row[e].lease = "held"
            /\ row' = [row EXCEPT ![e].lease = "lapsed"]
            /\ UNCHANGED <<relay, delivered, dead, failed, fails, lost, halts>>

\* The lease of a row that a halt or a failed statement left behind.
OrphanLapses(e) == /\ \A r \in Relayers : ~Working(r, e)
                   /\ Lapse(e)
                   /\ UNCHANGED lapses

LiveLeaseLapses(e) == /\ lapses < MaxLapses
                      /\ \E r \in Relayers : Working(r, e)
                      /\ Lapse(e)
                      /\ lapses' = lapses + 1

\* next_attempt_at comes.
BecomesDue(e) ==
  /\ e \in Pending
  /\ ~row[e].due
  /\ row' = [row EXCEPT ![e].due = TRUE]
  /\ UNCHANGED <<relay, delivered, dead, failed, faultVars>>

-----------------------------------------------------------------------------
RelayStep(r) ==
  \/ Claim(r) \/ Fetch(r)
  \/ \E e \in Events : Deliver(r, e) \/ Refused(r, e) \/ Undecoded(r, e)
  \/ MarkError(r) \/ DeadLetter(r) \/ DeadLetterRefused(r) \/ Hold(r)
  \/ MarkShipped(r) \/ StatementFails(r) \/ Halt(r)

RowStep(e) == \/ Insert(e) \/ Sweep(e)
              \/ OrphanLapses(e) \/ LiveLeaseLapses(e) \/ BecomesDue(e)

Next == \/ \E r \in Relayers : RelayStep(r)
        \/ \E e \in Events : RowStep(e)

Spec == Init /\ [][Next]_vars

\* Start polls for ever, a publish returns, statements are executed, and time
\* passes.  Nothing forces an insert, a sweep or a fault.
Goes(r) ==
  \/ Fetch(r) \/ \E e \in Events : Deliver(r, e) \/ Refused(r, e) \/ Undecoded(r, e)
  \/ MarkError(r) \/ DeadLetter(r) \/ DeadLetterRefused(r) \/ Hold(r)
  \/ MarkShipped(r)

Fairness ==
  /\ \A r \in Relayers : WF_vars(Claim(r)) /\ WF_vars(Goes(r))
  /\ \A e \in Events : WF_vars(OrphanLapses(e)) /\ WF_vars(BecomesDue(e))

FairSpec == Spec /\ Fairness

-----------------------------------------------------------------------------
(* Properties *)

TypeOK ==
  /\ row \in [Events -> Row]
  /\ relay \in [Relayers -> Relay]
  /\ \A r \in Relayers : relay[r].ph \in {"shipping", "erring", "deadletter", "holding"}
                           => relay[r].cur \in relay[r].batch
  /\ delivered \subseteq Events /\ dead \subseteq Events
  /\ failed \in [Events -> Nat]
  /\ fails \in 0 .. MaxFails /\ lost \in 0 .. MaxLost
  /\ halts \in 0 .. MaxHalts /\ lapses \in 0 .. MaxLapses

Resolved == {e \in Events : row[e].st \in {"shipped", "deleted"}}

\* An event is somewhere else: with the subscribers, in the DLQ, or, where no DLQ is
\* configured, given up after MaxAttempts failed publishes (or because it cannot be
\* decoded).
Closable(e) == \/ e \in delivered \cup dead
               \/ ~HasDLQ /\ (e \in Poison \/ failed[e] >= MaxAttempts)

\* A row is closed only once its event is somewhere else, whatever fails, stops,
\* lapses or overlaps (finishExhausted, handlePoison).
NothingDropped == \A e \in Resolved : Closable(e)

\* No two relayers have one row in hand.
OneRelayerPerRow ==
  \A r, s \in Relayers : \A e \in relay[r].batch \cap relay[s].batch : r = s

\* With OrderedByKey no event is published, for the first time or again, after
\* a newer event of its aggregate was delivered (RelayOptions.OrderedByKey).
OrderKept ==
  [][OrderedByKey =>
       \A r \in Relayers, e, k \in Events :
         (Deliver(r, e) \/ Refused(r, e)) /\ Before(e, k) => k \notin delivered]_vars

\* An unshipped row at the cap, which no claim takes any more, and in nobody's hands.
Stranded(e) == /\ e \in Pending
               /\ row[e].attempts >= MaxAttempts
               /\ \A r \in Relayers :
                    ~ /\ relay[r].cur = e
                      /\ relay[r].ph \in {"deadletter", "holding", "shipping"}

\* No row is there.
NoneStranded == \A e \in Events : ~Stranded(e)

\* At least while no relayer stops or outlives its lease and no statement fails:
\* however often the broker refuses the event and its dead letter, the row is
\* claimable again.
HeldStaysClaimable == halts = 0 /\ lost = 0 /\ lapses = 0 => NoneStranded

\* e is stranded, or waits behind a row that is.
Blocked(e) == \E k \in Events : Stranded(k) /\ (k = e \/ (OrderedByKey /\ Before(k, e)))

\* Every committed event is resolved in the end, unless a stranded row blocks it.
EventuallyResolved ==
  \A e \in Events : (row[e].st = "pending") ~> (e \in Resolved \/ Blocked(e))

\* The promise of EventFeed.
Stage == [e \in Events |-> CASE row[e].st = "absent"  -> "absent"
                              [] row[e].st = "pending" -> "pending"
                              [] OTHER                 -> "resolved"]

Feed == INSTANCE EventFeed WITH stage <- Stage

ImplementsFeed == Feed!Spec

-----------------------------------------------------------------------------
(* The inductive invariant. *)

\* The relayers about to count a failed publish of e.
Erring(e) == {r \in Relayers : relay[r].ph = "erring" /\ relay[r].cur = e}

\* What leads to a closed row, whatever overlaps.  Without a DLQ the attempts that
\* a row or a relayer has counted are failed publishes.
ClosingInv ==
  /\ \A r \in Relayers : relay[r].ph = "shipping" => Closable(relay[r].cur)
  /\ ~HasDLQ =>
       /\ \A r \in Relayers :
            /\ relay[r].ph # "holding"
            /\ relay[r].ph = "deadletter" => Closable(relay[r].cur)
            /\ \A e \in relay[r].batch : relay[r].att[e] <= row[e].attempts
       /\ \A e \in Events : row[e].attempts + Cardinality(Erring(e)) <= failed[e]

\* A row in hand is pending, and the relayer's lease is on it, or markError has
\* just left it at the cap, where no claim takes it.
InHand(r, e) ==
  /\ row[e].st = "pending"
  /\ \/ /\ row[e].lease = "held" /\ row[e].owner = r
        /\ row[e].attempts = relay[r].att[e]
     \/ /\ row[e].lease = "none" /\ row[e].owner = None
        /\ row[e].attempts >= MaxAttempts
        /\ e = relay[r].cur /\ relay[r].ph \in {"deadletter", "shipping", "holding"}

HandsInv ==
  \A r \in Relayers :
    /\ relay[r].ph \in {"idle", "claimed"} => relay[r].batch = {}
    /\ \A e \in Events :
         /\ e \in relay[r].batch => InHand(r, e)
         /\ relay[r].ph = "claimed" /\ row[e].owner = r
              => row[e].st = "pending" /\ row[e].lease = "held"

\* An event was claimed, delivered or taken in hand.
Touched(k) == \/ row[k].lease # "none" \/ k \in delivered
              \/ \E r \in Relayers : k \in relay[r].batch

\* From then on no older event of its aggregate is pending.
OrderInv ==
  \A k \in Events : Touched(k) =>
    /\ row[k].st # "absent"
    /\ OrderedByKey => \A e \in Pending : ~Before(e, k)

\* A row is inserted with no attempts, and nobody knows it before.
AbsentInv ==
  \A e \in Events : row[e].st = "absent" =>
    row[e].attempts = 0 /\ \A r \in Relayers : e \notin relay[r].batch

IInv == /\ TypeOK /\ NothingDropped /\ ClosingInv /\ AbsentInv
        /\ HeldStaysClaimable
        /\ lapses = 0 => OneRelayerPerRow /\ HandsInv /\ OrderInv

=============================================================================
