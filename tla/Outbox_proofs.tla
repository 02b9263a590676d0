--------------------------- MODULE Outbox_proofs ---------------------------
(* Theorems about Outbox, for any number of events, keys and relayers, any *)
(* options and any fault budget.                                           *)
EXTENDS Outbox, FiniteSetTheorems, TLAPS

USE OutboxAssumption

-----------------------------------------------------------------------------
(* What the steps of a relayer do to its variables *)

Phases == {"idle", "claimed", "ready", "shipping", "erring", "deadletter", "holding"}
AtWork == {"shipping", "erring", "deadletter", "holding"}

\* Only relayer r moves.
Moves(r) == /\ relay' \in [Relayers -> Relay]
            /\ \A s \in Relayers \ {r} : relay'[s] = relay[s]

\* The parts of a Relay.
LEMMA RelayFields ==
  ASSUME TypeOK, NEW r \in Relayers
  PROVE  /\ relay[r] \in Relay
         /\ relay[r].ph \in Phases
         /\ relay[r].batch \subseteq Events
         /\ relay[r].att \in [Events -> Nat]
         /\ relay[r].cur \in Events \cup {None}
         /\ relay[r].ph \in AtWork => relay[r].cur \in relay[r].batch
  BY DEF TypeOK, Relay, Phases, AtWork

\* A relayer between two calls of relay.
LEMMA IdleFields == Idle \in Relay /\ Idle.ph = "idle" /\ Idle.batch = {}
  BY DEF Idle, Relay

\* processRow goes on with e.
LEMMA AtRelay ==
  ASSUME TypeOK, NEW r \in Relayers, NEW e \in Events, NEW p \in Phases, At(r, e, p)
  PROVE  /\ Moves(r)
         /\ relay'[r].ph = p /\ relay'[r].cur = e
         /\ relay'[r].batch = relay[r].batch /\ relay'[r].att = relay[r].att
  <1> DEFINE x == [relay[r] EXCEPT !.ph = p, !.cur = e]
  <1>1. relay[r] \in Relay
    BY DEF TypeOK
  <1>2. /\ x \in Relay
        /\ x.ph = p /\ x.cur = e /\ x.batch = relay[r].batch /\ x.att = relay[r].att
    BY <1>1 DEF Relay, Phases
  <1>3. relay' = [relay EXCEPT ![r] = x]
    BY DEF At
  <1> HIDE DEF x
  <1> QED BY <1>2, <1>3 DEF TypeOK, Moves

\* processRow is done with a row.
LEMMA FinishRelay ==
  ASSUME TypeOK, NEW r \in Relayers, Finish(r)
  PROVE  /\ Moves(r)
         /\ relay'[r].ph \in {"idle", "ready"}
         /\ relay'[r].batch = relay[r].batch \ {relay[r].cur}
         /\ relay'[r].ph = "idle" => relay'[r].batch = {}
         /\ \A e \in relay'[r].batch : relay'[r].att[e] = relay[r].att[e]
  <1> DEFINE rest == relay[r].batch \ {relay[r].cur}
             a == [e \in Events |-> IF e \in rest THEN relay[r].att[e] ELSE 0]
             x == [relay[r] EXCEPT !.ph = "ready", !.batch = rest, !.cur = None, !.att = a]
  <1>1. relay[r] \in Relay /\ rest \subseteq Events
    BY DEF TypeOK, Relay
  <1>2. a \in [Events -> Nat] /\ \A e \in rest : a[e] = relay[r].att[e]
    BY <1>1 DEF Relay
  <1>3. relay' = [relay EXCEPT ![r] = IF rest = {} THEN Idle ELSE x]
    BY DEF Finish
  <1> HIDE DEF rest, a
  <1>4. x \in Relay /\ x.ph = "ready" /\ x.batch = rest /\ x.att = a
    BY <1>1, <1>2 DEF Relay
  <1> HIDE DEF x
  <1>5. /\ Moves(r)
        /\ relay'[r] = IF rest = {} THEN Idle ELSE x
    BY <1>3, <1>4, IdleFields DEF TypeOK, Moves
  <1>6. CASE rest = {}
    BY <1>5, <1>6, IdleFields DEF rest
  <1>7. CASE rest # {}
    BY <1>2, <1>4, <1>5, <1>7 DEF rest
  <1> QED BY <1>6, <1>7

\* The SELECT by lease_id.
LEMMA FetchRelay ==
  ASSUME TypeOK, NEW r \in Relayers, Fetch(r)
  PROVE  /\ Moves(r)
         /\ relay'[r].ph \in {"idle", "ready"}
         /\ relay'[r].ph = "idle" => relay'[r].batch = {}
         /\ relay'[r].batch = {e \in Pending : row[e].owner = r}
         /\ \A e \in relay'[r].batch : relay'[r].att[e] = row[e].attempts
  <1> DEFINE B == {e \in Pending : row[e].owner = r}
             a == [e \in Events |-> IF e \in B THEN row[e].attempts ELSE 0]
             x == [ph |-> "ready", batch |-> B, cur |-> None, att |-> a]
  <1>1. B \subseteq Events /\ B = {e \in Pending : row[e].owner = r}
    BY DEF Pending
  <1>2. a \in [Events -> Nat] /\ \A e \in B : a[e] = row[e].attempts
    BY <1>1 DEF TypeOK, Row
  <1>3. relay' = [relay EXCEPT ![r] = IF B = {} THEN Idle ELSE x]
    BY DEF Fetch
  <1> HIDE DEF B, a
  <1>4. x \in Relay /\ x.ph = "ready" /\ x.batch = B /\ x.att = a
    BY <1>1, <1>2 DEF Relay
  <1> HIDE DEF x
  <1>5. /\ Moves(r)
        /\ relay'[r] = IF B = {} THEN Idle ELSE x
    BY <1>3, <1>4, IdleFields DEF TypeOK, Moves
  <1>6. CASE B = {}
    BY <1>1, <1>5, <1>6, IdleFields
  <1>7. CASE B # {}
    BY <1>1, <1>2, <1>4, <1>5, <1>7
  <1> QED BY <1>6, <1>7

\* The claim itself fills no batch yet.
LEMMA ClaimRelay ==
  ASSUME TypeOK, NEW r \in Relayers, relay' = [relay EXCEPT ![r].ph = "claimed"]
  PROVE  /\ Moves(r)
         /\ relay'[r].ph = "claimed"
         /\ relay'[r].batch = relay[r].batch /\ relay'[r].att = relay[r].att
  <1> DEFINE x == [relay[r] EXCEPT !.ph = "claimed"]
  <1>1. relay[r] \in Relay
    BY DEF TypeOK
  <1>2. /\ x \in Relay
        /\ x.ph = "claimed" /\ x.batch = relay[r].batch /\ x.att = relay[r].att
    BY <1>1 DEF Relay
  <1>3. relay' = [relay EXCEPT ![r] = x]
    OBVIOUS
  <1> HIDE DEF x
  <1> QED BY <1>2, <1>3 DEF TypeOK, Moves

-----------------------------------------------------------------------------
(* What the statements do to the table *)

\* Only row e changes.
OnlyRow(e) == /\ row' \in [Events -> Row]
              /\ \A k \in Events \ {e} : row'[k] = row[k]

\* The columns of a row.
LEMMA RowFields ==
  ASSUME TypeOK, NEW e \in Events
  PROVE  /\ row[e] \in Row
         /\ row[e].st \in {"absent", "pending", "shipped", "deleted"}
         /\ row[e].attempts \in Nat
         /\ row[e].lease \in {"none", "held", "lapsed"}
         /\ row[e].owner \in Relayers \cup {None}
         /\ row[e].due \in BOOLEAN
  BY DEF TypeOK, Row

\* An UPDATE by id, at which relayer r is at work on a row of its own.
LEMMA WriteRow ==
  ASSUME TypeOK, NEW e \in Events, NEW x \in Row, Writes(e, x)
  PROVE  /\ OnlyRow(e)
         /\ row[e].st = "deleted" => row' = row
         /\ row[e].st # "deleted" => row'[e] = x
  BY DEF TypeOK, Writes, OnlyRow

\* markError and holdForRetry: n attempts, no lease, due later.
LEMMA RetryRow ==
  ASSUME TypeOK, NEW e \in Events, NEW n \in Nat,
         Writes(e, [row[e] EXCEPT !.attempts = n, !.lease = "none", !.owner = None,
                                  !.due = FALSE])
  PROVE  /\ OnlyRow(e)
         /\ row'[e].st = row[e].st
         /\ row[e].st = "deleted" => row' = row
         /\ row[e].st # "deleted" => /\ row'[e].attempts = n /\ row'[e].lease = "none"
                                     /\ row'[e].owner = None
  <1> DEFINE x == [row[e] EXCEPT !.attempts = n, !.lease = "none", !.owner = None,
                                 !.due = FALSE]
  <1>1. /\ x \in Row
        /\ x.st = row[e].st /\ x.attempts = n /\ x.lease = "none" /\ x.owner = None
    BY RowFields DEF Row
  <1> HIDE DEF x
  <1>2. Writes(e, x)
    BY DEF x
  <1> QED BY <1>1, <1>2, WriteRow

\* markShipped.
LEMMA ShipRow ==
  ASSUME TypeOK, NEW e \in Events,
         Writes(e, [row[e] EXCEPT !.st = "shipped", !.lease = "none", !.owner = None])
  PROVE  /\ OnlyRow(e)
         /\ row'[e].st \in {"shipped", "deleted"}
         /\ row'[e].attempts = row[e].attempts
         /\ row[e].st = "deleted" => row' = row
         /\ row[e].st # "deleted" => row'[e].lease = "none" /\ row'[e].owner = None
  <1> DEFINE x == [row[e] EXCEPT !.st = "shipped", !.lease = "none", !.owner = None]
  <1>1. /\ x \in Row
        /\ x.st = "shipped" /\ x.attempts = row[e].attempts /\ x.lease = "none"
        /\ x.owner = None
    BY RowFields DEF Row
  <1> HIDE DEF x
  <1>2. Writes(e, x)
    BY DEF x
  <1> QED BY <1>1, <1>2, WriteRow

\* Fields of row e that a statement leaves alone.
SameLease(e)    == row'[e].lease = row[e].lease /\ row'[e].owner = row[e].owner
SameAttempts(e) == row'[e].attempts = row[e].attempts

\* insert and sweep only move st.
LEMMA StRow ==
  ASSUME TypeOK, NEW e \in Events, NEW s \in {"absent", "pending", "shipped", "deleted"},
         row' = [row EXCEPT ![e].st = s]
  PROVE  OnlyRow(e) /\ row'[e].st = s /\ SameLease(e) /\ SameAttempts(e)
  <1> DEFINE x == [row[e] EXCEPT !.st = s]
  <1>1. x \in Row /\ x.st = s /\ x.attempts = row[e].attempts /\ x.lease = row[e].lease
        /\ x.owner = row[e].owner
    BY RowFields DEF Row
  <1>2. row' = [row EXCEPT ![e] = x]
    OBVIOUS
  <1> HIDE DEF x
  <1> QED BY <1>1, <1>2 DEF TypeOK, OnlyRow, SameLease, SameAttempts

\* A lease runs out.
LEMMA LapseRow ==
  ASSUME TypeOK, NEW e \in Events, Lapse(e)
  PROVE  /\ OnlyRow(e) /\ SameAttempts(e)
         /\ row'[e].st = row[e].st /\ row'[e].owner = row[e].owner
         /\ row'[e].lease = "lapsed" /\ row[e].lease = "held"
  <1> DEFINE x == [row[e] EXCEPT !.lease = "lapsed"]
  <1>1. x \in Row /\ x.st = row[e].st /\ x.attempts = row[e].attempts
        /\ x.lease = "lapsed" /\ x.owner = row[e].owner
    BY RowFields DEF Row
  <1>2. row' = [row EXCEPT ![e] = x]
    BY DEF Lapse
  <1> HIDE DEF x
  <1> QED BY <1>1, <1>2 DEF TypeOK, OnlyRow, SameAttempts, Lapse

\* next_attempt_at comes.
LEMMA DueRow ==
  ASSUME TypeOK, NEW e \in Events, BecomesDue(e)
  PROVE  OnlyRow(e) /\ row'[e].st = row[e].st /\ SameLease(e) /\ SameAttempts(e)
  <1> DEFINE x == [row[e] EXCEPT !.due = TRUE]
  <1>1. x \in Row /\ x.st = row[e].st /\ x.attempts = row[e].attempts
        /\ x.lease = row[e].lease /\ x.owner = row[e].owner
    BY RowFields DEF Row
  <1>2. row' = [row EXCEPT ![e] = x]
    BY DEF BecomesDue
  <1> HIDE DEF x
  <1> QED BY <1>1, <1>2 DEF TypeOK, OnlyRow, SameLease, SameAttempts

\* claimBatch: some batch C of eligible rows gets a lease in r's name, and r's older
\* claims lose it.
LEMMA ClaimRows ==
  ASSUME TypeOK, NEW r \in Relayers, Claim(r)
  PROVE  \E C \in SUBSET Eligible :
           /\ row' \in [Events -> Row]
           /\ \A e \in Events : row'[e].st = row[e].st /\ SameAttempts(e)
           /\ \A e \in C : row'[e].lease = "held" /\ row'[e].owner = r
           /\ \A e \in Events \ C :
                /\ row'[e].lease = row[e].lease
                /\ row'[e].owner = IF row[e].owner = r THEN None ELSE row[e].owner
  <1>1. PICK C \in SUBSET Eligible :
          row' = [e \in Events |->
                    IF e \in C THEN [row[e] EXCEPT !.lease = "held", !.owner = r]
                    ELSE IF row[e].owner = r THEN [row[e] EXCEPT !.owner = None]
                    ELSE row[e]]
    BY DEF Claim, IsBatch
  <1>2. ASSUME NEW e \in Events
        PROVE  /\ row'[e] \in Row
               /\ row'[e].st = row[e].st /\ row'[e].attempts = row[e].attempts
               /\ e \in C => row'[e].lease = "held" /\ row'[e].owner = r
               /\ e \notin C =>
                    /\ row'[e].lease = row[e].lease
                    /\ row'[e].owner = IF row[e].owner = r THEN None ELSE row[e].owner
    <2> DEFINE x == [row[e] EXCEPT !.lease = "held", !.owner = r]
               y == [row[e] EXCEPT !.owner = None]
    <2>1. /\ x \in Row /\ x.st = row[e].st /\ x.attempts = row[e].attempts
          /\ x.lease = "held" /\ x.owner = r
          /\ y \in Row /\ y.st = row[e].st /\ y.attempts = row[e].attempts
          /\ y.lease = row[e].lease /\ y.owner = None
      BY RowFields DEF Row
    <2>2. row'[e] = IF e \in C THEN x ELSE IF row[e].owner = r THEN y ELSE row[e]
      BY <1>1
    <2> HIDE DEF x, y
    <2> QED BY <2>1, <2>2, RowFields
  <1>3. row' \in [Events -> Row]
    BY <1>1, <1>2
  <1>4. C \subseteq Events
    BY DEF Eligible, Pending
  <1> WITNESS C \in SUBSET Eligible
  <1> QED BY <1>2, <1>3, <1>4 DEF SameAttempts
-----------------------------------------------------------------------------
(* Type correctness *)

\* The initial state is in its types.
LEMMA InitType == Init => TypeOK
  BY DEF Init, TypeOK, Row, Relay, Idle

\* The table and the relayers are in their types, and so is every current row.
Rows   == row \in [Events -> Row]
Relays == /\ relay \in [Relayers -> Relay]
          /\ \A r \in Relayers : relay[r].ph \in AtWork => relay[r].cur \in relay[r].batch

\* TypeOK in two halves and the counters.
LEMMA TypeParts ==
  TypeOK <=> /\ Rows /\ Relays
             /\ delivered \subseteq Events /\ dead \subseteq Events
             /\ failed \in [Events -> Nat]
             /\ fails \in 0 .. MaxFails /\ lost \in 0 .. MaxLost
             /\ halts \in 0 .. MaxHalts /\ lapses \in 0 .. MaxLapses
  BY DEF TypeOK, Rows, Relays, AtWork

\* The same after a step.
LEMMA TypePartsNext ==
  TypeOK' <=> /\ Rows' /\ Relays'
              /\ delivered' \subseteq Events /\ dead' \subseteq Events
              /\ failed' \in [Events -> Nat]
              /\ fails' \in 0 .. MaxFails /\ lost' \in 0 .. MaxLost
              /\ halts' \in 0 .. MaxHalts /\ lapses' \in 0 .. MaxLapses
  BY DEF TypeOK, Rows, Relays, AtWork

\* A relayer that is at work on a row of its batch, or not at work at all.
LEMMA RelaysStep ==
  ASSUME TypeOK, NEW r \in Relayers, Moves(r),
         relay'[r].ph \in AtWork => relay'[r].cur \in relay'[r].batch
  PROVE  Relays'
  BY TypeParts DEF Moves, Relays

\* Relayer r goes on with row e of its batch.
LEMMA AtType ==
  ASSUME TypeOK, NEW r \in Relayers, NEW e \in Events, e \in relay[r].batch,
         NEW p \in Phases, At(r, e, p)
  PROVE  Relays'
  BY AtRelay, RelaysStep

\* Relayer r has done a row.
LEMMA FinishType == ASSUME TypeOK, NEW r \in Relayers, Finish(r)
                    PROVE  Relays'
  BY FinishRelay, RelaysStep DEF AtWork

\* processRow's current row, in the phases that have one.
LEMMA CurrentRow ==
  ASSUME TypeOK, NEW r \in Relayers, relay[r].ph \in AtWork
  PROVE  relay[r].cur \in Events /\ relay[r].cur \in relay[r].batch
  BY RelayFields

\* The outcome of a failed publish.
LEMMA AfterErrorType ==
  ASSUME TypeOK, NEW r \in Relayers, relay[r].ph = "erring", AfterError(r)
  PROVE  Relays'
  BY CurrentRow, AtType, FinishType DEF AfterError, AtWork, Phases

\* A step of relayer r keeps the types.
LEMMA RelayTypeStep == ASSUME TypeOK, NEW r \in Relayers, RelayStep(r)
                       PROVE  TypeOK'
  <1> USE TypeParts, TypePartsNext DEF faultVars
  <1>1. CASE Claim(r)
    <2>1. Rows'
      BY <1>1, ClaimRows DEF Rows
    <2>2. Relays'
      BY <1>1, ClaimRelay, RelaysStep DEF Claim, AtWork
    <2> QED BY <1>1, <2>1, <2>2 DEF Claim
  <1>2. CASE Fetch(r)
    <2>1. Relays'
      BY <1>2, FetchRelay, RelaysStep DEF AtWork
    <2> QED BY <1>2, <2>1 DEF Fetch, Rows
  <1>3. ASSUME NEW e \in Events, Deliver(r, e) \/ Undecoded(r, e)
        PROVE  TypeOK'
    <2>1. Relays'
      BY <1>3, AtType DEF Deliver, Undecoded, Phases
    <2> QED BY <1>3, <2>1 DEF Deliver, Undecoded, Rows
  <1>4. ASSUME NEW e \in Events, Refused(r, e)
        PROVE  TypeOK'
    <2>1. Relays'
      BY <1>4, AtType DEF Refused, Phases
    <2> QED BY <1>4, <2>1 DEF Refused, Rows
  <1>5. CASE MarkError(r)
    <2>1. relay[r].cur \in Events
      BY <1>5, CurrentRow DEF MarkError, AtWork
    <2>2. row[relay[r].cur].attempts + 1 \in Nat
      BY <2>1, RowFields
    <2>3. Rows'
      BY <1>5, <2>1, <2>2, RetryRow DEF MarkError, OnlyRow, Rows
    <2> QED BY <1>5, <2>3, AfterErrorType DEF MarkError
  <1>6. CASE DeadLetter(r) \/ DeadLetterRefused(r)
    <2>1. relay[r].cur \in Events
      BY <1>6, CurrentRow DEF DeadLetter, DeadLetterRefused, AtWork
    <2>2. Relays'
      BY <1>6, AtType, CurrentRow DEF DeadLetter, DeadLetterRefused, AtWork, Phases
    <2> QED BY <1>6, <2>1, <2>2 DEF DeadLetter, DeadLetterRefused, Rows
  <1>7. CASE Hold(r)
    <2>1. relay[r].cur \in Events
      BY <1>7, CurrentRow DEF Hold, AtWork
    <2>2. MaxAttempts - 1 \in Nat
      OBVIOUS
    <2>3. Rows'
      BY <1>7, <2>1, <2>2, RetryRow DEF Hold, OnlyRow, Rows
    <2> QED BY <1>7, <2>3, FinishType DEF Hold
  <1>8. CASE MarkShipped(r)
    <2>1. relay[r].cur \in Events
      BY <1>8, CurrentRow DEF MarkShipped, AtWork
    <2>2. Rows'
      BY <1>8, <2>1, ShipRow DEF MarkShipped, OnlyRow, Rows
    <2> QED BY <1>8, <2>2, FinishType DEF MarkShipped
  <1>9. CASE StatementFails(r)
    <2>1. Relays'
      BY <1>9, AfterErrorType, FinishType DEF StatementFails
    <2> QED BY <1>9, <2>1 DEF StatementFails, Rows
  <1>10. CASE Halt(r)
    <2>1. Relays'
      BY <1>10, IdleFields DEF Halt, Relays, AtWork
    <2> QED BY <1>10, <2>1 DEF Halt, Rows
  <1> QED BY <1>1, <1>2, <1>3, <1>4, <1>5, <1>6, <1>7, <1>8, <1>9, <1>10 DEF RelayStep

\* A step of row e keeps the types.
LEMMA RowTypeStep == ASSUME TypeOK, NEW e \in Events, RowStep(e)
                     PROVE  TypeOK'
  <1> USE TypeParts, TypePartsNext DEF faultVars, OnlyRow, Rows, Relays
  <1>1. CASE Insert(e)
    BY <1>1, StRow DEF Insert
  <1>2. CASE Sweep(e)
    BY <1>2, StRow DEF Sweep
  <1>3. CASE OrphanLapses(e)
    BY <1>3, LapseRow DEF OrphanLapses, Lapse
  <1>4. CASE LiveLeaseLapses(e)
    <2>1. Lapse(e) /\ lapses' \in 0 .. MaxLapses
      BY <1>4 DEF LiveLeaseLapses
    <2>2. Rows'
      BY <2>1, LapseRow
    <2> QED BY <2>1, <2>2 DEF Lapse
  <1>5. CASE BecomesDue(e)
    BY <1>5, DueRow DEF BecomesDue
  <1> QED BY <1>1, <1>2, <1>3, <1>4, <1>5 DEF RowStep

\* Every step keeps the types.
LEMMA TypeStep == ASSUME TypeOK, [Next]_vars
                  PROVE  TypeOK'
  <1>1. CASE UNCHANGED vars
    BY <1>1 DEF TypeOK, vars
  <1> QED BY <1>1, RelayTypeStep, RowTypeStep DEF Next

\* Every variable stays in its type.
THEOREM TypeCorrect == Spec => []TypeOK
  BY InitType, TypeStep, PTL DEF Spec
-----------------------------------------------------------------------------
(* No event is dropped *)

\* Relayer s closes no row whose event is not somewhere else.
Safe(s) ==
  /\ relay[s].ph = "shipping" => Closable(relay[s].cur)
  /\ ~HasDLQ => /\ relay[s].ph # "holding"
                /\ relay[s].ph = "deadletter" => Closable(relay[s].cur)
                /\ \A e \in relay[s].batch : relay[s].att[e] <= row[e].attempts

\* The attempts counted for e are failed publishes.
Counted(e) == row[e].attempts + Cardinality(Erring(e)) <= failed[e]

\* The invariant of this part.
Closing == NothingDropped /\ ClosingInv

\* ClosingInv is Safe of every relayer and Counted of every row.
LEMMA ClosingParts ==
  ClosingInv <=> /\ \A s \in Relayers : Safe(s)
                 /\ ~HasDLQ => \A e \in Events : Counted(e)
  BY DEF ClosingInv, Safe, Counted

\* The same after a step.
LEMMA ClosingPartsNext ==
  ClosingInv' <=> /\ \A s \in Relayers : Safe(s)'
                  /\ ~HasDLQ => \A e \in Events : Counted(e)'
  BY DEF ClosingInv, Safe, Counted

\* The relayers about to count a failure are finitely many.
LEMMA ErringFinite ==
  ASSUME NEW e \in Events
  PROVE  /\ IsFiniteSet(Erring(e)) /\ Cardinality(Erring(e)) \in Nat
         /\ IsFiniteSet(Erring(e)') /\ Cardinality(Erring(e)') \in Nat
  <1>1. Erring(e) \subseteq Relayers /\ Erring(e)' \subseteq Relayers
    BY DEF Erring
  <1> QED BY <1>1, FS_Subset, FS_CardinalityType

\* What no step takes back.
Grows == /\ \A e \in Events : Closable(e) => Closable(e)'
         /\ ~HasDLQ => \A e \in Events : row[e].attempts <= row'[e].attempts

\* A relayer that does not move stays safe.
LEMMA SafeFrame ==
  ASSUME TypeOK, NEW r \in Relayers, Moves(r), Grows, \A s \in Relayers : Safe(s),
         Safe(r)', TypeOK'
  PROVE  \A s \in Relayers : Safe(s)'
  <1> SUFFICES ASSUME NEW s \in Relayers \ {r}
               PROVE  Safe(s)'
    OBVIOUS
  <1>1. relay'[s] = relay[s] /\ Safe(s)
    BY DEF Moves
  <1>2. relay[s].ph \in {"shipping", "deadletter"} => relay[s].cur \in Events
    BY CurrentRow DEF AtWork
  <1>3. CASE HasDLQ
    BY <1>1, <1>2, <1>3 DEF Safe, Grows
  <1>4. CASE ~HasDLQ
    <2>1. ASSUME NEW e \in relay[s].batch
          PROVE  relay[s].att[e] <= row'[e].attempts
      <3>1. e \in Events /\ relay[s].att[e] \in Nat /\ row[e].attempts \in Nat
        BY RelayFields, RowFields
      <3>2. row'[e].attempts \in Nat
        BY <3>1 DEF TypeOK, Row
      <3>3. relay[s].att[e] <= row[e].attempts /\ row[e].attempts <= row'[e].attempts
        BY <1>1, <1>4, <3>1 DEF Safe, Grows
      <3> QED BY <3>1, <3>2, <3>3
    <2> QED BY <1>1, <1>2, <1>4, <2>1 DEF Safe, Grows
  <1> QED BY <1>3, <1>4

\* No publish fails and no attempt is counted.
LEMMA CountedFrame ==
  ASSUME TypeOK, NEW e \in Events, Counted(e), failed'[e] = failed[e], SameAttempts(e),
         \A s \in Relayers : relay'[s].ph = "erring" =>
                               relay[s].ph = "erring" /\ relay[s].cur = relay'[s].cur
  PROVE  Counted(e)'
  <1>1. Erring(e)' \subseteq Erring(e)
    BY DEF Erring
  <1>2. Cardinality(Erring(e)') <= Cardinality(Erring(e))
    BY <1>1, ErringFinite, FS_Subset
  <1>3. failed[e] \in Nat /\ row[e].attempts \in Nat
    BY RowFields DEF TypeOK
  <1> QED BY <1>2, <1>3, ErringFinite DEF Counted, SameAttempts

\* What a delivery, a dead letter or a failed publish adds to.
LEMMA ClosableGrows ==
  ASSUME delivered \subseteq delivered', dead \subseteq dead',
         \A e \in Events : failed[e] \in Nat /\ failed'[e] \in Nat /\ failed[e] <= failed'[e]
  PROVE  \A e \in Events : Closable(e) => Closable(e)'
  <1> SUFFICES ASSUME NEW e \in Events, Closable(e)
               PROVE  Closable(e)'
    OBVIOUS
  <1>1. failed[e] >= MaxAttempts => failed'[e] >= MaxAttempts
    OBVIOUS
  <1> QED BY <1>1 DEF Closable

\* Only markShipped and sweep close a row.
LEMMA NothingDroppedFrame ==
  ASSUME NothingDropped, \A e \in Events : Closable(e) => Closable(e)',
         \A e \in Events : row'[e].st \in {"shipped", "deleted"} =>
                              row[e].st \in {"shipped", "deleted"} \/ Closable(e)
  PROVE  NothingDropped'
  BY DEF NothingDropped, Resolved
\* Relayer r keeps its attempt counts, and closes only what is closable.
LEMMA SafeMoves ==
  ASSUME TypeOK, TypeOK', NEW r \in Relayers, Safe(r), Grows,
         relay'[r].batch \subseteq relay[r].batch,
         \A e \in relay'[r].batch : relay'[r].att[e] = relay[r].att[e],
         relay'[r].ph = "shipping" => Closable(relay[r].cur)',
         ~HasDLQ => relay'[r].ph # "holding",
         ~HasDLQ => (relay'[r].ph = "deadletter" => Closable(relay[r].cur)')
  PROVE  Safe(r)'
  <1>1. ASSUME ~HasDLQ, NEW e \in relay'[r].batch
        PROVE  relay'[r].att[e] <= row'[e].attempts
    <2>1. e \in Events /\ e \in relay[r].batch /\ relay[r].att[e] \in Nat
      BY RelayFields
    <2>2. row[e].attempts \in Nat /\ row'[e].attempts \in Nat
      BY <2>1 DEF TypeOK, Row
    <2>3. relay[r].att[e] <= row[e].attempts /\ row[e].attempts <= row'[e].attempts
      BY <1>1, <2>1 DEF Safe, Grows
    <2> QED BY <2>1, <2>2, <2>3
  <1> QED BY <1>1 DEF Safe

\* A step of relayer r keeps Closing if it keeps what r knows and counts.
LEMMA ClosingByRelay ==
  ASSUME TypeOK, TypeOK', Closing, NEW r \in Relayers, Moves(r), Grows, Safe(r)',
         \A e \in Events : row'[e].st \in {"shipped", "deleted"} =>
                              row[e].st \in {"shipped", "deleted"} \/ Closable(e),
         ~HasDLQ => \A e \in Events : Counted(e)'
  PROVE  Closing'
  <1>1. NothingDropped'
    BY NothingDroppedFrame DEF Closing, Grows
  <1>2. \A s \in Relayers : Safe(s)'
    BY SafeFrame, ClosingParts DEF Closing
  <1> QED BY <1>1, <1>2, ClosingPartsNext DEF Closing

\* No attempt is counted and no publish fails.
LEMMA CountedMoves ==
  ASSUME TypeOK, Closing, NEW r \in Relayers, Moves(r), failed' = failed,
         relay'[r].ph # "erring", \A e \in Events : SameAttempts(e)
  PROVE  ~HasDLQ => \A e \in Events : Counted(e)'
  <1>1. \A s \in Relayers : relay'[s].ph = "erring" =>
                             relay[s].ph = "erring" /\ relay[s].cur = relay'[s].cur
    BY DEF Moves
  <1> QED BY <1>1, CountedFrame, ClosingParts DEF Closing

\* A step that leaves the events and the attempts alone.
LEMMA GrowsSame ==
  ASSUME TypeOK, delivered' = delivered, dead' = dead, failed' = failed,
         ~HasDLQ => \A e \in Events : SameAttempts(e)
  PROVE  Grows
  <1>1. \A e \in Events : failed[e] \in Nat /\ row[e].attempts \in Nat
    BY RowFields DEF TypeOK
  <1> QED BY <1>1 DEF Grows, Closable, SameAttempts

\* A publish or a dead letter that may have been accepted.
LEMMA GrowsSent ==
  ASSUME TypeOK, row' = row, delivered \subseteq delivered', dead \subseteq dead',
         \A e \in Events : failed'[e] \in Nat /\ failed[e] <= failed'[e]
  PROVE  Grows /\ \A e \in Events : SameAttempts(e)
  <1>1. \A e \in Events : failed[e] \in Nat /\ row[e].attempts \in Nat
    BY RowFields DEF TypeOK
  <1> QED BY <1>1, ClosableGrows DEF Grows, SameAttempts

\* A failed publish that is being counted.
LEMMA ErringCounts ==
  ASSUME TypeOK, Closing, NEW r \in Relayers, relay[r].ph = "erring", ~HasDLQ
  PROVE  LET e == relay[r].cur
         IN  /\ row[e].attempts + 1 <= failed[e]
             /\ relay[r].att[e] + 1 >= MaxAttempts => Closable(e)
  <1> DEFINE e == relay[r].cur
  <1>1. e \in Events /\ e \in relay[r].batch
    BY CurrentRow DEF AtWork
  <1>2. r \in Erring(e)
    BY DEF Erring
  <1>3. Cardinality(Erring(e)) # 0
    BY <1>1, <1>2, ErringFinite, FS_EmptySet
  <1>4. row[e].attempts \in Nat /\ failed[e] \in Nat /\ relay[r].att[e] \in Nat
    BY <1>1, RowFields, RelayFields DEF TypeOK
  <1>5. row[e].attempts + 1 <= failed[e]
    BY <1>1, <1>3, <1>4, ErringFinite, ClosingParts DEF Closing, Counted
  <1>6. relay[r].att[e] <= row[e].attempts
    BY <1>1, ClosingParts DEF Closing, Safe
  <1> HIDE DEF e
  <1>7. relay[r].att[e] + 1 >= MaxAttempts => failed[e] >= MaxAttempts
    BY <1>4, <1>5, <1>6
  <1> QED BY <1>5, <1>7 DEF Closable, e

\* After a failed publish r gives up on the row or goes on with the rest.
LEMMA AfterErrorRelay ==
  ASSUME TypeOK, NEW r \in Relayers, relay[r].ph = "erring", AfterError(r)
  PROVE  /\ Moves(r)
         /\ relay'[r].ph \in {"deadletter", "idle", "ready"}
         /\ relay'[r].batch \subseteq relay[r].batch
         /\ \A e \in relay'[r].batch : relay'[r].att[e] = relay[r].att[e]
         /\ relay'[r].ph = "deadletter" =>
              /\ relay'[r].cur = relay[r].cur
              /\ relay[r].att[relay[r].cur] + 1 >= MaxAttempts
         /\ relay'[r].ph # "deadletter" =>
              /\ relay'[r].batch = relay[r].batch \ {relay[r].cur}
              /\ relay'[r].ph = "idle" => relay'[r].batch = {}
  <1>1. relay[r].cur \in Events /\ "deadletter" \in Phases
    BY CurrentRow DEF AtWork, Phases
  <1>2. CASE relay[r].att[relay[r].cur] + 1 >= MaxAttempts
    <2>1. At(r, relay[r].cur, "deadletter")
      BY <1>2 DEF AfterError
    <2> QED BY <1>1, <1>2, <2>1, AtRelay
  <1>3. CASE ~(relay[r].att[relay[r].cur] + 1 >= MaxAttempts)
    BY <1>3, FinishRelay DEF AfterError
  <1> QED BY <1>2, <1>3
\* A counted failure leaves Erring, an attempt enters the row.
LEMMA MarkErrorCounts ==
  ASSUME TypeOK, Closing, ~HasDLQ, NEW r \in Relayers, MarkError(r)
  PROVE  /\ \A e \in Events : row[e].attempts <= row'[e].attempts
         /\ \A e \in Events : Counted(e)'
  <1>1. relay[r].ph = "erring" /\ AfterError(r) /\ failed' = failed
    BY DEF MarkError
  <1>2. PICK c \in Events : c = relay[r].cur
    BY <1>1, CurrentRow DEF AtWork
  <1>3. Moves(r) /\ relay'[r].ph # "erring"
    BY <1>1, AfterErrorRelay
  <1>4. row[c].attempts \in Nat /\ row[c].attempts + 1 \in Nat
    BY <1>2, RowFields
  <1>5. /\ OnlyRow(c)
        /\ row'[c].attempts \in {row[c].attempts, row[c].attempts + 1}
    BY <1>2, <1>4, RetryRow DEF MarkError
  <1>6. \A s \in Relayers : relay'[s].ph = "erring" =>
                             relay[s].ph = "erring" /\ relay[s].cur = relay'[s].cur
    BY <1>3 DEF Moves
  <1>7. ASSUME NEW e \in Events \ {c}
        PROVE  Counted(e)'
    <2>1. SameAttempts(e)
      BY <1>5 DEF OnlyRow, SameAttempts
    <2> QED BY <1>1, <1>6, <2>1, CountedFrame, ClosingParts DEF Closing
  <1>8. Counted(c)'
    <2>1. r \in Erring(c) /\ Erring(c)' \subseteq Erring(c) \ {r}
      BY <1>1, <1>2, <1>3, <1>6 DEF Erring
    <2>2. /\ IsFiniteSet(Erring(c) \ {r})
          /\ Cardinality(Erring(c) \ {r}) = Cardinality(Erring(c)) - 1
      BY <1>2, <2>1, ErringFinite, FS_RemoveElement
    <2>3. Cardinality(Erring(c)') <= Cardinality(Erring(c)) - 1
      BY <2>1, <2>2, FS_Subset
    <2>4. row[c].attempts + Cardinality(Erring(c)) <= failed[c] /\ failed[c] \in Nat
      BY <1>2, ClosingParts DEF Closing, Counted, TypeOK
    <2> QED BY <1>1, <1>2, <1>4, <1>5, <2>3, <2>4, ErringFinite DEF Counted
  <1>9. \A e \in Events : row[e].attempts <= row'[e].attempts
    <2>1. \A e \in Events : row[e].attempts \in Nat
      BY RowFields
    <2> QED BY <1>4, <1>5, <2>1 DEF OnlyRow
  <1> QED BY <1>7, <1>8, <1>9

\* A refused publish enters Erring and the history alike.
LEMMA RefusedCounts ==
  ASSUME TypeOK, Closing, ~HasDLQ, NEW r \in Relayers, NEW c \in Events, Refused(r, c)
  PROVE  \A e \in Events : Counted(e)'
  <1>1. /\ Moves(r) /\ relay[r].ph = "ready"
        /\ relay'[r].ph = "erring" /\ relay'[r].cur = c
    BY AtRelay DEF Refused, Phases
  <1>2. /\ row' = row
        /\ failed'[c] = failed[c] + 1 /\ failed[c] \in Nat
        /\ \A e \in Events \ {c} : failed'[e] = failed[e]
    BY DEF Refused, TypeOK
  <1>3. ASSUME NEW e \in Events \ {c}
        PROVE  Counted(e)'
    <2>1. Erring(e)' \subseteq Erring(e)
      BY <1>1 DEF Erring, Moves
    <2>2. Cardinality(Erring(e)') <= Cardinality(Erring(e))
      BY <2>1, ErringFinite, FS_Subset
    <2>3. row[e].attempts \in Nat /\ failed[e] \in Nat
      BY RowFields DEF TypeOK
    <2>4. row[e].attempts + Cardinality(Erring(e)) <= failed[e]
      BY ClosingParts DEF Closing, Counted
    <2> QED BY <1>2, <2>2, <2>3, <2>4, ErringFinite DEF Counted
  <1>4. Counted(c)'
    <2>1. Erring(c)' \subseteq Erring(c) \cup {r}
      BY <1>1 DEF Erring, Moves
    <2>2. r \notin Erring(c)
      BY <1>1 DEF Erring
    <2>3. /\ IsFiniteSet(Erring(c) \cup {r})
          /\ Cardinality(Erring(c) \cup {r}) = Cardinality(Erring(c)) + 1
      BY <2>2, ErringFinite, FS_AddElement
    <2>4. Cardinality(Erring(c)') <= Cardinality(Erring(c)) + 1
      BY <2>1, <2>3, FS_Subset
    <2>5. row[c].attempts \in Nat
      BY RowFields
    <2>6. row[c].attempts + Cardinality(Erring(c)) <= failed[c]
      BY ClosingParts DEF Closing, Counted
    <2> QED BY <1>2, <2>4, <2>5, <2>6, ErringFinite DEF Counted
  <1> QED BY <1>3, <1>4

\* Each step of a relayer keeps Closing.
LEMMA ClosingRelayStep ==
  ASSUME TypeOK, TypeOK', Closing, NEW r \in Relayers, RelayStep(r)
  PROVE  Closing'
  <1>s. Safe(r)
    BY ClosingParts DEF Closing
  <1>a. \A e \in Events : row[e].attempts \in Nat /\ failed[e] \in Nat
    BY RowFields DEF TypeOK
  <1>1. CASE Claim(r)
    <2>1. Moves(r) /\ relay'[r].ph = "claimed" /\ relay'[r].batch = relay[r].batch
          /\ relay'[r].att = relay[r].att
      BY <1>1, ClaimRelay DEF Claim
    <2>2. \A e \in Events : row'[e].st = row[e].st /\ SameAttempts(e)
      BY <1>1, ClaimRows
    <2>3. delivered' = delivered /\ dead' = dead /\ failed' = failed
      BY <1>1 DEF Claim
    <2>4. Grows
      BY <2>2, <2>3, GrowsSame
    <2>5. Safe(r)'
      BY <1>s, <2>1, <2>4, SafeMoves
    <2> QED BY <2>1, <2>2, <2>3, <2>4, <2>5, CountedMoves, ClosingByRelay
  <1>2. CASE Fetch(r)
    <2>1. /\ Moves(r) /\ relay'[r].ph \in {"idle", "ready"}
          /\ \A e \in relay'[r].batch : e \in Events /\ relay'[r].att[e] = row[e].attempts
      BY <1>2, FetchRelay DEF Pending
    <2>2. row' = row /\ delivered' = delivered /\ dead' = dead /\ failed' = failed
      BY <1>2 DEF Fetch
    <2>3. Grows /\ \A e \in Events : SameAttempts(e)
      BY <2>2, GrowsSame DEF SameAttempts
    <2>4. Safe(r)'
      BY <1>a, <2>1, <2>2 DEF Safe
    <2> QED BY <2>1, <2>2, <2>3, <2>4, CountedMoves, ClosingByRelay
  <1>3. ASSUME NEW e \in Events, Deliver(r, e)
        PROVE  Closing'
    <2>1. Moves(r) /\ relay'[r].ph = "shipping" /\ relay'[r].cur = e
          /\ relay'[r].batch = relay[r].batch /\ relay'[r].att = relay[r].att
      BY <1>3, AtRelay DEF Deliver, Phases
    <2>2. row' = row /\ delivered' = delivered \cup {e} /\ dead' = dead /\ failed' = failed
      BY <1>3 DEF Deliver
    <2>3. Grows /\ \A k \in Events : SameAttempts(k)
      BY <1>a, <2>2, GrowsSent
    <2>4. Closable(relay[r].cur)'
      BY <2>1, <2>2 DEF Closable
    <2>5. Safe(r)'
      BY <1>s, <2>1, <2>3, <2>4, SafeMoves
    <2> QED BY <2>1, <2>2, <2>3, <2>5, CountedMoves, ClosingByRelay
  <1>4. ASSUME NEW e \in Events, Refused(r, e)
        PROVE  Closing'
    <2>1. Moves(r) /\ relay'[r].ph = "erring" /\ relay'[r].cur = e
          /\ relay'[r].batch = relay[r].batch /\ relay'[r].att = relay[r].att
      BY <1>4, AtRelay DEF Refused, Phases
    <2>2. /\ row' = row /\ delivered \subseteq delivered' /\ dead' = dead
          /\ failed' = [failed EXCEPT ![e] = @ + 1]
      BY <1>4 DEF Refused
    <2>3. \A k \in Events : failed'[k] \in Nat /\ failed[k] <= failed'[k]
      BY <1>a, <2>2 DEF TypeOK
    <2>4. Grows
      BY <2>2, <2>3, GrowsSent
    <2>5. Safe(r)'
      BY <1>s, <2>1, <2>4, SafeMoves
    <2> QED BY <1>4, <2>1, <2>2, <2>4, <2>5, RefusedCounts, ClosingByRelay
  <1>5. ASSUME NEW e \in Events, Undecoded(r, e)
        PROVE  Closing'
    <2>1. Moves(r) /\ relay'[r].ph = "deadletter" /\ relay'[r].cur = e
          /\ relay'[r].batch = relay[r].batch /\ relay'[r].att = relay[r].att
      BY <1>5, AtRelay DEF Undecoded, Phases
    <2>2. /\ row' = row /\ delivered' = delivered /\ dead' = dead /\ failed' = failed
          /\ e \in Poison
      BY <1>5 DEF Undecoded
    <2>3. Grows /\ \A k \in Events : SameAttempts(k)
      BY <2>2, GrowsSame DEF SameAttempts
    <2>4. ~HasDLQ => Closable(relay[r].cur)'
      BY <2>1, <2>2 DEF Closable
    <2>5. Safe(r)'
      BY <1>s, <2>1, <2>3, <2>4, SafeMoves
    <2> QED BY <2>1, <2>2, <2>3, <2>5, CountedMoves, ClosingByRelay
  <1>6. CASE MarkError(r) \/ (StatementFails(r) /\ relay[r].ph = "erring")
    <2>1. /\ relay[r].ph = "erring" /\ AfterError(r)
          /\ delivered' = delivered /\ dead' = dead /\ failed' = failed
      BY <1>6 DEF MarkError, StatementFails
    <2>2. /\ relay[r].cur \in Events
          /\ row[relay[r].cur].attempts + 1 \in Nat
      BY <1>a, <2>1, CurrentRow DEF AtWork
    <2>3. \A e \in Events : row'[e].st = row[e].st
      <3>1. CASE MarkError(r)
        <4>1. OnlyRow(relay[r].cur) /\ row'[relay[r].cur].st = row[relay[r].cur].st
          BY <2>2, <3>1, RetryRow DEF MarkError
        <4> QED BY <4>1 DEF OnlyRow
      <3> QED BY <1>6, <3>1 DEF StatementFails
    <2>4. /\ Moves(r) /\ relay'[r].ph \in {"deadletter", "idle", "ready"}
          /\ relay'[r].batch \subseteq relay[r].batch
          /\ \A e \in relay'[r].batch : relay'[r].att[e] = relay[r].att[e]
          /\ relay'[r].ph = "deadletter" =>
               /\ relay'[r].cur = relay[r].cur
               /\ relay[r].att[relay[r].cur] + 1 >= MaxAttempts
      BY <2>1, AfterErrorRelay
    <2>5. /\ ~HasDLQ => \A e \in Events : row[e].attempts <= row'[e].attempts
          /\ ~HasDLQ => \A e \in Events : Counted(e)'
      <3>1. CASE MarkError(r)
        BY <3>1, MarkErrorCounts
      <3>2. CASE StatementFails(r) /\ relay[r].ph = "erring"
        <4>1. row' = row /\ failed' = failed /\ \A e \in Events : SameAttempts(e)
          BY <3>2 DEF StatementFails, SameAttempts
        <4> QED BY <1>a, <2>4, <4>1, CountedMoves
      <3> QED BY <1>6, <3>1, <3>2
    <2>6. Grows
      BY <2>1, <2>5, ClosableGrows, <1>a DEF Grows
    <2>7. ~HasDLQ => (relay'[r].ph = "deadletter" => Closable(relay[r].cur)')
      BY <2>1, <2>4, ErringCounts DEF Closable
    <2>8. Safe(r)'
      BY <1>s, <2>4, <2>6, <2>7, SafeMoves
    <2> QED BY <2>3, <2>4, <2>5, <2>6, <2>8, ClosingByRelay
  <1>7. CASE DeadLetter(r)
    <2>1. /\ relay[r].ph = "deadletter" /\ relay[r].cur \in Events
          /\ Moves(r) /\ relay'[r].ph = "shipping" /\ relay'[r].cur = relay[r].cur
          /\ relay'[r].batch = relay[r].batch /\ relay'[r].att = relay[r].att
      BY <1>7, CurrentRow, AtRelay DEF DeadLetter, Phases, AtWork
    <2>2. /\ row' = row /\ delivered' = delivered /\ failed' = failed
          /\ dead' = IF HasDLQ THEN dead \cup {relay[r].cur} ELSE dead
      BY <1>7 DEF DeadLetter
    <2>3. Grows /\ \A k \in Events : SameAttempts(k)
      BY <1>a, <2>2, GrowsSent
    <2>4. Closable(relay[r].cur)'
      BY <1>s, <2>1, <2>2, <2>3 DEF Closable, Safe, Grows
    <2>5. Safe(r)'
      BY <1>s, <2>1, <2>3, <2>4, SafeMoves
    <2> QED BY <2>1, <2>2, <2>3, <2>5, CountedMoves, ClosingByRelay
  <1>8. CASE DeadLetterRefused(r)
    <2>1. /\ relay[r].ph = "deadletter" /\ relay[r].cur \in Events
          /\ Moves(r) /\ relay'[r].ph = "holding"
          /\ relay'[r].batch = relay[r].batch /\ relay'[r].att = relay[r].att
      BY <1>8, CurrentRow, AtRelay DEF DeadLetterRefused, Phases, AtWork
    <2>2. /\ row' = row /\ delivered' = delivered /\ failed' = failed
          /\ dead \subseteq dead' /\ HasDLQ
      BY <1>8 DEF DeadLetterRefused
    <2>3. Grows /\ \A k \in Events : SameAttempts(k)
      BY <1>a, <2>2, GrowsSent
    <2>4. Safe(r)'
      BY <1>s, <2>1, <2>2, <2>3, SafeMoves
    <2> QED BY <2>1, <2>2, <2>3, <2>4, CountedMoves, ClosingByRelay
  <1>9. CASE Hold(r)
    <2>1. relay[r].ph = "holding" /\ relay[r].cur \in Events /\ MaxAttempts - 1 \in Nat
      BY <1>9, CurrentRow DEF Hold, AtWork
    <2>2. HasDLQ
      BY <1>s, <2>1 DEF Safe
    <2>3. /\ delivered' = delivered /\ dead' = dead /\ failed' = failed
          /\ OnlyRow(relay[r].cur) /\ row'[relay[r].cur].st = row[relay[r].cur].st
      BY <1>9, <2>1, RetryRow DEF Hold
    <2>4. /\ Moves(r) /\ relay'[r].ph \in {"idle", "ready"}
          /\ relay'[r].batch \subseteq relay[r].batch
          /\ \A e \in relay'[r].batch : relay'[r].att[e] = relay[r].att[e]
      BY <1>9, FinishRelay DEF Hold
    <2>5. Grows
      BY <2>2, <2>3, GrowsSame
    <2>6. Safe(r)'
      BY <1>s, <2>4, <2>5, SafeMoves
    <2> QED BY <2>2, <2>3, <2>4, <2>5, <2>6, ClosingByRelay DEF OnlyRow
  <1>10. CASE MarkShipped(r)
    <2>1. relay[r].ph = "shipping" /\ relay[r].cur \in Events
      BY <1>10, CurrentRow DEF MarkShipped, AtWork
    <2>2. Closable(relay[r].cur)
      BY <1>s, <2>1 DEF Safe
    <2>3. /\ delivered' = delivered /\ dead' = dead /\ failed' = failed
          /\ OnlyRow(relay[r].cur)
          /\ row'[relay[r].cur].attempts = row[relay[r].cur].attempts
      BY <1>10, <2>1, ShipRow DEF MarkShipped
    <2>4. /\ Moves(r) /\ relay'[r].ph \in {"idle", "ready"}
          /\ relay'[r].batch \subseteq relay[r].batch
          /\ \A e \in relay'[r].batch : relay'[r].att[e] = relay[r].att[e]
      BY <1>10, FinishRelay DEF MarkShipped
    <2>5. \A e \in Events : SameAttempts(e)
      BY <2>3 DEF OnlyRow, SameAttempts
    <2>6. Grows
      BY <2>3, <2>5, GrowsSame
    <2>7. Safe(r)'
      BY <1>s, <2>4, <2>6, SafeMoves
    <2>8. \A e \in Events : row'[e].st \in {"shipped", "deleted"} =>
                              row[e].st \in {"shipped", "deleted"} \/ Closable(e)
      BY <2>2, <2>3 DEF OnlyRow
    <2> QED BY <2>3, <2>4, <2>5, <2>6, <2>7, <2>8, CountedMoves, ClosingByRelay
  <1>11. CASE StatementFails(r) /\ relay[r].ph # "erring"
    <2>1. /\ row' = row /\ delivered' = delivered /\ dead' = dead /\ failed' = failed
          /\ Finish(r)
      BY <1>11 DEF StatementFails
    <2>2. /\ Moves(r) /\ relay'[r].ph \in {"idle", "ready"}
          /\ relay'[r].batch \subseteq relay[r].batch
          /\ \A e \in relay'[r].batch : relay'[r].att[e] = relay[r].att[e]
      BY <2>1, FinishRelay
    <2>3. Grows /\ \A e \in Events : SameAttempts(e)
      BY <2>1, GrowsSame DEF SameAttempts
    <2>4. Safe(r)'
      BY <1>s, <2>2, <2>3, SafeMoves
    <2> QED BY <2>1, <2>2, <2>3, <2>4, CountedMoves, ClosingByRelay
  <1>12. CASE Halt(r)
    <2>1. row' = row /\ delivered' = delivered /\ dead' = dead /\ failed' = failed
      BY <1>12 DEF Halt
    <2>2. Moves(r) /\ relay'[r].ph = "idle" /\ relay'[r].batch = {}
      BY <1>12, IdleFields DEF Halt, Moves, TypeOK
    <2>3. Grows /\ \A e \in Events : SameAttempts(e)
      BY <2>1, GrowsSame DEF SameAttempts
    <2>4. Safe(r)'
      BY <1>s, <2>2, <2>3, SafeMoves
    <2> QED BY <2>1, <2>2, <2>3, <2>4, CountedMoves, ClosingByRelay
  <1> QED BY <1>1, <1>2, <1>3, <1>4, <1>5, <1>6, <1>7, <1>8, <1>9, <1>10, <1>11, <1>12
          DEF RelayStep
\* Each step of a row keeps Closing: only sweep closes one, and that one is shipped.
LEMMA ClosingRowStep ==
  ASSUME TypeOK, TypeOK', Closing, NEW c \in Events, RowStep(c)
  PROVE  Closing'
  <1>1. relay' = relay /\ delivered' = delivered /\ dead' = dead /\ failed' = failed
    BY DEF RowStep, Insert, Sweep, OrphanLapses, LiveLeaseLapses, Lapse, BecomesDue
  <1>2. /\ OnlyRow(c) /\ SameAttempts(c)
        /\ row'[c].st \in {"shipped", "deleted"} => row[c].st \in {"shipped", "deleted"}
    <2>1. CASE Insert(c)
      BY <2>1, StRow DEF Insert
    <2>2. CASE Sweep(c)
      BY <2>2, StRow DEF Sweep
    <2>3. CASE OrphanLapses(c) \/ LiveLeaseLapses(c)
      BY <2>3, LapseRow DEF OrphanLapses, LiveLeaseLapses
    <2>4. CASE BecomesDue(c)
      BY <2>4, DueRow
    <2> QED BY <2>1, <2>2, <2>3, <2>4 DEF RowStep
  <1>3. \A e \in Events : SameAttempts(e)
    BY <1>2 DEF OnlyRow, SameAttempts
  <1>4. \A e \in Events : Closable(e) => Closable(e)'
    BY <1>1 DEF Closable
  <1>5. NothingDropped'
    BY <1>2, <1>4, NothingDroppedFrame DEF Closing, OnlyRow
  <1>6. ASSUME NEW s \in Relayers
        PROVE  Safe(s)'
    <2>1. Safe(s) /\ relay[s].batch \subseteq Events
      BY ClosingParts, RelayFields DEF Closing
    <2> QED BY <1>1, <1>3, <2>1 DEF Safe, Closable, SameAttempts
  <1>7. ~HasDLQ => \A e \in Events : Counted(e)'
    BY <1>1, <1>3, CountedFrame, ClosingParts DEF Closing
  <1> QED BY <1>5, <1>6, <1>7, ClosingPartsNext DEF Closing

\* Nothing is resolved, in hand or counted at the start.
LEMMA InitClosing == Init => Closing
  <1> SUFFICES ASSUME Init
               PROVE  Closing
    OBVIOUS
  <1>1. NothingDropped
    BY DEF Init, NothingDropped, Resolved
  <1>2. \A s \in Relayers : Safe(s)
    BY DEF Init, Safe, Idle
  <1>3. ASSUME NEW e \in Events
        PROVE  Counted(e)
    <2>1. Erring(e) = {}
      BY DEF Init, Erring, Idle
    <2> QED BY <2>1, FS_EmptySet DEF Init, Counted
  <1> QED BY <1>1, <1>2, <1>3, ClosingParts DEF Closing

\* Every step keeps it.
LEMMA ClosingStep == ASSUME TypeOK, Closing, [Next]_vars
                     PROVE  Closing'
  <1>1. CASE UNCHANGED vars
    BY <1>1 DEF vars, Closing, NothingDropped, Resolved, ClosingInv, Closable, Erring
  <1> QED BY <1>1, TypeStep, ClosingRelayStep, ClosingRowStep DEF Next

\* A row is closed only once its event is with the subscribers, in the DLQ, or, where no
\* DLQ is configured, given up after MaxAttempts failed publishes or as undecodable;
\* whatever fails, stops, lapses or overlaps (finishExhausted, handlePoison).
THEOREM Delivered == Spec => []NothingDropped
  <1>1. Init => TypeOK /\ Closing
    BY InitType, InitClosing
  <1>2. TypeOK /\ Closing /\ [Next]_vars => TypeOK' /\ Closing'
    BY TypeStep, ClosingStep
  <1>3. Closing => NothingDropped
    BY DEF Closing
  <1> QED BY <1>1, <1>2, <1>3, PTL DEF Spec
-----------------------------------------------------------------------------
(* Rows in hand, while no lease runs out under a relayer at work *)

\* HandsInv of relayer s, and of it and row e.
Fresh(s)   == relay[s].ph \in {"idle", "claimed"} => relay[s].batch = {}
Hand(s, e) == /\ e \in relay[s].batch => InHand(s, e)
              /\ relay[s].ph = "claimed" /\ row[e].owner = s
                   => row[e].st = "pending" /\ row[e].lease = "held"

\* The invariant of this part.
Hands == OneRelayerPerRow /\ HandsInv

\* HandsInv is Fresh and Hand of everyone.
LEMMA HandsParts ==
  HandsInv <=> \A s \in Relayers : Fresh(s) /\ \A e \in Events : Hand(s, e)
  BY DEF HandsInv, Fresh, Hand

\* The same after a step.
LEMMA HandsPartsNext ==
  HandsInv' <=> \A s \in Relayers : Fresh(s)' /\ \A e \in Events : Hand(s, e)'
  BY DEF HandsInv, Fresh, Hand

\* A row in hand is not deleted or absent; before its publish it is held.
LEMMA InHandRow ==
  ASSUME TypeOK, Hands, NEW r \in Relayers, NEW e \in relay[r].batch
  PROVE  /\ InHand(r, e)
         /\ row[e].st = "pending"
         /\ row[e].owner \in {r, None}
         /\ row[e].lease = "held" \/ row[e].attempts >= MaxAttempts
         /\ e # relay[r].cur \/ relay[r].ph \in {"ready", "erring"} =>
              /\ row[e].lease = "held" /\ row[e].owner = r
              /\ row[e].attempts = relay[r].att[e]
  <1>1. e \in Events
    BY RelayFields
  <1> QED BY <1>1, HandsParts DEF Hands, Hand, InHand

\* Batches only shrink, so no row is shared.
LEMMA OneRelayerFrame ==
  ASSUME OneRelayerPerRow, \A s \in Relayers : relay'[s].batch \subseteq relay[s].batch
  PROVE  OneRelayerPerRow'
  BY DEF OneRelayerPerRow

\* What relayer s sees of row e while another one moves.
LEMMA OtherHand ==
  ASSUME Hands, NEW r \in Relayers, NEW s \in Relayers \ {r}, NEW e \in Events, Moves(r),
         row'[e] = row[e] \/ (e \notin relay[s].batch /\ row'[e].owner # s)
  PROVE  Fresh(s)' /\ Hand(s, e)'
  <1>1. relay'[s] = relay[s]
    BY DEF Moves
  <1>2. Fresh(s) /\ Hand(s, e)
    BY HandsParts DEF Hands
  <1> QED BY <1>1, <1>2 DEF Fresh, Hand, InHand

\* A step of relayer r keeps Hands if it keeps r's own part, and touches only row c.
LEMMA HandsByRelay ==
  ASSUME TypeOK, Hands, NEW r \in Relayers, Moves(r),
         relay'[r].batch \subseteq relay[r].batch,
         \A e \in Events : row'[e] = row[e] \/ (e \in relay[r].batch /\ row'[e].owner = None),
         Fresh(r)', \A e \in Events : Hand(r, e)'
  PROVE  Hands'
  <1>1. OneRelayerPerRow'
    BY OneRelayerFrame DEF Moves, Hands
  <1>2. ASSUME NEW s \in Relayers \ {r}, NEW e \in Events
        PROVE  Fresh(s)' /\ Hand(s, e)'
    <2>1. e \in relay[r].batch => e \notin relay[s].batch
      BY DEF Hands, OneRelayerPerRow
    <2> QED BY <2>1, OtherHand
  <1>3. \A s \in Relayers : Fresh(s)' /\ \A e \in Events : Hand(s, e)'
    <2> SUFFICES ASSUME NEW s \in Relayers
                 PROVE  Fresh(s)' /\ \A e \in Events : Hand(s, e)'
      OBVIOUS
    <2>1. CASE s = r
      BY <2>1
    <2>2. CASE s # r
      <3>1. relay'[s] = relay[s] /\ Fresh(s)
        BY <2>2, HandsParts DEF Moves, Hands
      <3>2. Fresh(s)'
        BY <3>1 DEF Fresh
      <3> QED BY <1>2, <2>2, <3>2
    <2> QED BY <2>1, <2>2
  <1> QED BY <1>1, <1>3, HandsPartsNext DEF Hands

\* Relayer r drops its current row and keeps the others as they are.
LEMMA HandShrinks ==
  ASSUME TypeOK, Hands, NEW r \in Relayers, relay[r].ph \in AtWork,
         relay'[r].ph \in {"idle", "ready"},
         relay'[r].ph = "idle" => relay'[r].batch = {},
         relay'[r].batch = relay[r].batch \ {relay[r].cur},
         \A e \in relay'[r].batch : relay'[r].att[e] = relay[r].att[e],
         \A e \in Events \ {relay[r].cur} : row'[e] = row[e]
  PROVE  Fresh(r)' /\ \A e \in Events : Hand(r, e)'
  <1>1. ASSUME NEW e \in relay'[r].batch
        PROVE  InHand(r, e)'
    <2>1. e \in relay[r].batch /\ e # relay[r].cur /\ row'[e] = row[e]
      BY RelayFields
    <2>2. row[e].st = "pending" /\ row[e].lease = "held" /\ row[e].owner = r
          /\ row[e].attempts = relay[r].att[e]
      BY <2>1, InHandRow
    <2> QED BY <2>1, <2>2 DEF InHand
  <1> QED BY <1>1 DEF Fresh, Hand

\* Relayer r goes on with a row it has, in a phase that keeps what it knows.
LEMMA HandStays ==
  ASSUME TypeOK, Hands, NEW r \in Relayers, row' = row,
         relay'[r].batch = relay[r].batch, relay'[r].att = relay[r].att,
         relay'[r].ph \in AtWork,
         relay[r].ph \in {"ready", "erring"} \/
           (relay'[r].cur = relay[r].cur /\ relay'[r].ph \in {"shipping", "holding"})
  PROVE  Fresh(r)' /\ \A e \in Events : Hand(r, e)'
  <1>1. ASSUME NEW e \in relay'[r].batch
        PROVE  InHand(r, e)'
    <2>1. e \in relay[r].batch
      OBVIOUS
    <2>2. InHand(r, e) /\ (relay[r].ph \in {"ready", "erring"} =>
            row[e].lease = "held" /\ row[e].owner = r /\ row[e].attempts = relay[r].att[e])
      BY <2>1, InHandRow
    <2> QED BY <2>2 DEF InHand
  <1> QED BY <1>1 DEF Fresh, Hand, AtWork
\* A claim takes only rows that nobody has in hand.
LEMMA HandsClaim ==
  ASSUME TypeOK, Hands, NEW r \in Relayers, Claim(r)
  PROVE  Hands'
  <1>1. /\ Moves(r) /\ relay[r].ph = "idle" /\ relay'[r].ph = "claimed"
        /\ relay'[r].batch = relay[r].batch
    BY ClaimRelay DEF Claim
  <1>2. PICK C \in SUBSET Eligible :
          /\ row' \in [Events -> Row]
          /\ \A e \in Events : row'[e].st = row[e].st /\ SameAttempts(e)
          /\ \A e \in C : row'[e].lease = "held" /\ row'[e].owner = r
          /\ \A e \in Events \ C :
               /\ row'[e].lease = row[e].lease
               /\ row'[e].owner = IF row[e].owner = r THEN None ELSE row[e].owner
    BY ClaimRows
  <1>3. \A e \in C : /\ e \in Events /\ row[e].st = "pending" /\ row[e].lease # "held"
                     /\ row[e].attempts < MaxAttempts
    BY DEF Eligible, Pending
  <1>4. relay'[r].batch = {}
    BY <1>1, HandsParts DEF Hands, Fresh
  <1>5. OneRelayerPerRow'
    BY <1>1, OneRelayerFrame DEF Moves, Hands
  <1>6. ASSUME NEW s \in Relayers \ {r}, NEW e \in Events
        PROVE  Fresh(s)' /\ Hand(s, e)'
    <2>1. relay'[s] = relay[s] /\ Fresh(s) /\ Hand(s, e)
      BY <1>1, HandsParts DEF Moves, Hands
    <2>2. CASE e \in C
      <3>1. row[e].attempts \in Nat
        BY RowFields
      <3>2. e \notin relay[s].batch
        BY <1>3, <2>2, <3>1, InHandRow
      <3>3. row'[e].owner # s
        BY <1>2, <2>2
      <3> QED BY <2>1, <3>2, <3>3 DEF Fresh, Hand
    <2>3. CASE e \notin C
      <3>1. /\ row'[e].st = row[e].st /\ row'[e].attempts = row[e].attempts
            /\ row'[e].lease = row[e].lease
            /\ row'[e].owner = IF row[e].owner = r THEN None ELSE row[e].owner
        BY <1>2, <2>3 DEF SameAttempts
      <3>2. InHand(s, e) => InHand(s, e)'
        BY <2>1, <3>1 DEF InHand
      <3> QED BY <2>1, <3>1, <3>2 DEF Fresh, Hand
    <2> QED BY <2>2, <2>3
  <1>7. ASSUME NEW e \in Events
        PROVE  Hand(r, e)'
    <2>1. CASE e \in C
      BY <1>2, <1>3, <1>4, <2>1 DEF Hand
    <2>2. CASE e \notin C
      BY <1>2, <1>4, <2>2 DEF Hand
    <2> QED BY <2>1, <2>2
  <1>8. ASSUME NEW s \in Relayers
        PROVE  Fresh(s)' /\ \A e \in Events : Hand(s, e)'
    <2>1. CASE s = r
      BY <1>1, <1>4, <1>7, <2>1 DEF Fresh
    <2>2. CASE s # r
      <3>1. relay'[s] = relay[s] /\ Fresh(s)
        BY <1>1, <2>2, HandsParts DEF Moves, Hands
      <3>2. Fresh(s)'
        BY <3>1 DEF Fresh
      <3> QED BY <1>6, <2>2, <3>2
    <2> QED BY <2>1, <2>2
  <1> QED BY <1>5, <1>8, HandsPartsNext DEF Hands

\* The SELECT takes in hand the rows that the claim named.
LEMMA HandsFetch ==
  ASSUME TypeOK, Hands, NEW r \in Relayers, Fetch(r)
  PROVE  Hands'
  <1>1. /\ Moves(r) /\ relay[r].ph = "claimed" /\ relay'[r].ph \in {"idle", "ready"}
        /\ relay'[r].ph = "idle" => relay'[r].batch = {}
        /\ relay'[r].batch = {e \in Pending : row[e].owner = r}
        /\ \A e \in relay'[r].batch : relay'[r].att[e] = row[e].attempts
        /\ row' = row
    BY FetchRelay DEF Fetch
  <1>2. \A e \in relay'[r].batch : /\ e \in Events /\ row[e].st = "pending"
                                  /\ row[e].owner = r /\ row[e].lease = "held"
    BY <1>1, HandsParts DEF Hands, Hand, Pending
  <1>3. \A s \in Relayers \ {r} : relay'[s] = relay[s]
    BY <1>1 DEF Moves
  <1>4. ASSUME NEW s \in Relayers \ {r}, NEW e \in relay[s].batch
        PROVE  e \notin relay'[r].batch
    <2>1. row[e].owner \in {s, None}
      BY InHandRow
    <2> QED BY <1>2, <2>1
  <1>5. OneRelayerPerRow'
    BY <1>3, <1>4 DEF Hands, OneRelayerPerRow
  <1>6. Fresh(r)' /\ \A e \in Events : Hand(r, e)'
    BY <1>1, <1>2 DEF Fresh, Hand, InHand
  <1>7. \A s \in Relayers \ {r} : Fresh(s)' /\ \A e \in Events : Hand(s, e)'
    BY <1>1, <1>3, HandsParts DEF Hands, Fresh, Hand, InHand
  <1> QED BY <1>5, <1>6, <1>7, HandsPartsNext DEF Hands

\* Each other step of a relayer keeps or drops what it has in hand.
LEMMA HandsRelayStep ==
  ASSUME TypeOK, Hands, NEW r \in Relayers, RelayStep(r)
  PROVE  Hands'
  <1>1. CASE Claim(r)
    BY <1>1, HandsClaim
  <1>2. CASE Fetch(r)
    BY <1>2, HandsFetch
  <1>3. ASSUME NEW e \in Events, Deliver(r, e) \/ Refused(r, e) \/ Undecoded(r, e)
        PROVE  Hands'
    <2>1. PICK p \in {"shipping", "erring", "deadletter"} : At(r, e, p)
      BY <1>3 DEF Deliver, Refused, Undecoded
    <2>2. row' = row /\ relay[r].ph = "ready"
      BY <1>3 DEF Deliver, Refused, Undecoded
    <2>3. Moves(r) /\ relay'[r].ph = p
          /\ relay'[r].batch = relay[r].batch /\ relay'[r].att = relay[r].att
      BY <2>1, AtRelay DEF Phases
    <2>4. Fresh(r)' /\ \A k \in Events : Hand(r, k)'
      BY <2>2, <2>3, HandStays DEF AtWork
    <2> QED BY <2>2, <2>3, <2>4, HandsByRelay
  <1>4. CASE DeadLetter(r) \/ DeadLetterRefused(r)
    <2>1. PICK p \in {"shipping", "holding"} : At(r, relay[r].cur, p)
      BY <1>4 DEF DeadLetter, DeadLetterRefused
    <2>2. row' = row /\ relay[r].cur \in Events
      BY <1>4, CurrentRow DEF DeadLetter, DeadLetterRefused, AtWork
    <2>3. Moves(r) /\ relay'[r].ph = p /\ relay'[r].cur = relay[r].cur
          /\ relay'[r].batch = relay[r].batch /\ relay'[r].att = relay[r].att
      BY <2>1, <2>2, AtRelay DEF Phases
    <2>4. Fresh(r)' /\ \A k \in Events : Hand(r, k)'
      BY <2>2, <2>3, HandStays DEF AtWork
    <2> QED BY <2>2, <2>3, <2>4, HandsByRelay
  <1>5. CASE MarkError(r)
    <2>1. PICK c \in Events : c = relay[r].cur /\ c \in relay[r].batch
      BY <1>5, CurrentRow DEF MarkError, AtWork
    <2>2. relay[r].ph = "erring" /\ AfterError(r)
      BY <1>5 DEF MarkError
    <2>3. /\ row[c].st = "pending" /\ row[c].attempts = relay[r].att[c]
          /\ row[c].attempts \in Nat /\ row[c].attempts + 1 \in Nat
      BY <2>1, <2>2, InHandRow, RowFields
    <2>4. /\ OnlyRow(c) /\ row'[c].st = "pending" /\ row'[c].attempts = row[c].attempts + 1
          /\ row'[c].lease = "none" /\ row'[c].owner = None
      BY <1>5, <2>1, <2>3, RetryRow DEF MarkError
    <2>5. \A e \in Events \ {c} : row'[e] = row[e]
      BY <2>4 DEF OnlyRow
    <2>6. CASE relay[r].att[c] + 1 >= MaxAttempts
      <3>1. At(r, c, "deadletter")
        BY <2>1, <2>2, <2>6 DEF AfterError
      <3>2. Moves(r) /\ relay'[r].ph = "deadletter" /\ relay'[r].cur = c
            /\ relay'[r].batch = relay[r].batch /\ relay'[r].att = relay[r].att
        BY <3>1, AtRelay DEF Phases
      <3>3. InHand(r, c)'
        BY <2>3, <2>4, <2>6, <3>2 DEF InHand
      <3>4. ASSUME NEW e \in relay[r].batch \ {c}
            PROVE  InHand(r, e)'
        <4>1. row[e].st = "pending" /\ row[e].lease = "held" /\ row[e].owner = r
              /\ row[e].attempts = relay[r].att[e] /\ row'[e] = row[e]
          BY <2>1, <2>5, InHandRow, RelayFields
        <4> QED BY <3>2, <4>1 DEF InHand
      <3>5. Fresh(r)' /\ \A e \in Events : Hand(r, e)'
        BY <3>2, <3>3, <3>4 DEF Fresh, Hand
      <3> QED BY <2>1, <2>4, <2>5, <3>2, <3>5, HandsByRelay
    <2>7. CASE ~(relay[r].att[c] + 1 >= MaxAttempts)
      <3>1. Finish(r)
        BY <2>1, <2>2, <2>7 DEF AfterError
      <3>2. /\ Moves(r) /\ relay'[r].ph \in {"idle", "ready"}
            /\ relay'[r].ph = "idle" => relay'[r].batch = {}
            /\ relay'[r].batch = relay[r].batch \ {relay[r].cur}
            /\ \A e \in relay'[r].batch : relay'[r].att[e] = relay[r].att[e]
        BY <3>1, FinishRelay
      <3>3. Fresh(r)' /\ \A e \in Events : Hand(r, e)'
        BY <2>1, <2>2, <2>5, <3>2, HandShrinks DEF AtWork
      <3> QED BY <2>1, <2>4, <2>5, <3>2, <3>3, HandsByRelay
    <2> QED BY <2>6, <2>7
  <1>6. CASE Hold(r) \/ MarkShipped(r)
    <2>1. PICK c \in Events : c = relay[r].cur /\ c \in relay[r].batch
      BY <1>6, CurrentRow DEF Hold, MarkShipped, AtWork
    <2>2. relay[r].ph \in AtWork /\ Finish(r) /\ MaxAttempts - 1 \in Nat
      BY <1>6 DEF Hold, MarkShipped, AtWork
    <2>3. row[c].st = "pending"
      BY <2>1, InHandRow
    <2>4. OnlyRow(c) /\ row'[c].owner = None
      <3>1. CASE Hold(r)
        BY <2>1, <2>2, <2>3, <3>1, RetryRow DEF Hold
      <3>2. CASE MarkShipped(r)
        BY <2>1, <2>3, <3>2, ShipRow DEF MarkShipped
      <3> QED BY <1>6, <3>1, <3>2
    <2>5. \A e \in Events \ {c} : row'[e] = row[e]
      BY <2>4 DEF OnlyRow
    <2>6. /\ Moves(r) /\ relay'[r].ph \in {"idle", "ready"}
          /\ relay'[r].ph = "idle" => relay'[r].batch = {}
          /\ relay'[r].batch = relay[r].batch \ {relay[r].cur}
          /\ \A e \in relay'[r].batch : relay'[r].att[e] = relay[r].att[e]
      BY <2>2, FinishRelay
    <2>7. Fresh(r)' /\ \A e \in Events : Hand(r, e)'
      BY <2>1, <2>2, <2>5, <2>6, HandShrinks
    <2> QED BY <2>1, <2>4, <2>5, <2>6, <2>7, HandsByRelay
  <1>7. CASE StatementFails(r)
    <2>1. row' = row /\ relay[r].ph \in AtWork
      BY <1>7 DEF StatementFails, AtWork
    <2>2. CASE Finish(r)
      <3>1. /\ Moves(r) /\ relay'[r].ph \in {"idle", "ready"}
            /\ relay'[r].ph = "idle" => relay'[r].batch = {}
            /\ relay'[r].batch = relay[r].batch \ {relay[r].cur}
            /\ \A e \in relay'[r].batch : relay'[r].att[e] = relay[r].att[e]
        BY <2>2, FinishRelay
      <3>2. Fresh(r)' /\ \A e \in Events : Hand(r, e)'
        BY <2>1, <3>1, HandShrinks
      <3> QED BY <2>1, <3>1, <3>2, HandsByRelay
    <2>3. CASE relay[r].ph = "erring" /\ At(r, relay[r].cur, "deadletter")
      <3>1. relay[r].cur \in Events
        BY <2>1, CurrentRow
      <3>2. Moves(r) /\ relay'[r].ph = "deadletter"
            /\ relay'[r].batch = relay[r].batch /\ relay'[r].att = relay[r].att
        BY <2>3, <3>1, AtRelay DEF Phases
      <3>3. Fresh(r)' /\ \A e \in Events : Hand(r, e)'
        BY <2>1, <2>3, <3>2, HandStays DEF AtWork
      <3> QED BY <2>1, <3>2, <3>3, HandsByRelay
    <2> QED BY <1>7, <2>2, <2>3 DEF StatementFails, AfterError
  <1>8. CASE Halt(r)
    <2>1. row' = row /\ Moves(r) /\ relay'[r].ph = "idle" /\ relay'[r].batch = {}
      BY <1>8, IdleFields DEF Halt, Moves, TypeOK
    <2>2. Fresh(r)' /\ \A e \in Events : Hand(r, e)'
      BY <2>1 DEF Fresh, Hand
    <2> QED BY <2>1, <2>2, HandsByRelay
  <1> QED BY <1>1, <1>2, <1>3, <1>4, <1>5, <1>6, <1>7, <1>8 DEF RelayStep

\* A row that is inserted, swept or left behind is in no hand.
LEMMA HandsRowStep ==
  ASSUME TypeOK, Hands, lapses' = 0, NEW c \in Events, RowStep(c)
  PROVE  Hands'
  <1>1. relay' = relay
    BY DEF RowStep, Insert, Sweep, OrphanLapses, LiveLeaseLapses, Lapse, BecomesDue
  <1>2. OneRelayerPerRow'
    BY <1>1 DEF Hands, OneRelayerPerRow
  <1>3. OnlyRow(c) /\ row'[c].owner = row[c].owner
    BY StRow, LapseRow, DueRow
       DEF RowStep, Insert, Sweep, OrphanLapses, LiveLeaseLapses, SameLease
  <1>4. ASSUME NEW s \in Relayers
        PROVE  Hand(s, c)'
    <2>1. Hand(s, c) /\ (c \in relay[s].batch => row[c].st = "pending")
      BY HandsParts, InHandRow DEF Hands
    <2>2. CASE BecomesDue(c)
      BY <1>1, <2>1, <2>2, DueRow DEF Hand, InHand, SameLease, SameAttempts
    <2>3. CASE Insert(c) \/ Sweep(c) \/ OrphanLapses(c)
      <3>1. c \notin relay[s].batch /\ ~(relay[s].ph = "claimed" /\ row[c].owner = s)
        BY <2>1, <2>3 DEF Hand, Insert, Sweep, OrphanLapses, Working
      <3> QED BY <1>1, <1>3, <3>1 DEF Hand
    <2>4. ~LiveLeaseLapses(c)
      BY DEF LiveLeaseLapses, TypeOK
    <2> QED BY <2>2, <2>3, <2>4 DEF RowStep
  <1>5. \A s \in Relayers : Fresh(s)' /\ \A e \in Events : Hand(s, e)'
    BY <1>1, <1>3, <1>4, HandsParts DEF Hands, Fresh, Hand, InHand, OnlyRow
  <1> QED BY <1>2, <1>5, HandsPartsNext DEF Hands
\* Nobody has anything in hand at the start.
LEMMA InitHands == Init => Hands
  BY DEF Init, Hands, OneRelayerPerRow, HandsInv, Idle

\* Every step keeps it.
LEMMA HandsStep == ASSUME TypeOK, Hands, lapses' = 0, [Next]_vars
                   PROVE  Hands'
  <1>1. CASE UNCHANGED vars
    BY <1>1 DEF vars, Hands, OneRelayerPerRow, HandsInv, InHand
  <1> QED BY <1>1, HandsRelayStep, HandsRowStep DEF Next

-----------------------------------------------------------------------------
(* Order *)

\* No older event of k's aggregate is pending.
Eldest(k) == /\ row[k].st # "absent"
             /\ OrderedByKey => \A e \in Pending : ~Before(e, k)

\* Nothing is inserted, and what is newly touched is the eldest of its aggregate.
LEMMA OrderFrame ==
  ASSUME OrderInv,
         \A e \in Events : row'[e].st = row[e].st \/
                            (row[e].st # "absent" /\ row'[e].st \in {"shipped", "deleted"}),
         \A k \in Events : Touched(k)' => Touched(k) \/ Eldest(k)
  PROVE  OrderInv'
  <1>1. Pending' \subseteq Pending
    BY DEF Pending
  <1>2. ASSUME NEW k \in Events, Touched(k)'
        PROVE  row'[k].st # "absent" /\ (OrderedByKey => \A e \in Pending' : ~Before(e, k))
    <2>1. Eldest(k)
      BY <1>2 DEF OrderInv, Eldest
    <2> QED BY <1>1, <2>1 DEF Eldest
  <1> QED BY <1>2 DEF OrderInv, Before, SameKey

\* Leases, deliveries and batches are only dropped.
LEMMA TouchedFrame ==
  ASSUME \A e \in Events : row'[e].lease # "none" => row[e].lease # "none",
         delivered' = delivered,
         \A s \in Relayers : relay'[s].batch \subseteq relay[s].batch
  PROVE  \A k \in Events : Touched(k)' => Touched(k)
  BY DEF Touched

\* Each step of a relayer keeps the order.
LEMMA OrderRelayStep ==
  ASSUME TypeOK, Hands, OrderInv, NEW r \in Relayers, RelayStep(r)
  PROVE  OrderInv'
  <1>1. CASE Claim(r)
    <2>1. PICK C \in SUBSET Eligible :
            /\ \A e \in Events : row'[e].st = row[e].st
            /\ \A e \in Events \ C : row'[e].lease = row[e].lease
      BY <1>1, ClaimRows
    <2>2. /\ \A s \in Relayers : relay'[s].batch = relay[s].batch
          /\ delivered' = delivered
      BY <1>1, ClaimRelay DEF Claim, Moves
    <2>3. \A k \in C : Eldest(k)
      BY DEF Eligible, Pending, OrderGuard, Eldest
    <2>4. \A k \in Events \ C : Touched(k)' => Touched(k)
      BY <2>1, <2>2 DEF Touched
    <2> QED BY <2>1, <2>3, <2>4, OrderFrame
  <1>2. CASE Fetch(r)
    <2>1. /\ Moves(r) /\ relay[r].ph = "claimed"
          /\ relay'[r].batch = {e \in Pending : row[e].owner = r}
          /\ row' = row /\ delivered' = delivered
      BY <1>2, FetchRelay DEF Fetch
    <2>2. \A e \in relay'[r].batch : row[e].lease = "held"
      BY <2>1, HandsParts DEF Hands, Hand, Pending
    <2>3. \A k \in Events : Touched(k)' => Touched(k)
      BY <2>1, <2>2 DEF Touched, Moves
    <2> QED BY <2>1, <2>3, OrderFrame
  <1>3. ASSUME NEW e \in Events, Deliver(r, e) \/ Refused(r, e) \/ Undecoded(r, e)
        PROVE  OrderInv'
    <2>1. /\ row' = row /\ e \in relay[r].batch /\ delivered' \subseteq delivered \cup {e}
          /\ \A s \in Relayers : relay'[s].batch = relay[s].batch
      BY <1>3, AtRelay DEF Deliver, Refused, Undecoded, Phases, Moves
    <2>2. \A k \in Events : Touched(k)' => Touched(k)
      BY <2>1 DEF Touched
    <2> QED BY <2>1, <2>2, OrderFrame
  <1>4. CASE DeadLetter(r) \/ DeadLetterRefused(r)
    <2>1. relay[r].cur \in Events
      BY <1>4, CurrentRow DEF DeadLetter, DeadLetterRefused, AtWork
    <2>2. /\ row' = row /\ delivered' = delivered
          /\ \A s \in Relayers : relay'[s].batch = relay[s].batch
      BY <1>4, <2>1, AtRelay DEF DeadLetter, DeadLetterRefused, Phases, Moves
    <2> QED BY <2>2, TouchedFrame, OrderFrame
  <1>5. CASE MarkError(r)
    <2>1. relay[r].ph = "erring" /\ AfterError(r) /\ delivered' = delivered
      BY <1>5 DEF MarkError
    <2>2. PICK c \in Events : c = relay[r].cur /\ row[c].attempts + 1 \in Nat
      BY <2>1, CurrentRow, RowFields DEF AtWork
    <2>3. \A s \in Relayers : relay'[s].batch \subseteq relay[s].batch
      BY <2>1, AfterErrorRelay DEF Moves
    <2>4. /\ OnlyRow(c) /\ row'[c].st = row[c].st
          /\ row' = row \/ row'[c].lease = "none"
      BY <1>5, <2>2, RetryRow DEF MarkError
    <2> QED BY <2>1, <2>3, <2>4, TouchedFrame, OrderFrame DEF OnlyRow
  <1>6. CASE Hold(r) \/ MarkShipped(r)
    <2>1. /\ Finish(r) /\ delivered' = delivered /\ relay[r].ph \in AtWork
          /\ MaxAttempts - 1 \in Nat
      BY <1>6 DEF Hold, MarkShipped, AtWork
    <2>2. PICK c \in Events : c = relay[r].cur /\ c \in relay[r].batch
      BY <2>1, CurrentRow
    <2>3. \A s \in Relayers : relay'[s].batch \subseteq relay[s].batch
      BY <2>1, FinishRelay DEF Moves
    <2>4. row[c].st = "pending"
      BY <2>2, InHandRow
    <2>5. /\ OnlyRow(c) /\ row'[c].st \in {"pending", "shipped", "deleted"}
          /\ row'[c].lease = "none"
      <3>1. CASE Hold(r)
        BY <2>1, <2>2, <2>4, <3>1, RetryRow DEF Hold
      <3>2. CASE MarkShipped(r)
        BY <2>2, <2>4, <3>2, ShipRow DEF MarkShipped
      <3> QED BY <1>6, <3>1, <3>2
    <2> QED BY <2>1, <2>3, <2>4, <2>5, TouchedFrame, OrderFrame DEF OnlyRow
  <1>7. CASE StatementFails(r) \/ Halt(r)
    <2>1. row' = row /\ delivered' = delivered
      BY <1>7 DEF StatementFails, Halt
    <2>2. Moves(r) /\ relay'[r].batch \subseteq relay[r].batch
      BY <1>7, AfterErrorRelay, FinishRelay, IdleFields
         DEF StatementFails, Halt, Moves, TypeOK
    <2> QED BY <2>1, <2>2, TouchedFrame, OrderFrame DEF Moves
  <1> QED BY <1>1, <1>2, <1>3, <1>4, <1>5, <1>6, <1>7 DEF RelayStep

\* Each step of a row keeps the order: an insert comes before its newer events.
LEMMA OrderRowStep ==
  ASSUME TypeOK, OrderInv, NEW c \in Events, RowStep(c)
  PROVE  OrderInv'
  <1>1. relay' = relay /\ delivered' = delivered
    BY DEF RowStep, Insert, Sweep, OrphanLapses, LiveLeaseLapses, Lapse, BecomesDue
  <1>2. CASE Insert(c)
    <2>1. OnlyRow(c) /\ row'[c].st = "pending" /\ SameLease(c)
      BY <1>2, StRow DEF Insert
    <2>2. \A k \in Events : Touched(k)' => Touched(k)
      BY <1>1, <2>1, TouchedFrame DEF OnlyRow, SameLease
    <2>3. Pending' \subseteq Pending \cup {c}
      BY <2>1 DEF Pending, OnlyRow
    <2>4. \A k \in Events : row[k].st # "absent" => row'[k].st # "absent" /\ ~Before(c, k)
      BY <1>2, <2>1 DEF Insert, OnlyRow
    <2> QED BY <2>2, <2>3, <2>4 DEF OrderInv, Before, SameKey
  <1>3. CASE ~Insert(c)
    <2>1. /\ OnlyRow(c)
          /\ row'[c].st = row[c].st \/ (row[c].st # "absent" /\ row'[c].st = "deleted")
          /\ row'[c].lease # "none" => row[c].lease # "none"
      BY <1>3, StRow, LapseRow, DueRow
         DEF RowStep, Sweep, OrphanLapses, LiveLeaseLapses, SameLease
    <2>2. \A k \in Events : Touched(k)' => Touched(k)
      BY <1>1, <2>1, TouchedFrame DEF OnlyRow
    <2> QED BY <2>1, <2>2, OrderFrame DEF OnlyRow
  <1> QED BY <1>2, <1>3

\* Nothing is touched at the start.
LEMMA InitOrder == Init => OrderInv
  BY DEF Init, OrderInv, Touched, Idle

\* Every step keeps it.
LEMMA OrderStep == ASSUME TypeOK, Hands, OrderInv, [Next]_vars
                   PROVE  OrderInv'
  <1>1. CASE UNCHANGED vars
    BY <1>1 DEF vars, OrderInv, Touched, Pending, Before, SameKey
  <1> QED BY <1>1, OrderRelayStep, OrderRowStep DEF Next

-----------------------------------------------------------------------------
(* Rows at the cap *)

\* Relayer r is still to give e up, ship it or wind it back.
Holds(r, e) == relay[r].cur = e /\ relay[r].ph \in {"deadletter", "holding", "shipping"}

\* Nothing has failed so far that could strand a row.
Calm == halts = 0 /\ lost = 0 /\ lapses = 0

\* Faults are not undone.
LEMMA CalmBefore == ASSUME TypeOK, [Next]_vars
                    PROVE  /\ lapses' = 0 => lapses = 0
                           /\ Calm' => Calm /\ \A r \in Relayers : ~Halt(r) /\ ~StatementFails(r)
  <1> USE DEF TypeOK, Calm, faultVars
  <1>1. CASE UNCHANGED vars
    BY <1>1 DEF vars, Halt, StatementFails
  <1>2. ASSUME NEW r \in Relayers, RelayStep(r)
        PROVE  lapses' = lapses /\ (Calm' => Calm)
    <2>1. CASE StatementFails(r) \/ Halt(r)
      BY <2>1 DEF StatementFails, Halt
    <2>2. CASE ~StatementFails(r) /\ ~Halt(r)
      <3>1. halts' = halts /\ lost' = lost /\ lapses' = lapses
        BY <1>2, <2>2 DEF RelayStep, Claim, Fetch, Deliver, Refused, Undecoded, MarkError,
                          DeadLetter, DeadLetterRefused, Hold, MarkShipped
      <3> QED BY <3>1
    <2> QED BY <2>1, <2>2
  <1>3. ASSUME NEW e \in Events, RowStep(e)
        PROVE  (lapses' = 0 => lapses = 0) /\ (Calm' => Calm)
    BY <1>3 DEF RowStep, Insert, Sweep, OrphanLapses, LiveLeaseLapses, BecomesDue, Lapse
  <1>4. (lapses' = 0 => lapses = 0) /\ (Calm' => Calm)
    BY <1>1, <1>2, <1>3 DEF Next, vars
  <1>5. ASSUME NEW r \in Relayers, Halt(r) \/ StatementFails(r)
        PROVE  ~Calm'
    BY <1>5 DEF Halt, StatementFails
  <1> QED BY <1>4, <1>5

\* A relayer that holds e lets go of it only with a statement about it.
LEMMA HoldsOn ==
  ASSUME TypeOK, Calm', [Next]_vars, NEW r \in Relayers, NEW e \in Events, Holds(r, e)
  PROVE  Holds(r, e)' \/ Hold(r) \/ MarkShipped(r)
  <1>1. CASE relay' = relay
    BY <1>1 DEF Holds
  <1>2. ASSUME NEW s \in Relayers, RelayStep(s)
        PROVE  Holds(r, e)' \/ Hold(r) \/ MarkShipped(r)
    <2>1. CASE s # r
      <3>1. relay'[r] = relay[r]
        BY <1>2, <2>1
           DEF RelayStep, Claim, Fetch, Deliver, Refused, Undecoded, MarkError, DeadLetter,
               DeadLetterRefused, Hold, MarkShipped, StatementFails, Halt, AfterError, At,
               Finish, TypeOK
      <3> QED BY <3>1 DEF Holds
    <2>2. CASE s = r
      <3>1. \/ DeadLetter(r) \/ DeadLetterRefused(r) \/ Hold(r) \/ MarkShipped(r)
        BY <1>2, <2>2, CalmBefore
           DEF RelayStep, Claim, Fetch, Deliver, Refused, Undecoded, MarkError, Holds
      <3>2. ASSUME DeadLetter(r) \/ DeadLetterRefused(r)
            PROVE  Holds(r, e)'
        <4>1. PICK p \in {"shipping", "holding"} : At(r, e, p)
          BY <3>2 DEF DeadLetter, DeadLetterRefused, Holds
        <4> QED BY <4>1, AtRelay DEF Holds, Phases
      <3> QED BY <3>1, <3>2
    <2> QED BY <2>1, <2>2
  <1>3. ASSUME NEW c \in Events, RowStep(c)
        PROVE  relay' = relay
    BY <1>3 DEF RowStep, Insert, Sweep, OrphanLapses, LiveLeaseLapses, BecomesDue, Lapse
  <1> QED BY <1>1, <1>2, <1>3 DEF Next, vars

\* The attempts of a row that a step leaves pending: as they were, or those of an insert,
\* of a failed publish that goes on to the dead letter, or wound back.
LEMMA AtCap ==
  ASSUME TypeOK, AbsentInv, Hands, [Next]_vars, NEW e \in Events,
         row'[e].st = "pending", row'[e].attempts >= MaxAttempts
  PROVE  \/ /\ row[e].st = "pending" /\ row[e].attempts >= MaxAttempts
            /\ \A r \in Relayers : relay[r].cur = e => ~Hold(r) /\ ~MarkShipped(r)
         \/ \E r \in Relayers : Holds(r, e)'
  <1> DEFINE Same == /\ row[e].st = "pending" /\ row[e].attempts >= MaxAttempts
                     /\ \A r \in Relayers : relay[r].cur = e => ~Hold(r) /\ ~MarkShipped(r)
  <1>a. ASSUME NEW r \in Relayers, relay[r].cur = e, Hold(r) \/ MarkShipped(r)
        PROVE  FALSE
    <2>1. MaxAttempts - 1 \in Nat /\ ~(MaxAttempts - 1 >= MaxAttempts)
      OBVIOUS
    <2>2. row[e].st = "pending"
      BY <1>a, CurrentRow, InHandRow DEF Hold, MarkShipped, AtWork
    <2>3. CASE Hold(r)
      BY <1>a, <2>1, <2>2, <2>3, RetryRow DEF Hold
    <2>4. CASE MarkShipped(r)
      BY <1>a, <2>4, ShipRow DEF MarkShipped
    <2> QED BY <1>a, <2>3, <2>4
  <1>1. CASE row'[e].st = row[e].st /\ row'[e].attempts = row[e].attempts
    BY <1>1, <1>a
  <1>2. ASSUME NEW c \in Events, RowStep(c)
        PROVE  row'[e].st = row[e].st /\ row'[e].attempts = row[e].attempts
    <2>1. CASE c = e /\ Insert(e)
      <3>1. row[e].attempts = 0 /\ row'[e].attempts = row[e].attempts
        BY <2>1, StRow DEF AbsentInv, Insert, SameAttempts
      <3> QED BY <3>1
    <2>2. CASE c = e /\ ~Insert(e)
      BY <1>2, <2>2, StRow, LapseRow, DueRow
         DEF RowStep, Sweep, OrphanLapses, LiveLeaseLapses, SameAttempts
    <2>3. CASE c # e
      BY <1>2, <2>3, StRow, LapseRow, DueRow
         DEF RowStep, Insert, Sweep, OrphanLapses, LiveLeaseLapses, OnlyRow
    <2> QED BY <2>1, <2>2, <2>3
  <1>3. ASSUME NEW r \in Relayers, MarkError(r)
        PROVE  Same \/ \E s \in Relayers : Holds(s, e)'
    <2>1. PICK c \in Events : c = relay[r].cur /\ c \in relay[r].batch
      BY <1>3, CurrentRow DEF MarkError, AtWork
    <2>2. /\ row[c].st = "pending" /\ row[c].attempts = relay[r].att[c]
          /\ row[c].attempts + 1 \in Nat
      BY <1>3, <2>1, InHandRow, RowFields DEF MarkError
    <2>3. OnlyRow(c) /\ row'[c].attempts = row[c].attempts + 1
      BY <1>3, <2>1, <2>2, RetryRow DEF MarkError
    <2>4. CASE c = e
      <3>1. At(r, e, "deadletter")
        BY <1>3, <2>1, <2>2, <2>3, <2>4 DEF MarkError, AfterError
      <3> QED BY <3>1, AtRelay DEF Holds, Phases
    <2>5. CASE c # e
      <3>1. row'[e].st = row[e].st /\ row'[e].attempts = row[e].attempts
        BY <2>3, <2>5 DEF OnlyRow
      <3> QED BY <3>1, <1>1
    <2> QED BY <2>4, <2>5
  <1>4. ASSUME NEW r \in Relayers, Hold(r) \/ MarkShipped(r)
        PROVE  row'[e].st = row[e].st /\ row'[e].attempts = row[e].attempts
    <2>1. PICK c \in Events : c = relay[r].cur
      BY <1>4, CurrentRow DEF Hold, MarkShipped, AtWork
    <2>2. c # e /\ MaxAttempts - 1 \in Nat
      BY <1>4, <1>a, <2>1
    <2>3. OnlyRow(c)
      BY <1>4, <2>1, <2>2, RetryRow, ShipRow DEF Hold, MarkShipped
    <2> QED BY <2>2, <2>3 DEF OnlyRow
  <1>5. ASSUME NEW r \in Relayers, RelayStep(r), ~MarkError(r), ~Hold(r), ~MarkShipped(r)
        PROVE  row'[e].st = row[e].st /\ row'[e].attempts = row[e].attempts
    <2>1. CASE Claim(r)
      BY <2>1, ClaimRows DEF SameAttempts
    <2> QED BY <1>5, <2>1 DEF RelayStep, Fetch, Deliver, Refused, Undecoded, DeadLetter,
                              DeadLetterRefused, StatementFails, Halt
  <1>6. CASE UNCHANGED vars
    BY <1>1, <1>6 DEF vars
  <1> HIDE DEF Same
  <1> QED BY <1>1, <1>2, <1>3, <1>4, <1>5, <1>6 DEF Next, Same

\* While nothing strands one, every exhausted row is with a relayer.
LEMMA HeldStep ==
  ASSUME TypeOK, AbsentInv, lapses = 0 => Hands, HeldStaysClaimable, [Next]_vars
  PROVE  HeldStaysClaimable'
  <1> SUFFICES ASSUME Calm', NEW e \in Events, Stranded(e)'
               PROVE  FALSE
    BY DEF HeldStaysClaimable, NoneStranded, Calm
  <1>1. Calm /\ NoneStranded
    BY CalmBefore DEF HeldStaysClaimable, Calm
  <1>2. Hands
    BY <1>1 DEF Calm
  <1>3. /\ row'[e].st = "pending" /\ row'[e].attempts >= MaxAttempts
        /\ \A r \in Relayers : ~Holds(r, e)'
    BY DEF Stranded, Pending, Holds
  <1>4. /\ row[e].st = "pending" /\ row[e].attempts >= MaxAttempts
        /\ \A r \in Relayers : relay[r].cur = e => ~Hold(r) /\ ~MarkShipped(r)
    BY <1>2, <1>3, AtCap
  <1>5. PICK r \in Relayers : Holds(r, e)
    BY <1>1, <1>4 DEF NoneStranded, Stranded, Pending, Holds
  <1>6. Holds(r, e)' \/ Hold(r) \/ MarkShipped(r)
    BY <1>5, HoldsOn
  <1> QED BY <1>3, <1>4, <1>5, <1>6 DEF Holds

\* Where a step of relayer r leaves its batch and the rows that are not in it.
LEMMA RelayReach ==
  ASSUME TypeOK, NEW r \in Relayers, RelayStep(r)
  PROVE  /\ Moves(r)
         /\ \A e \in relay'[r].batch : e \in relay[r].batch \/ row[e].st = "pending"
         /\ \A e \in Events : row'[e].st = row[e].st \/ e \in relay[r].batch
         /\ \A e \in Events \ relay[r].batch : SameAttempts(e)
  <1>1. CASE Claim(r)
    <2>1. Moves(r) /\ relay'[r].batch = relay[r].batch
      BY <1>1, ClaimRelay DEF Claim
    <2>2. \A e \in Events : row'[e].st = row[e].st /\ SameAttempts(e)
      BY <1>1, ClaimRows
    <2> QED BY <2>1, <2>2
  <1>2. CASE Fetch(r)
    <2>1. row' = row
      BY <1>2 DEF Fetch
    <2> QED BY <1>2, <2>1, FetchRelay DEF Pending, SameAttempts
  <1>3. ASSUME NEW e \in Events, Deliver(r, e) \/ Refused(r, e) \/ Undecoded(r, e)
        PROVE  row' = row /\ Moves(r) /\ relay'[r].batch = relay[r].batch
    BY <1>3, AtRelay DEF Deliver, Refused, Undecoded, Phases
  <1>4. ASSUME DeadLetter(r) \/ DeadLetterRefused(r)
        PROVE  row' = row /\ Moves(r) /\ relay'[r].batch = relay[r].batch
    <2>1. relay[r].cur \in Events
      BY <1>4, CurrentRow DEF DeadLetter, DeadLetterRefused, AtWork
    <2> QED BY <1>4, <2>1, AtRelay DEF DeadLetter, DeadLetterRefused, Phases
  <1>5. CASE MarkError(r) \/ Hold(r) \/ MarkShipped(r)
    <2>1. /\ relay[r].ph \in AtWork
          /\ Finish(r) \/ (relay[r].ph = "erring" /\ AfterError(r))
          /\ MaxAttempts - 1 \in Nat
      BY <1>5 DEF MarkError, Hold, MarkShipped, AtWork
    <2>2. PICK c \in Events : c = relay[r].cur /\ c \in relay[r].batch
      BY <2>1, CurrentRow
    <2>a. row[c].attempts + 1 \in Nat
      BY RowFields
    <2>3. OnlyRow(c)
      BY <1>5, <2>1, <2>2, <2>a, RetryRow, ShipRow DEF MarkError, Hold, MarkShipped
    <2>4. Moves(r) /\ relay'[r].batch \subseteq relay[r].batch
      BY <2>1, AfterErrorRelay, FinishRelay
    <2> QED BY <2>2, <2>3, <2>4 DEF OnlyRow, SameAttempts
  <1>6. ASSUME StatementFails(r) \/ Halt(r)
        PROVE  row' = row /\ Moves(r) /\ relay'[r].batch \subseteq relay[r].batch
    BY <1>6, AfterErrorRelay, FinishRelay, IdleFields DEF StatementFails, Halt, Moves, TypeOK
  <1> QED BY <1>1, <1>2, <1>3, <1>4, <1>5, <1>6 DEF RelayStep, SameAttempts

\* A relayer only ships rows.
LEMMA StKept ==
  ASSUME TypeOK, NEW r \in Relayers, RelayStep(r), NEW e \in Events
  PROVE  row'[e].st \in {row[e].st, "shipped", "deleted"}
  <1>1. CASE Claim(r)
    BY <1>1, ClaimRows
  <1>2. CASE MarkError(r) \/ Hold(r) \/ MarkShipped(r)
    <2>1. relay[r].ph \in AtWork /\ MaxAttempts - 1 \in Nat
      BY <1>2 DEF MarkError, Hold, MarkShipped, AtWork
    <2>2. PICK c \in Events : c = relay[r].cur /\ row[c].attempts + 1 \in Nat
      BY <2>1, CurrentRow, RowFields
    <2>3. OnlyRow(c) /\ row'[c].st \in {row[c].st, "shipped", "deleted"}
      BY <1>2, <2>1, <2>2, RetryRow, ShipRow DEF MarkError, Hold, MarkShipped
    <2> QED BY <2>3 DEF OnlyRow
  <1> QED BY <1>1, <1>2 DEF RelayStep, Fetch, Deliver, Refused, Undecoded, DeadLetter,
                            DeadLetterRefused, StatementFails, Halt

\* Only insert leaves "absent", and nothing returns to it or counts before.
LEMMA AbsentStep ==
  ASSUME TypeOK, AbsentInv, [Next]_vars
  PROVE  AbsentInv'
  <1>1. ASSUME NEW c \in Events, RowStep(c)
        PROVE  AbsentInv'
    <2>1. relay' = relay
      BY <1>1 DEF RowStep, Insert, Sweep, OrphanLapses, LiveLeaseLapses, BecomesDue, Lapse
    <2>2. \A e \in Events : row'[e].st = "absent" => row[e].st = "absent" /\ SameAttempts(e)
      BY <1>1, StRow, LapseRow, DueRow
         DEF RowStep, Insert, Sweep, OrphanLapses, LiveLeaseLapses, OnlyRow, SameAttempts
    <2> QED BY <2>1, <2>2 DEF AbsentInv, SameAttempts
  <1>2. ASSUME NEW r \in Relayers, RelayStep(r)
        PROVE  AbsentInv'
    <2>1. ASSUME NEW e \in Events, row'[e].st = "absent"
          PROVE  row[e].st = "absent" /\ e \notin relay[r].batch /\ SameAttempts(e)
      <3>1. CASE e \in relay[r].batch
        <4>1. row[e].st # "absent"
          BY <3>1 DEF AbsentInv
        <4>2. row'[e].st \in {row[e].st, "shipped", "deleted"}
          BY <1>2, <3>1, StKept
        <4> QED BY <2>1, <4>1, <4>2
      <3> QED BY <1>2, <2>1, <3>1, RelayReach
    <2>2. ASSUME NEW e \in Events, row'[e].st = "absent", NEW s \in Relayers
          PROVE  e \notin relay'[s].batch
      BY <1>2, <2>1, <2>2, RelayReach DEF AbsentInv, Moves
    <2> QED BY <2>1, <2>2 DEF AbsentInv, SameAttempts
  <1>3. CASE UNCHANGED vars
    BY <1>3 DEF vars, AbsentInv
  <1> QED BY <1>1, <1>2, <1>3 DEF Next

\* Nothing is at the cap or known at the start.
LEMMA InitHeld == Init => AbsentInv /\ HeldStaysClaimable
  BY DEF Init, AbsentInv, HeldStaysClaimable, NoneStranded, Stranded, Idle, Pending

-----------------------------------------------------------------------------
(* The theorems *)

\* The inductive invariant of the outbox, its last part for as long as no lease has run
\* out under a relayer at work.
THEOREM Invariant == Spec => []IInv
  <1>1. Init => IInv
    BY InitType, InitClosing, InitHands, InitOrder, InitHeld DEF IInv, Closing, Hands
  <1>2. ASSUME IInv, [Next]_vars
        PROVE  IInv'
    <2>1. TypeOK' /\ NothingDropped' /\ ClosingInv' /\ AbsentInv'
      BY <1>2, TypeStep, ClosingStep, AbsentStep DEF IInv, Closing
    <2>2. HeldStaysClaimable'
      BY <1>2, HeldStep DEF IInv, Hands
    <2>3. ASSUME lapses' = 0
          PROVE  OneRelayerPerRow' /\ HandsInv' /\ OrderInv'
      <3>1. lapses = 0
        BY <1>2, <2>3, CalmBefore DEF IInv
      <3>2. Hands /\ OrderInv
        BY <1>2, <3>1 DEF IInv, Hands
      <3> QED BY <1>2, <2>3, <3>2, HandsStep, OrderStep DEF IInv, Hands
    <2> QED BY <2>1, <2>2, <2>3 DEF IInv
  <1>3. IInv /\ [Next]_vars => IInv'
    BY <1>2
  <1> QED BY <1>1, <1>3, PTL DEF Spec

\* While no relayer stops or outlives its lease and no statement fails, a row whose
\* dead letter was refused stays claimable, however often that happens (holdForRetry).
THEOREM Claimable == Spec => []HeldStaysClaimable
  <1>1. IInv => HeldStaysClaimable
    BY DEF IInv
  <1> QED BY <1>1, Invariant, PTL

\* While no lease runs out under a relayer at work, no two relayers have one row in hand
\* (claimBatch).
THEOREM Exclusion == ASSUME MaxLapses = 0
                     PROVE  Spec => []OneRelayerPerRow
  <1>1. IInv => OneRelayerPerRow
    BY DEF IInv, TypeOK
  <1> QED BY <1>1, Invariant, PTL

\* A row that is published is pending and the eldest of its aggregate.
LEMMA PublishGuard ==
  ASSUME IInv, MaxLapses = 0, NEW r \in Relayers, NEW e \in relay[r].batch
  PROVE  e \in Events /\ row[e].st = "pending" /\ Eldest(e)
  <1>1. TypeOK /\ Hands /\ OrderInv
    BY DEF IInv, Hands, TypeOK
  <1>2. e \in Events /\ row[e].st = "pending"
    BY <1>1, InHandRow, RelayFields
  <1>3. Touched(e)
    BY DEF Touched
  <1> QED BY <1>1, <1>2, <1>3 DEF OrderInv, Eldest

\* While no lease runs out under a relayer at work, OrderedByKey keeps its promise: no
\* event is published after a newer one of its aggregate was delivered (orderGuard).
THEOREM Ordered == ASSUME MaxLapses = 0
                   PROVE  Spec => OrderKept
  <1>1. ASSUME IInv, OrderedByKey, NEW r \in Relayers, NEW e \in Events, NEW k \in Events,
               Deliver(r, e) \/ Refused(r, e), Before(e, k)
        PROVE  k \notin delivered
    <2>1. e \in Pending
      BY <1>1, PublishGuard DEF Deliver, Refused, Pending
    <2>2. OrderInv
      BY <1>1 DEF IInv, TypeOK
    <2> QED BY <1>1, <2>1, <2>2 DEF OrderInv, Touched
  <1>2. IInv => (OrderedByKey =>
                   \A r \in Relayers, e, k \in Events :
                     (Deliver(r, e) \/ Refused(r, e)) /\ Before(e, k) => k \notin delivered)
    BY <1>1
  <1> QED BY <1>2, Invariant, PTL DEF OrderKept

-----------------------------------------------------------------------------
(* Outbox implements EventFeed *)

\* The stage of a row by its status.
LEMMA StageOf ==
  /\ \A e \in Events : Stage[e] = IF row[e].st \in {"absent", "pending"} THEN row[e].st
                                                                 ELSE "resolved"
  /\ \A e \in Events : Stage'[e] = IF row'[e].st \in {"absent", "pending"} THEN row'[e].st
                                                                   ELSE "resolved"
  BY DEF Stage

\* One row moves on; or none does, for the feed.
LEMMA StageMoves ==
  /\ \A c \in Events : (\A e \in Events \ {c} : Stage'[e] = Stage[e])
                          => Stage' = [Stage EXCEPT ![c] = Stage'[c]]
  /\ (\A e \in Events : Stage'[e] = Stage[e]) => Stage' = Stage
  <1>1. Stage = [e \in Events |-> Stage[e]] /\ Stage' = [e \in Events |-> Stage'[e]]
    BY DEF Stage
  <1> HIDE DEF Stage
  <1> QED BY <1>1

\* Older of EventFeed is Before.
LEMMA OlderBefore == \A e, k \in Events : k \in Feed!Older(e) <=> Before(k, e)
  BY DEF Feed!Older, Before, SameKey

\* A step of row c: an insert is one of the feed, a sweep and the clock are none.
LEMMA RowRefines ==
  ASSUME TypeOK, NEW c \in Events, RowStep(c)
  PROVE  Feed!Next \/ UNCHANGED <<Stage, delivered, dead>>
  <1>1. delivered' = delivered /\ dead' = dead
    BY DEF RowStep, Insert, Sweep, OrphanLapses, LiveLeaseLapses, Lapse, BecomesDue
  <1>2. CASE Insert(c)
    <2>1. OnlyRow(c) /\ row[c].st = "absent" /\ row'[c].st = "pending"
      BY <1>2, StRow DEF Insert
    <2>2. /\ Stage[c] = "absent" /\ Stage'[c] = "pending"
          /\ \A e \in Events \ {c} : Stage'[e] = Stage[e]
      BY <2>1, StageOf DEF OnlyRow
    <2>3. Stage' = [Stage EXCEPT ![c] = "pending"]
      BY <2>2, StageMoves
    <2>4. \A k \in Events : c \in Feed!Older(k) => Stage[k] = "absent"
      BY <1>2, StageOf, OlderBefore DEF Insert
    <2>5. Feed!Insert(c)
      BY <1>1, <2>2, <2>3, <2>4 DEF Feed!Insert
    <2> QED BY <2>5 DEF Feed!Next
  <1>3. CASE ~Insert(c)
    <2>1. OnlyRow(c) /\ (row'[c].st = row[c].st \/ (row[c].st = "shipped" /\ row'[c].st = "deleted"))
      BY <1>3, StRow, LapseRow, DueRow DEF RowStep, Sweep, OrphanLapses, LiveLeaseLapses
    <2>2. \A e \in Events : Stage'[e] = Stage[e]
      BY <2>1, StageOf DEF OnlyRow
    <2> QED BY <1>1, <2>2, StageMoves
  <1> QED BY <1>2, <1>3

\* A step of relayer r: what the broker accepts is a delivery or a burial of the feed,
\* markShipped resolves the row, and the rest is none of it.
LEMMA RelayRefines ==
  ASSUME IInv, MaxLapses = 0, NEW r \in Relayers, RelayStep(r)
  PROVE  Feed!Next \/ UNCHANGED <<Stage, delivered, dead>>
  <1>t. TypeOK
    BY DEF IInv
  <1>s. row' = row => Stage' = Stage
    BY DEF Stage
  <1>p. \A e \in relay[r].batch : e \in Events /\ row[e].st = "pending" /\ Stage[e] = "pending"
    BY PublishGuard, StageOf
  <1>1. ASSUME NEW e \in Events, Deliver(r, e) \/ Refused(r, e)
        PROVE  Feed!Next \/ UNCHANGED <<Stage, delivered, dead>>
    <2>1. /\ e \in relay[r].batch /\ row' = row /\ dead' = dead
          /\ delivered' = delivered \/ delivered' = delivered \cup {e}
      BY <1>1 DEF Deliver, Refused
    <2>2. OrderedByKey => \A k \in Feed!Older(e) : Stage[k] # "pending"
      <3>1. Eldest(e)
        BY <2>1, PublishGuard
      <3>2. \A k \in Feed!Older(e) : k \in Events /\ Before(k, e)
        BY OlderBefore DEF Feed!Older
      <3>3. \A k \in Events : Stage[k] = "pending" => k \in Pending
        BY StageOf DEF Pending
      <3> QED BY <3>1, <3>2, <3>3 DEF Eldest
    <2>3. CASE delivered' = delivered \cup {e}
      <3>1. Feed!Deliver(e)
        BY <1>s, <1>p, <2>1, <2>2, <2>3 DEF Feed!Deliver
      <3> QED BY <3>1 DEF Feed!Next
    <2>4. CASE delivered' = delivered
      BY <1>s, <2>1, <2>4
    <2> QED BY <2>1, <2>3, <2>4
  <1>2. CASE DeadLetter(r) \/ DeadLetterRefused(r)
    <2>1. PICK c \in Events : c = relay[r].cur /\ c \in relay[r].batch
      BY <1>t, <1>2, CurrentRow DEF DeadLetter, DeadLetterRefused, AtWork
    <2>2. /\ row' = row /\ delivered' = delivered
          /\ dead' = dead \/ (HasDLQ /\ dead' = dead \cup {c})
      BY <1>2, <2>1 DEF DeadLetter, DeadLetterRefused
    <2>3. CASE HasDLQ /\ dead' = dead \cup {c}
      <3>1. Feed!Bury(c)
        BY <1>s, <1>p, <2>1, <2>2, <2>3 DEF Feed!Bury
      <3> QED BY <3>1 DEF Feed!Next
    <2>4. CASE dead' = dead
      BY <1>s, <2>2, <2>4
    <2> QED BY <2>2, <2>3, <2>4
  <1>3. CASE MarkShipped(r)
    <2>1. PICK c \in Events : c = relay[r].cur /\ c \in relay[r].batch
      BY <1>t, <1>3, CurrentRow DEF MarkShipped, AtWork
    <2>2. OnlyRow(c) /\ row'[c].st \in {"shipped", "deleted"}
      BY <1>t, <1>3, <2>1, ShipRow DEF MarkShipped
    <2>3. /\ Stage[c] = "pending" /\ Stage'[c] = "resolved"
          /\ \A e \in Events \ {c} : Stage'[e] = Stage[e]
      BY <1>p, <2>1, <2>2, StageOf DEF OnlyRow
    <2>4. Stage' = [Stage EXCEPT ![c] = "resolved"]
      BY <2>3, StageMoves
    <2>5. Closable(c)
      BY <1>3, <2>1 DEF MarkShipped, IInv, ClosingInv
    <2>6. delivered' = delivered /\ dead' = dead
      BY <1>3 DEF MarkShipped
    <2>7. Feed!Resolve(c)
      BY <2>3, <2>4, <2>5, <2>6 DEF Feed!Resolve, Closable
    <2> QED BY <2>7 DEF Feed!Next
  <1>4. CASE MarkError(r) \/ Hold(r)
    <2>1. relay[r].ph \in AtWork /\ MaxAttempts - 1 \in Nat
      BY <1>4 DEF MarkError, Hold, AtWork
    <2>2. PICK c \in Events : c = relay[r].cur
      BY <1>t, <2>1, CurrentRow
    <2>3. row[c].attempts + 1 \in Nat
      BY <1>t, RowFields
    <2>4. OnlyRow(c) /\ row'[c].st = row[c].st
      BY <1>t, <1>4, <2>1, <2>2, <2>3, RetryRow DEF MarkError, Hold
    <2>5. \A e \in Events : Stage'[e] = Stage[e]
      BY <2>4, StageOf DEF OnlyRow
    <2>6. delivered' = delivered /\ dead' = dead
      BY <1>4 DEF MarkError, Hold
    <2> QED BY <2>5, <2>6, StageMoves
  <1>5. CASE Claim(r)
    <2>1. \A e \in Events : row'[e].st = row[e].st
      BY <1>t, <1>5, ClaimRows
    <2>2. \A e \in Events : Stage'[e] = Stage[e]
      BY <2>1, StageOf
    <2> QED BY <1>5, <2>2, StageMoves DEF Claim
  <1>6. ASSUME NEW e \in Events, Undecoded(r, e)
        PROVE  UNCHANGED <<Stage, delivered, dead>>
    BY <1>s, <1>6 DEF Undecoded
  <1>7. CASE Fetch(r) \/ StatementFails(r) \/ Halt(r)
    BY <1>s, <1>7 DEF Fetch, StatementFails, Halt
  <1> QED BY <1>1, <1>2, <1>3, <1>4, <1>5, <1>6, <1>7 DEF RelayStep

\* While no lease runs out under a relayer at work, Outbox implements EventFeed: a
\* committed event stays pending until delivered, dead-lettered or, with no DLQ, dropped,
\* and with OrderedByKey it is delivered after its elders.
THEOREM Refinement == ASSUME MaxLapses = 0
                      PROVE  Spec => ImplementsFeed
  <1>1. Init => Feed!Init
    BY DEF Init, Feed!Init, Stage
  <1>2. ASSUME IInv, [Next]_vars
        PROVE  [Feed!Next]_<<Stage, delivered, dead>>
    <2>1. CASE UNCHANGED vars
      BY <2>1 DEF vars, Stage
    <2> QED BY <1>2, <2>1, RowRefines, RelayRefines DEF Next, IInv
  <1>3. IInv /\ [Next]_vars => [Feed!Next]_<<Stage, delivered, dead>>
    BY <1>2
  <1> QED BY <1>1, <1>3, Invariant, PTL DEF Spec, ImplementsFeed, Feed!Spec
=============================================================================
