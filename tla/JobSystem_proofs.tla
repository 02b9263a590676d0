-------------------------- MODULE JobSystem_proofs --------------------------
(* Theorems about JobSystem, for all values of its constants.               *)
EXTENDS JobSystem, FiniteSetTheorems, TLAPS

USE QueueAssumption, SystemAssumption

-----------------------------------------------------------------------------
(* What each statement does to the table *)

Statuses == {"absent", "running"} \cup Waiting \cup Terminal
Leases == {"none", "held", "lapsed"}

\* Assigning columns values of their types keeps a row in its type.
LEMMA RowUpdate ==
  ASSUME NEW r \in Row, NEW st \in Statuses, NEW l \in Leases, NEW n \in Nat,
         NEW due \in BOOLEAN, NEW u \in Nat
  PROVE  /\ [r EXCEPT !.status = st] \in Row
         /\ [r EXCEPT !.lease = l] \in Row
         /\ [r EXCEPT !.due = due] \in Row
         /\ [r EXCEPT !.status = st, !.lease = l] \in Row
         /\ [r EXCEPT !.status = st, !.lease = l, !.due = due] \in Row
         /\ [r EXCEPT !.status = st, !.lease = l, !.attempts = n] \in Row
         /\ [r EXCEPT !.status = st, !.due = due, !.unhandled = u] \in Row
         /\ [r EXCEPT !.status = st, !.lease = l, !.due = due, !.attempts = n,
                      !.unhandled = u] \in Row
  BY DEF Row, Statuses, Leases

\* The status and lease values, and the row before its INSERT, are in their types.
LEMMA StatusValues == /\ Waiting \subseteq Statuses /\ Terminal \subseteq Statuses
                      /\ "running" \in Statuses /\ "absent" \in Statuses
                      /\ Leases = {"none", "held", "lapsed"}
                      /\ Absent \in Row
  BY DEF Statuses, Leases, Waiting, Terminal, Absent, Row

\* What a single-row statement does to the table.
LEMMA WritesRow ==
  ASSUME TypeOK, NEW j \in Jobs, NEW r \in Row, Writes(j, r)
  PROVE  /\ row' \in [Jobs -> Row]
         /\ row'[j] = r
         /\ \A k \in Jobs \ {j} : row'[k] = row[k]
         /\ locked' = locked
         /\ j \notin Locked
  BY DEF TypeOK, Writes

\* Only row j changes.
OnlyRow(j) == /\ row' \in [Jobs -> Row]
              /\ \A k \in Jobs \ {j} : row'[k] = row[k]
              /\ locked' = locked

\* ... and it is not locked by an open claim.
Written(j) == OnlyRow(j) /\ j \notin Locked

\* Fields of row j that a statement leaves alone.
SameStatus(j)   == row'[j].status = row[j].status
SameLease(j)    == row'[j].lease = row[j].lease
SameAttempts(j) == row'[j].attempts = row[j].attempts
SameCount(j)    == row'[j].unhandled = row[j].unhandled

\* The single-row statements, column by column.
LEMMA EnqueueRow ==
  ASSUME TypeOK, NEW j \in Jobs, NEW due \in BOOLEAN, NEW u \in Nat, Enqueue(j, due, u)
  PROVE  /\ Written(j) /\ row[j].status = "absent"
         /\ row'[j].status = "enqueued" /\ row'[j].lease = "none"
         /\ row'[j].attempts = 0 /\ row'[j].unhandled = u
  <1> DEFINE r == [Absent EXCEPT !.status = "enqueued", !.due = due, !.unhandled = u]
  <1>1. r \in Row
    BY RowUpdate, StatusValues DEF Statuses, Waiting
  <1>2. r.status = "enqueued" /\ r.lease = "none" /\ r.attempts = 0 /\ r.unhandled = u
    BY DEF Absent
  <1>3. Writes(j, r) /\ row[j].status = "absent"
    BY DEF Enqueue
  <1> HIDE DEF r
  <1> QED BY <1>1, <1>2, <1>3, WritesRow DEF Written, OnlyRow

\* Ack finishes the row and leaves its lease and attempts alone.
LEMMA AckRow ==
  ASSUME TypeOK, NEW j \in Jobs, Ack(j)
  PROVE  Written(j) /\ row'[j].status = "succeeded" /\ SameLease(j) /\ SameAttempts(j) /\ SameCount(j)
  <1>1. row[j] \in Row /\ [row[j] EXCEPT !.status = "succeeded"] \in Row
    BY RowUpdate, StatusValues DEF TypeOK, Terminal
  <1> QED BY <1>1, WritesRow DEF Ack, Written, OnlyRow, Row, SameLease, SameAttempts, SameCount

\* Dead finishes the row and leaves its lease and attempts alone.
LEMMA DeadRow ==
  ASSUME TypeOK, NEW j \in Jobs, Dead(j)
  PROVE  Written(j) /\ row'[j].status = "dead" /\ SameLease(j) /\ SameAttempts(j) /\ SameCount(j)
  <1>1. row[j] \in Row /\ [row[j] EXCEPT !.status = "dead"] \in Row
    BY RowUpdate, StatusValues DEF TypeOK, Terminal
  <1> QED BY <1>1, WritesRow DEF Dead, Written, OnlyRow, Row, SameLease, SameAttempts, SameCount

\* Nack's UPDATE kills the row at the budget and gives it back below it.
LEMMA NackRow ==
  ASSUME TypeOK, NEW j \in Jobs, NEW seen \in Nat, NackWrite(j, seen)
  PROVE  /\ Written(j) /\ SameAttempts(j) /\ SameCount(j)
         /\ seen >= MaxRetry[j] => row'[j].status = "dead" /\ SameLease(j)
         /\ seen < MaxRetry[j] => row'[j].status = "failed" /\ row'[j].lease = "none"
  <1>1. row[j] \in Row /\ MaxRetry[j] \in Nat
    BY DEF TypeOK
  <1>2. CASE seen >= MaxRetry[j]
    <2> DEFINE r == [row[j] EXCEPT !.status = "dead"]
    <2>1. r \in Row
      BY <1>1, RowUpdate, StatusValues DEF Terminal
    <2>2. /\ r.status = "dead" /\ r.lease = row[j].lease /\ r.attempts = row[j].attempts
          /\ r.unhandled = row[j].unhandled
      BY <1>1 DEF Row
    <2>3. ~(seen < MaxRetry[j])
      BY <1>1, <1>2
    <2>4. Writes(j, r)
      BY <2>3, Zenon DEF NackWrite
    <2> HIDE DEF r
    <2> QED BY <1>1, <1>2, <2>1, <2>2, <2>3, <2>4, WritesRow
           DEF Written, OnlyRow, SameLease, SameAttempts, SameCount
  <1>3. CASE seen < MaxRetry[j]
    <2> DEFINE r(due) == [row[j] EXCEPT !.status = "failed", !.lease = "none", !.due = due]
    <2>1. ~(seen >= MaxRetry[j])
      BY <1>1, <1>3
    <2>2. PICK due \in BOOLEAN : Writes(j, r(due))
      BY <2>1, Zenon DEF NackWrite
    <2>3. r(due) \in Row
      BY <1>1, <2>2 DEF Row, Waiting
    <2>4. /\ r(due).status = "failed" /\ r(due).lease = "none"
          /\ r(due).attempts = row[j].attempts /\ r(due).unhandled = row[j].unhandled
      BY <1>1 DEF Row
    <2> HIDE DEF r
    <2> QED BY <2>1, <1>3, <2>2, <2>3, <2>4, WritesRow
           DEF Written, OnlyRow, SameAttempts, SameCount
  <1> QED BY <1>1, <1>2, <1>3

\* Requeue gives the row back with the caller's attempt count.
LEMMA RequeueRow ==
  ASSUME TypeOK, NEW j \in Jobs, NEW n \in Nat, NEW u \in Nat, Requeue(j, n, u)
  PROVE  /\ Written(j)
         /\ row'[j].status = "enqueued" /\ row'[j].lease = "none"
         /\ row'[j].attempts = n /\ row'[j].unhandled = u
  <1> DEFINE r == [row[j] EXCEPT !.status = "enqueued", !.lease = "none", !.due = FALSE,
                                 !.attempts = n, !.unhandled = u]
  <1>1. row[j] \in Row
    BY DEF TypeOK
  <1>2. r \in Row
    BY <1>1, RowUpdate, StatusValues DEF Waiting
  <1>3. r.status = "enqueued" /\ r.lease = "none" /\ r.attempts = n /\ r.unhandled = u
    BY <1>1 DEF Row
  <1>4. Writes(j, r)
    BY DEF Requeue
  <1> HIDE DEF r
  <1> QED BY <1>2, <1>3, <1>4, WritesRow DEF Written, OnlyRow

\* Quarantine kills the row and clears its lease.
LEMMA QuarantineRowEffect ==
  ASSUME TypeOK, NEW j \in Jobs, Quarantine(j)
  PROVE  /\ Written(j) /\ SameAttempts(j) /\ SameCount(j)
         /\ row'[j].status = "dead" /\ row'[j].lease = "none"
  <1> DEFINE r == [row[j] EXCEPT !.status = "dead", !.lease = "none"]
  <1>1. row[j] \in Row
    BY DEF TypeOK
  <1>2. r \in Row
    BY <1>1, RowUpdate, StatusValues DEF Terminal
  <1>3. /\ r.status = "dead" /\ r.lease = "none" /\ r.attempts = row[j].attempts
        /\ r.unhandled = row[j].unhandled
    BY <1>1 DEF Row
  <1>4. Writes(j, r)
    BY DEF Quarantine
  <1> HIDE DEF r
  <1> QED BY <1>2, <1>3, <1>4, WritesRow DEF Written, OnlyRow, SameAttempts, SameCount

\* RenewLease extends the lease of a running row, and nothing else.
LEMMA RenewRow ==
  ASSUME TypeOK, NEW j \in Jobs, RenewLease(j)
  PROVE  /\ Written(j) /\ SameStatus(j) /\ SameAttempts(j) /\ SameCount(j)
         /\ row[j].status = "running" /\ row'[j].lease = "held"
  <1>1. row[j] \in Row /\ [row[j] EXCEPT !.lease = "held"] \in Row
    BY RowUpdate, StatusValues DEF TypeOK
  <1> QED BY <1>1, WritesRow DEF RenewLease, Written, OnlyRow, Row, SameStatus, SameAttempts, SameCount

\* Cancel finishes a waiting row.
LEMMA CancelRow ==
  ASSUME TypeOK, NEW j \in Jobs, Cancel(j)
  PROVE  /\ Written(j) /\ SameLease(j) /\ SameAttempts(j) /\ SameCount(j)
         /\ row[j].status \in Waiting /\ row'[j].status = "cancelled"
  <1>1. row[j] \in Row /\ [row[j] EXCEPT !.status = "cancelled"] \in Row
    BY RowUpdate, StatusValues DEF TypeOK, Terminal
  <1> QED BY <1>1, WritesRow DEF Cancel, Written, OnlyRow, Row, SameLease, SameAttempts, SameCount

\* A lease runs out only on a running row.
LEMMA LapseRow ==
  ASSUME TypeOK, NEW j \in Jobs, LeaseLapses(j)
  PROVE  /\ OnlyRow(j) /\ SameStatus(j) /\ SameAttempts(j) /\ SameCount(j)
         /\ row[j].status = "running" /\ row'[j].lease = "lapsed"
  <1>1. row[j] \in Row /\ [row[j] EXCEPT !.lease = "lapsed"] \in Row
    BY RowUpdate, StatusValues DEF TypeOK
  <1> QED BY <1>1 DEF LeaseLapses, Running, OnlyRow, Row, SameStatus, SameAttempts, SameCount,
     TypeOK

\* A delay ends only on a waiting row.
LEMMA DueRow ==
  ASSUME TypeOK, NEW j \in Jobs, BecomesDue(j)
  PROVE  /\ OnlyRow(j) /\ SameStatus(j) /\ SameAttempts(j) /\ SameLease(j) /\ SameCount(j)
         /\ row[j].status \in Waiting
  <1>1. row[j] \in Row /\ [row[j] EXCEPT !.due = TRUE] \in Row
    BY RowUpdate, StatusValues DEF TypeOK
  <1> QED BY <1>1 DEF BecomesDue, OnlyRow, Row, SameStatus, SameAttempts, SameLease, SameCount,
     TypeOK

\* The sweep moves exactly the running rows whose lease is not held.
LEMMA SweepRows ==
  ASSUME TypeOK, ReclaimExpired
  PROVE  /\ row' \in [Jobs -> Row] /\ locked' = locked
         /\ \A j \in Jobs : SameAttempts(j) /\ SameCount(j)
         /\ \A j \in Jobs : row[j].status = "running" /\ row[j].lease # "held" =>
              /\ row'[j].lease = "none"
              /\ row'[j].status = IF row[j].attempts >= MaxRetry[j]
                                    THEN "dead" ELSE "enqueued"
         /\ \A j \in Jobs : ~(row[j].status = "running" /\ row[j].lease # "held") =>
              row'[j] = row[j]
  <1> DEFINE st(j) == IF j \in Spent THEN "dead" ELSE "enqueued"
             r(j) == [row[j] EXCEPT !.status = st(j), !.lease = "none"]
  <1>1. /\ row' = [j \in Jobs |-> IF j \in Expired THEN r(j) ELSE row[j]]
        /\ locked' = locked
    BY DEF ReclaimExpired, Reclaim
  <1>2. ASSUME NEW j \in Jobs
        PROVE  /\ r(j) \in Row /\ r(j).status = st(j) /\ r(j).lease = "none"
               /\ r(j).attempts = row[j].attempts /\ r(j).unhandled = row[j].unhandled
    <2>1. row[j] \in Row /\ st(j) \in Statuses
      BY StatusValues DEF TypeOK, Waiting, Terminal
    <2>2. r(j) \in Row
      BY <2>1, RowUpdate, StatusValues
    <2> HIDE DEF st
    <2>3. /\ r(j).status = st(j) /\ r(j).lease = "none"
          /\ r(j).attempts = row[j].attempts /\ r(j).unhandled = row[j].unhandled
      BY <2>1 DEF Row
    <2> QED BY <2>2, <2>3
  <1>3. \A j \in Jobs : /\ j \in Expired <=> row[j].status = "running" /\ row[j].lease # "held"
                        /\ j \in Spent <=> row[j].attempts >= MaxRetry[j]
    BY DEF Running, Expired, Spent
  <1> HIDE DEF r
  <1>4. \A j \in Jobs : row'[j] = IF j \in Expired THEN r(j) ELSE row[j]
    BY <1>1
  <1>5. row' \in [Jobs -> Row] /\ locked' = locked
    BY <1>1, <1>2 DEF TypeOK
  <1> QED BY <1>2, <1>3, <1>4, <1>5 DEF SameAttempts, SameCount

\* A Postgres claim locks waiting rows that no other claim has locked.
LEMMA LockedRows ==
  ASSUME TypeOK, NEW p \in Procs, NEW n, PGLock(p, n)
  PROVE  /\ row' = row /\ IsPG
         /\ locked' \in [Procs -> SUBSET Jobs]
         /\ \A x \in Procs \ {p} : locked'[x] = locked[x]
         /\ \A j \in locked'[p] : row[j].status \in Waiting /\ j \notin Locked
  <1> DEFINE C == Top(n, {j \in Jobs : Claimable(j)} \ Locked)
  <1>1. C \subseteq Jobs /\ \A j \in C : Claimable(j) /\ j \notin Locked
    BY DEF Top
  <1>2. row' = row /\ IsPG /\ locked' = [locked EXCEPT ![p] = C]
    BY DEF PGLock
  <1> HIDE DEF C
  <1> QED BY <1>1, <1>2 DEF TypeOK, Claimable

\* Rank is injective, so a deduplicated set has one job of each key.
LEMMA DedupUnique ==
  ASSUME NEW S \in SUBSET Jobs, NEW j \in Dedup(S), NEW k \in Dedup(S), SameKey(j, k)
  PROVE  j = k
  <1>1. /\ j \in S /\ k \in S /\ SameKey(k, j)
        /\ Rank[j] <= Rank[k] /\ Rank[k] <= Rank[j]
    BY DEF Dedup, SameKey
  <1>2. Rank[j] \in Nat /\ Rank[k] \in Nat
    BY <1>1
  <1> QED BY <1>1, <1>2

\* A claim takes waiting rows, at most one of each key and none of a running
\* key, and stamps them; a Postgres claim takes them from its locked rows.
LEMMA ClaimRows ==
  ASSUME TypeOK, LocksInv, NEW p \in Procs, NEW C \in SUBSET Jobs, ClaimStep(p, C)
  PROVE  /\ row' \in [Jobs -> Row]
         /\ \A j \in C : /\ row[j].status \in Waiting
                          /\ row'[j].status = "running" /\ row'[j].lease = "held"
                          /\ row'[j].attempts = row[j].attempts + 1
                          /\ \A x \in Procs \ {p} : j \notin locked[x]
                          /\ j \notin locked'[p]
         /\ \A j \in Jobs \ C : row'[j] = row[j]
         /\ \A j \in Jobs : SameCount(j)
         /\ \A j \in C, k \in Running : ~SameKey(j, k)
         /\ \A j, k \in C : SameKey(j, k) => j = k
         /\ locked' \in [Procs -> SUBSET Jobs]
         /\ locked'[p] = {}
         /\ \A x \in Procs \ {p} : locked'[x] = locked[x]
  <1> DEFINE r(j) == [row[j] EXCEPT !.status = "running", !.lease = "held",
                                    !.attempts = @ + 1]
  <1>1. row' = [j \in Jobs |-> IF j \in C THEN r(j) ELSE row[j]]
    BY DEF ClaimStep, SQLiteClaim, PGClaim, Claim
  <1>2. ASSUME NEW j \in Jobs
        PROVE  /\ r(j) \in Row /\ r(j).status = "running" /\ r(j).lease = "held"
               /\ r(j).attempts = row[j].attempts + 1
               /\ r(j).unhandled = row[j].unhandled
    <2> DEFINE n == row[j].attempts + 1
    <2>1. row[j] \in Row /\ n \in Nat
      BY DEF TypeOK, Row
    <2>2. [row[j] EXCEPT !.status = "running", !.lease = "held", !.attempts = n] \in Row
      BY <2>1, RowUpdate, StatusValues
    <2> QED BY <2>1, <2>2 DEF Row
  <1> HIDE DEF r
  <1>c. \A j \in Jobs : SameCount(j)
    BY <1>1, <1>2 DEF SameCount
  <1>3. CASE \E n \in 1 .. Cardinality(Free(p)) : SQLiteClaim(C, n)
    <2>1. C \subseteq Dedup({j \in Jobs : Claimable(j)}) /\ locked' = locked /\ ~IsPG
      BY <1>3 DEF SQLiteClaim, Top
    <2>2. \A x \in Procs : locked[x] = {}
      BY <2>1 DEF LocksInv
    <2>3. \A j \in C : Claimable(j)
      BY <2>1 DEF Dedup
    <2>4. \A j, k \in C : SameKey(j, k) => j = k
      BY <2>1, DedupUnique
    <2> QED BY <1>1, <1>2, <1>c, <2>1, <2>2, <2>3, <2>4 DEF Claimable, TypeOK
  <1>4. CASE PGClaim(p, C)
    <2>1. /\ C = Dedup(locked[p]) /\ IndexAdmits(C)
          /\ locked' = [locked EXCEPT ![p] = {}] /\ locked[p] \subseteq Jobs
      BY <1>4 DEF PGClaim, Claim, TypeOK
    <2>2. C \subseteq locked[p] /\ \A j, k \in C : SameKey(j, k) => j = k
      BY <2>1, DedupUnique DEF Dedup
    <2>3. \A j \in C : row[j].status \in Waiting /\ j \in Jobs
      BY <2>1, <2>2 DEF LocksInv
    <2>4. \A j \in C, k \in Running : ~SameKey(j, k)
      <3> SUFFICES ASSUME NEW j \in C, NEW k \in Running, SameKey(j, k)
                   PROVE  FALSE
        OBVIOUS
      <3>1. j = k
        BY <2>1 DEF IndexAdmits
      <3> QED BY <2>3, <3>1 DEF Running, Waiting
    <2> QED BY <1>1, <1>2, <1>c, <2>1, <2>2, <2>3, <2>4 DEF LocksInv, TypeOK
  <1> QED BY <1>3, <1>4 DEF ClaimStep

-----------------------------------------------------------------------------
(* What each step does to the goroutines *)

\* A goroutine that moves on keeps its job and attempt.
LEMMA GotoSlot ==
  ASSUME TypeOK, NEW s \in Slots, slot[s].ph # "idle", NEW ph \in Owning \cup {"dlq"},
         Goto(s, ph)
  PROVE  /\ slot' \in [Slots -> Task]
         /\ \A t \in Slots : slot'[t].ph # "idle" => slot'[t].job \in Jobs
         /\ \A t \in Slots \ {s} : slot'[t] = slot[t]
         /\ slot'[s].ph = ph /\ slot'[s].job = slot[s].job
         /\ slot'[s].att = slot[s].att /\ slot'[s].seen = slot[s].seen
         /\ slot'[s].unh = slot[s].unh
  BY DEF TypeOK, Goto, Task

\* Nack's SELECT: the goroutine remembers the attempt count it read.
LEMMA NackSelectSlot ==
  ASSUME TypeOK, NEW s \in Slots, NackSelect(s)
  PROVE  /\ slot' \in [Slots -> Task]
         /\ \A t \in Slots : slot'[t].ph # "idle" => slot'[t].job \in Jobs
         /\ \A t \in Slots \ {s} : slot'[t] = slot[t]
         /\ slot'[s].ph = "nacking" /\ slot'[s].job = slot[s].job
         /\ slot'[s].att = slot[s].att /\ slot'[s].unh = slot[s].unh
         /\ slot'[s].seen = row[slot[s].job].attempts
  <1> DEFINE n == row[slot[s].job].attempts
             r == [slot[s] EXCEPT !.ph = "nacking", !.seen = n]
  <1>1. slot[s] \in Task /\ slot[s].job \in Jobs /\ n \in Nat
    BY DEF NackSelect, TypeOK, Row
  <1>2. r \in Task
    BY <1>1 DEF Task, Owning
  <1>3. slot' = [slot EXCEPT ![s] = r]
    BY <1>1 DEF NackSelect, TypeOK, Task
  <1>4. /\ r.ph = "nacking" /\ r.job = slot[s].job /\ r.att = slot[s].att
        /\ r.seen = n /\ r.unh = slot[s].unh
    BY <1>1 DEF Task
  <1> HIDE DEF r, n
  <1> QED BY <1>1, <1>2, <1>3, <1>4 DEF TypeOK, n

\* A goroutine that returns frees its slot.
LEMMA ReleaseSlot ==
  ASSUME TypeOK, NEW s \in Slots, Release(s)
  PROVE  /\ slot' \in [Slots -> Task]
         /\ \A t \in Slots : slot'[t].ph # "idle" => slot'[t].job \in Jobs
         /\ \A t \in Slots \ {s} : slot'[t] = slot[t]
         /\ slot'[s].ph = "idle"
  BY DEF TypeOK, Release, Task, Idle

\* Dequeue gives each decodable job of its claim to one free slot.
LEMMA DequeueSlots ==
  ASSUME TypeOK, LocksInv, NEW p \in Procs, Dequeue(p)
  PROVE  \E C \in SUBSET Jobs :
    /\ ClaimStep(p, C)
    /\ quar' = [quar EXCEPT ![p] = C \cap Undecodable[p]]
    /\ slot' \in [Slots -> Task]
    /\ \A s \in Slots : \/ slot'[s] = slot[s]
                         \/ /\ slot[s].ph = "idle" /\ ProcOf[s] = p
                            /\ slot'[s].ph = "claimed"
                            /\ slot'[s].job \in C \ Undecodable[p]
                            /\ slot'[s].att = row[slot'[s].job].attempts + 1
                            /\ slot'[s].seen = 0
                            /\ slot'[s].unh = row[slot'[s].job].unhandled
    /\ \A s, t \in Slots : /\ slot'[s] # slot[s] /\ slot'[t] # slot[t]
                            /\ slot'[s].job = slot'[t].job
                            => s = t
    /\ \A j \in C \ Undecodable[p] :
         \E s \in Slots : slot'[s].ph = "claimed" /\ slot'[s].job = j
  <1>1. PICK C \in SUBSET Jobs : Dequeue(p)!1!(C)
    BY DEF Dequeue
  <1> DEFINE D == C \ Undecodable[p]
  <1>2. PICK at \in [D -> Free(p)] :
          /\ \A j, k \in D : at[j] = at[k] => j = k
          /\ slot' = [s \in Slots |->
               IF \E j \in D : at[j] = s
                 THEN LET j == CHOOSE j \in D : at[j] = s
                      IN  [ph |-> "claimed", job |-> j, att |-> row[j].attempts + 1,
                           unh |-> row[j].unhandled, seen |-> 0]
                 ELSE slot[s]]
    BY <1>1
  <1> DEFINE taker(s) == CHOOSE j \in D : at[j] = s
             task(j) == [ph |-> "claimed", job |-> j, att |-> row[j].attempts + 1,
                         unh |-> row[j].unhandled, seen |-> 0]
  <1>3. \A s \in Slots : slot'[s] = IF \E j \in D : at[j] = s THEN task(taker(s)) ELSE slot[s]
    BY <1>2
  <1>4. ASSUME NEW s \in Slots, \E j \in D : at[j] = s
        PROVE  /\ taker(s) \in D /\ at[taker(s)] = s
               /\ slot[s].ph = "idle" /\ ProcOf[s] = p
    BY <1>2, <1>4 DEF Free, SlotsOf
  <1>5. ASSUME NEW j \in D
        PROVE  /\ task(j) \in Task /\ task(j).ph = "claimed" /\ task(j).job = j
               /\ task(j).att = row[j].attempts + 1 /\ task(j).seen = 0
               /\ task(j).unh = row[j].unhandled
    BY DEF TypeOK, Row, Task, Owning
  <1> HIDE DEF taker, task, D
  <1>6. slot' \in [Slots -> Task]
    <2>1. slot' = [s \in Slots |-> slot'[s]]
      BY <1>2
    <2>2. \A s \in Slots : slot'[s] \in Task
      BY <1>3, <1>4, <1>5 DEF TypeOK
    <2> QED BY <2>1, <2>2
  <1>7. \A s \in Slots : slot'[s] # slot[s] =>
          /\ \E j \in D : at[j] = s
          /\ slot'[s] = task(taker(s)) /\ slot'[s].job = taker(s)
    BY <1>3, <1>4, <1>5
  <1> QED
    <2>1. /\ ClaimStep(p, C) /\ quar' = [quar EXCEPT ![p] = C \cap Undecodable[p]]
      BY <1>1
    <2>2. \A s, t \in Slots : /\ slot'[s] # slot[s] /\ slot'[t] # slot[t]
                              /\ slot'[s].job = slot'[t].job
                              => s = t
      BY <1>4, <1>7
    <2>3. \A s \in Slots : \/ slot'[s] = slot[s]
                           \/ /\ slot[s].ph = "idle" /\ ProcOf[s] = p
                              /\ slot'[s].ph = "claimed"
                              /\ slot'[s].job \in C \ Undecodable[p]
                              /\ slot'[s].att = row[slot'[s].job].attempts + 1
                              /\ slot'[s].seen = 0
                              /\ slot'[s].unh = row[slot'[s].job].unhandled
      BY <1>4, <1>5, <1>7 DEF D
    <2>4. ASSUME NEW j \in D
          PROVE  \E s \in Slots : slot'[s].ph = "claimed" /\ slot'[s].job = j
      <3>1. at[j] \in Slots
        BY <1>2 DEF Free, SlotsOf
      <3>2. taker(at[j]) = j
        BY <1>2, <1>4, <3>1
      <3> QED BY <1>3, <1>5, <3>1, <3>2
    <2>5. \A j \in C \ Undecodable[p] :
            \E s \in Slots : slot'[s].ph = "claimed" /\ slot'[s].job = j
      BY <2>4 DEF D
    <2> QED BY <2>1, <2>2, <2>3, <2>5, <1>6

-----------------------------------------------------------------------------
(* Type correctness *)

\* The initial state is well typed.
LEMMA InitType == Init => TypeOK
  BY DEF Init, QInit, TypeOK, Row, Absent, Task, Idle

\* Steps of one goroutine keep the types.
LEMMA SlotStepType ==
  ASSUME TypeOK, NEW s \in Slots, SlotStep(s)
  PROVE  TypeOK'
  <1> USE DEF queueVars, faultVars, historyVars, workerVars
  <1>0. slot[s].ph # "idle" => slot[s].job \in Jobs
    BY DEF TypeOK
  <1>a. slot[s].att \in Nat /\ slot[s].unh \in Nat /\ slot[s].seen \in Nat
    BY DEF TypeOK, Task
  <1>1. CASE StartHandler(s)
    BY <1>0, <1>1, GotoSlot DEF StartHandler, Dispatched, Owning, TypeOK
  <1>2. CASE RequeueUnhandled(s)
    <2> DEFINE n == IF slot[s].att > 0 THEN slot[s].att - 1 ELSE slot[s].att
    <2>1. n \in Nat /\ slot[s].unh + 1 \in Nat /\ slot[s].job \in Jobs
      BY <1>0, <1>a, <1>2 DEF RequeueUnhandled, Dispatched
    <2>2. Requeue(slot[s].job, n, slot[s].unh + 1) /\ Release(s)
      BY <1>2 DEF RequeueUnhandled
    <2> HIDE DEF n
    <2> QED BY <1>2, <2>1, <2>2, RequeueRow, ReleaseSlot DEF RequeueUnhandled, Written, OnlyRow, TypeOK
  <1>3. CASE GiveUpUnhandled(s)
    BY <1>0, <1>3, GotoSlot DEF GiveUpUnhandled, Dispatched, Owning, TypeOK
  <1>4. CASE Renew(s)
    BY <1>0, <1>4, RenewRow DEF Renew, Written, OnlyRow, TypeOK
  <1>5. CASE HandlerSucceeds(s)
    BY <1>0, <1>5, GotoSlot DEF HandlerSucceeds, Owning, TypeOK
  <1>6. CASE HandlerFails(s)
    BY <1>0, <1>6, GotoSlot DEF HandlerFails, Owning, TypeOK
  <1>7. CASE AckJob(s)
    BY <1>0, <1>7, AckRow, ReleaseSlot DEF AckJob, Written, OnlyRow, TypeOK
  <1>8. CASE NackSelect(s)
    BY <1>8, NackSelectSlot DEF NackSelect, TypeOK
  <1>9. CASE NackUpdate(s)
    BY <1>0, <1>a, <1>9, NackRow, ReleaseSlot DEF NackUpdate, Written, OnlyRow, TypeOK
  <1>10. CASE MarkDead(s)
    BY <1>0, <1>10, DeadRow, ReleaseSlot, GotoSlot DEF MarkDead, AfterDead, Written, OnlyRow, TypeOK
  <1>11. CASE RouteToDLQ(s)
    <2>1. PICK d \in FreshCopies(slot[s].job) :
            Enqueue(d, TRUE, slot[s].unh) /\ origin' = [origin EXCEPT ![d] = slot[s].job]
      BY <1>11 DEF RouteToDLQ
    <2>2. d \in DLQIds /\ d \in Jobs /\ slot[s].job \in Jobs
      BY <1>0, <1>11, <2>1 DEF RouteToDLQ, FreshCopies
    <2>3. Written(d)
      BY <1>a, <2>1, <2>2, EnqueueRow
    <2> QED BY <1>11, <2>1, <2>2, <2>3, ReleaseSlot DEF RouteToDLQ, Written, OnlyRow, TypeOK
  <1>12. CASE DLQFull(s)
    BY <1>12, ReleaseSlot DEF DLQFull, TypeOK
  <1>13. CASE WriteFails(s)
    BY <1>0, <1>13, ReleaseSlot, GotoSlot DEF WriteFails, AfterDead, TypeOK
  <1> QED BY <1>1, <1>2, <1>3, <1>4, <1>5, <1>6, <1>7, <1>8, <1>9, <1>10, <1>11, <1>12,
             <1>13 DEF SlotStep

\* Steps on one row by producers and the clock keep the types.
LEMMA JobStepType ==
  ASSUME TypeOK, NEW j \in Jobs, JobStep(j)
  PROVE  TypeOK'
  <1> USE DEF faultVars, historyVars, workerVars
  <1>1. CASE \E due \in BOOLEAN : Submit(j, due)
    BY <1>1, EnqueueRow DEF Submit, Written, OnlyRow, TypeOK
  <1>2. CASE CancelJob(j)
    BY <1>2, CancelRow DEF CancelJob, Written, OnlyRow, TypeOK
  <1>3. CASE OrphanLapses(j)
    BY <1>3, LapseRow DEF OrphanLapses, Written, OnlyRow, TypeOK
  <1>4. CASE LiveLeaseLapses(j)
    BY <1>4, LapseRow DEF LiveLeaseLapses, Written, OnlyRow, TypeOK
  <1>5. CASE DelayEnds(j)
    BY <1>5, DueRow DEF DelayEnds, Written, OnlyRow, TypeOK
  <1> QED BY <1>1, <1>2, <1>3, <1>4, <1>5 DEF JobStep

\* Steps of one process keep the types.
LEMMA ProcStepType ==
  ASSUME TypeOK, LocksInv, NEW p \in Procs, ProcStep(p)
  PROVE  TypeOK'
  <1> USE DEF queueVars, faultVars, historyVars, workerVars
  <1>1. CASE Lock(p)
    BY <1>1, LockedRows DEF Lock, TypeOK
  <1>7. CASE Conflict(p) \/ ClaimAborted(p)
    <2>1. locked' \in [Procs -> SUBSET Jobs] /\ row' = row
      BY <1>7 DEF Conflict, ClaimAborted, PGConflict, PGRollback, TypeOK
    <2>2. lost' \in 0 .. MaxLost
      BY <1>7 DEF Conflict, ClaimAborted, TypeOK
    <2> QED BY <1>7, <2>1, <2>2 DEF Conflict, ClaimAborted, TypeOK
  <1>2. CASE Dequeue(p)
    <2>1. PICK C \in SUBSET Jobs :
            /\ ClaimStep(p, C)
            /\ quar' = [quar EXCEPT ![p] = C \cap Undecodable[p]]
            /\ slot' \in [Slots -> Task]
            /\ \A s \in Slots : slot'[s] = slot[s] \/ slot'[s].job \in C \ Undecodable[p]
      BY <1>2, DequeueSlots
    <2>2. row' \in [Jobs -> Row] /\ locked' \in [Procs -> SUBSET Jobs]
      BY <2>1, ClaimRows
    <2> QED BY <1>2, <2>1, <2>2 DEF Dequeue, TypeOK
  <1>3. CASE DequeueLost(p)
    BY <1>3, ClaimRows DEF DequeueLost, TypeOK
  <1>4. CASE \E j \in Jobs : QuarantineRow(p, j)
    BY <1>4, QuarantineRowEffect DEF QuarantineRow, Written, OnlyRow, TypeOK
  <1>8. CASE \E j \in Jobs : QuarantineFails(p, j)
    BY <1>8 DEF QuarantineFails, TypeOK
  <1>5. CASE StopRun(p) \/ Exit(p) \/ Restart(p)
    BY <1>5 DEF StopRun, Exit, Restart, TypeOK
  <1>6. CASE Crash(p)
    BY <1>6 DEF Crash, Idle, Task, TypeOK
  <1> QED BY <1>1, <1>2, <1>3, <1>4, <1>5, <1>6, <1>7, <1>8 DEF ProcStep

\* Every step keeps the types.
LEMMA NextType == TypeOK /\ LocksInv /\ [Next]_vars => TypeOK'
  <1>1. TypeOK /\ UNCHANGED vars => TypeOK'
    BY DEF TypeOK, vars
  <1>2. TypeOK /\ Sweep => TypeOK'
    BY SweepRows DEF Sweep, TypeOK, faultVars, historyVars, workerVars
  <1> QED BY <1>1, <1>2, JobStepType, ProcStepType, SlotStepType DEF Next

-----------------------------------------------------------------------------
(* What holds whatever the faults: locked candidates stay claimable, and at  *)
(* most one row of each key is running.                                      *)

\* A step that leaves the claims alone and moves no row into running, and no
\* locked row out of waiting, keeps both.
LEMMA QuietStep ==
  ASSUME TypeOK, LocksInv, OneRunningPerKey,
         locked' = locked,
         \A p \in Procs : locked[p] # {} => proc'[p] # "down",
         \A j \in Jobs : row'[j].status = "running" => row[j].status = "running",
         \A j \in Locked : row'[j].status \in Waiting
  PROVE  LocksInv' /\ OneRunningPerKey'
  BY DEF LocksInv, OneRunningPerKey, Running, SameKey, Locked, TypeOK

\* Steps of one goroutine keep both.
LEMMA SlotStepQuiet ==
  ASSUME TypeOK, LocksInv, OneRunningPerKey, NEW s \in Slots, SlotStep(s)
  PROVE  LocksInv' /\ OneRunningPerKey'
  <1> USE DEF queueVars, faultVars, historyVars, workerVars
  <1> SUFFICES /\ locked' = locked /\ proc' = proc
               /\ \A j \in Jobs : row'[j].status = "running" => row[j].status = "running"
               /\ \A j \in Locked : row'[j].status \in Waiting
    BY QuietStep DEF LocksInv
  <1>0. slot[s].ph # "idle" => slot[s].job \in Jobs
    BY DEF TypeOK
  <1>a. slot[s].att \in Nat /\ slot[s].unh \in Nat /\ slot[s].seen \in Nat
    BY DEF TypeOK, Task
  <1>b. /\ Locked \subseteq Jobs
        /\ \A j \in Locked : row[j].status \in Waiting
    BY DEF Locked, LocksInv, TypeOK
  <1>1. CASE row' = row /\ locked' = locked /\ proc' = proc
    BY <1>1, <1>b
  <1>2. ASSUME NEW j \in Jobs, Written(j), row'[j].status # "running", proc' = proc
        PROVE  /\ locked' = locked /\ proc' = proc
               /\ \A k \in Jobs : row'[k].status = "running" => row[k].status = "running"
               /\ \A k \in Locked : row'[k].status \in Waiting
    BY <1>2, <1>b DEF Written, OnlyRow
  <1>3. CASE RequeueUnhandled(s)
    <2> DEFINE n == IF slot[s].att > 0 THEN slot[s].att - 1 ELSE slot[s].att
    <2>1. n \in Nat /\ slot[s].unh + 1 \in Nat /\ slot[s].job \in Jobs
      BY <1>0, <1>a, <1>3 DEF RequeueUnhandled, Dispatched
    <2>2. Requeue(slot[s].job, n, slot[s].unh + 1) /\ proc' = proc
      BY <1>3 DEF RequeueUnhandled
    <2> HIDE DEF n
    <2>3. Written(slot[s].job) /\ row'[slot[s].job].status = "enqueued"
      BY <2>1, <2>2, RequeueRow
    <2> QED BY <1>2, <2>1, <2>2, <2>3
  <1>4. CASE Renew(s)
    BY <1>0, <1>4, <1>b, RenewRow DEF Renew, Written, OnlyRow
  <1>5. CASE AckJob(s)
    BY <1>0, <1>2, <1>5, AckRow DEF AckJob
  <1>6. CASE NackUpdate(s)
    BY <1>0, <1>a, <1>2, <1>6, NackRow DEF NackUpdate
  <1>7. CASE MarkDead(s)
    BY <1>0, <1>2, <1>7, DeadRow DEF MarkDead
  <1>8. CASE RouteToDLQ(s)
    <2>1. PICK d \in FreshCopies(slot[s].job) : Enqueue(d, TRUE, slot[s].unh)
      BY <1>8 DEF RouteToDLQ
    <2>2. d \in Jobs
      BY <2>1 DEF FreshCopies
    <2> QED BY <1>a, <1>2, <1>8, <2>1, <2>2, EnqueueRow DEF RouteToDLQ
  <1>9. CASE \/ StartHandler(s) \/ GiveUpUnhandled(s) \/ HandlerSucceeds(s)
             \/ HandlerFails(s) \/ NackSelect(s) \/ DLQFull(s) \/ WriteFails(s)
    BY <1>1, <1>9 DEF StartHandler, GiveUpUnhandled, HandlerSucceeds, HandlerFails,
       NackSelect, DLQFull, WriteFails
  <1> QED BY <1>3, <1>4, <1>5, <1>6, <1>7, <1>8, <1>9 DEF SlotStep

\* Producers, operators and the clock keep both.
LEMMA JobStepQuiet ==
  ASSUME TypeOK, LocksInv, OneRunningPerKey, NEW j \in Jobs, JobStep(j)
  PROVE  LocksInv' /\ OneRunningPerKey'
  <1> USE DEF faultVars, historyVars, workerVars
  <1> SUFFICES /\ locked' = locked /\ proc' = proc
               /\ \A k \in Jobs : row'[k].status = "running" => row[k].status = "running"
               /\ \A k \in Locked : row'[k].status \in Waiting
    BY QuietStep DEF LocksInv
  <1>b. /\ Locked \subseteq Jobs
        /\ \A k \in Locked : row[k].status \in Waiting
    BY DEF Locked, LocksInv, TypeOK
  <1>w. "running" \notin Waiting
    BY DEF Waiting
  <1> USE DEF Written, OnlyRow, SameStatus
  <1>1. CASE \E due \in BOOLEAN : Submit(j, due)
    BY <1>1, <1>b, EnqueueRow DEF Submit
  <1>2. CASE CancelJob(j)
    BY <1>2, <1>b, CancelRow DEF CancelJob
  <1>3. CASE OrphanLapses(j)
    BY <1>3, <1>b, <1>w, LapseRow DEF OrphanLapses
  <1>4. CASE LiveLeaseLapses(j)
    BY <1>4, <1>b, <1>w, LapseRow DEF LiveLeaseLapses
  <1>5. CASE DelayEnds(j)
    BY <1>5, <1>b, <1>w, DueRow DEF DelayEnds
  <1> QED BY <1>1, <1>2, <1>3, <1>4, <1>5 DEF JobStep

\* A claim keeps both: the index, or the dedup under the write lock.
LEMMA ClaimKeeps ==
  ASSUME TypeOK, LocksInv, OneRunningPerKey, proc' = proc,
         NEW p \in Procs, NEW C \in SUBSET Jobs, ClaimStep(p, C)
  PROVE  LocksInv' /\ OneRunningPerKey'
  <1>1. OneRunningPerKey'
    <2> SUFFICES ASSUME NEW j \in Jobs, NEW k \in Jobs,
                        row'[j].status = "running", row'[k].status = "running",
                        SameKey(j, k)
                 PROVE  j = k
      BY DEF OneRunningPerKey, Running, SameKey
    <2>1. \A i \in Jobs \ C : row'[i].status = "running" => i \in Running
      BY ClaimRows DEF Running
    <2>2. SameKey(k, j)
      BY DEF SameKey
    <2> QED BY <2>1, <2>2, ClaimRows DEF OneRunningPerKey
  <1>2. LocksInv'
    <2>1. IsPG \/ \A x \in Procs : locked'[x] = {}
      BY DEF ClaimStep, SQLiteClaim, PGClaim, LocksInv
    <2>2. \A x \in Procs : \A j \in locked'[x] : j \in locked[x] /\ j \notin C
      BY ClaimRows, SMTT(30) DEF TypeOK
    <2>3. \A x \in Procs : locked'[x] \subseteq Jobs
      BY ClaimRows
    <2> QED BY <2>1, <2>2, <2>3, ClaimRows DEF LocksInv
  <1> QED BY <1>1, <1>2

\* Steps of one process keep both.
LEMMA ProcStepQuiet ==
  ASSUME TypeOK, LocksInv, OneRunningPerKey, NEW p \in Procs, ProcStep(p)
  PROVE  LocksInv' /\ OneRunningPerKey'
  <1> USE DEF queueVars, faultVars, historyVars, workerVars
  <1>b. /\ Locked \subseteq Jobs
        /\ \A k \in Locked : row[k].status \in Waiting
    BY DEF Locked, LocksInv, TypeOK
  <1>1. CASE Lock(p)
    <2>1. OneRunningPerKey'
      BY <1>1, LockedRows DEF Lock, OneRunningPerKey, Running, SameKey
    <2>2. /\ proc' = proc /\ proc[p] = "up"
          /\ \E n \in 1 .. Cardinality(Free(p)) : PGLock(p, n)
      BY <1>1 DEF Lock, Polls
    <2>3. /\ row' = row /\ IsPG
          /\ \A x \in Procs \ {p} : locked'[x] = locked[x]
          /\ \A j \in locked'[p] : row[j].status \in Waiting /\ j \notin Locked
      BY <2>2, LockedRows
    <2>4. \A x \in Procs \ {p} : \A j \in locked'[p] : j \notin locked'[x]
      BY <2>3 DEF Locked
    <2> QED BY <2>1, <2>2, <2>3, <2>4 DEF LocksInv
  <1>2. CASE Conflict(p) \/ ClaimAborted(p)
    <2>1. row' = row /\ locked' = [locked EXCEPT ![p] = {}] /\ proc' = proc
      BY <1>2 DEF Conflict, ClaimAborted, PGConflict, PGRollback
    <2> QED BY <2>1 DEF LocksInv, OneRunningPerKey, Running, SameKey, TypeOK
  <1>3. CASE Dequeue(p) \/ DequeueLost(p)
    <2>1. proc' = proc /\ \E C \in SUBSET Jobs : ClaimStep(p, C)
      BY <1>3, DequeueSlots DEF Dequeue, DequeueLost
    <2> QED BY <2>1, ClaimKeeps
  <1>4. CASE \E j \in Jobs : QuarantineRow(p, j)
    <2>1. PICK j \in Jobs : QuarantineRow(p, j)
      BY <1>4
    <2>2. proc' = proc /\ Written(j) /\ row'[j].status # "running"
      BY <2>1, QuarantineRowEffect DEF QuarantineRow
    <2> QED BY <2>2, <1>b, QuietStep DEF Written, OnlyRow, LocksInv
  <1>6. CASE \E j \in Jobs : QuarantineFails(p, j)
    <2>1. row' = row /\ locked' = locked /\ proc' = proc
      BY <1>6 DEF QuarantineFails
    <2>2. LocksInv'
      BY <2>1 DEF LocksInv
    <2>3. OneRunningPerKey'
      BY <2>1 DEF OneRunningPerKey, Running, SameKey
    <2> QED BY <2>2, <2>3
  <1>5. CASE StopRun(p) \/ Exit(p) \/ Restart(p) \/ Crash(p)
    <2>1. row' = row
      BY <1>5 DEF StopRun, Exit, Restart, Crash
    <2>2. \A x \in Procs : locked[x] # {} => proc[x] # "down"
      BY DEF LocksInv
    <2>3. /\ \A x \in Procs : locked'[x] = locked[x] \/ locked'[x] = {}
          /\ \A x \in Procs : locked'[x] # {} => proc'[x] # "down"
      <3>1. CASE Crash(p)
        BY <2>2, <3>1 DEF Crash, TypeOK
      <3>2. CASE StopRun(p) \/ Exit(p) \/ Restart(p)
        BY <2>2, <3>2 DEF StopRun, Exit, Restart, TypeOK
      <3> QED BY <1>5, <3>1, <3>2
    <2>4. LocksInv'
      BY <2>1, <2>3 DEF LocksInv
    <2>5. OneRunningPerKey'
      BY <2>1 DEF OneRunningPerKey, Running, SameKey
    <2> QED BY <2>4, <2>5
  <1> QED BY <1>1, <1>2, <1>3, <1>4, <1>5, <1>6 DEF ProcStep

\* Every step keeps both: with TypeOK they are an inductive invariant.
LEMMA NextQuiet ==
  TypeOK /\ LocksInv /\ OneRunningPerKey /\ [Next]_vars => LocksInv' /\ OneRunningPerKey'
  <1> SUFFICES ASSUME TypeOK, LocksInv, OneRunningPerKey, [Next]_vars
               PROVE  LocksInv' /\ OneRunningPerKey'
    OBVIOUS
  <1>1. CASE UNCHANGED vars
    BY <1>1 DEF vars, LocksInv, OneRunningPerKey, Running, SameKey
  <1>2. CASE Sweep
    <2>1. /\ locked' = locked /\ proc' = proc
          /\ \A k \in Jobs : row'[k].status = "running" => row[k].status = "running"
          /\ \A k \in Jobs : row[k].status \in Waiting => row'[k].status \in Waiting
      BY <1>2, SweepRows DEF Sweep, workerVars, Waiting
    <2>2. \A k \in Locked : k \in Jobs /\ row[k].status \in Waiting
      BY DEF Locked, LocksInv, TypeOK
    <2> QED BY <2>1, <2>2, QuietStep DEF LocksInv
  <1> QED BY <1>1, <1>2, JobStepQuiet, ProcStepQuiet, SlotStepQuiet DEF Next

\* The model's variables keep their types.
THEOREM TypeCorrect == Spec => []TypeOK
  <1> DEFINE Inv == TypeOK /\ LocksInv /\ OneRunningPerKey
  <1>1. Init => Inv
    BY InitType DEF Init, QInit, LocksInv, OneRunningPerKey, Running, Absent
  <1>2. Inv /\ [Next]_vars => Inv'
    BY NextType, NextQuiet
  <1> QED BY <1>1, <1>2, PTL DEF Spec

\* At most one row of each key is running: whatever the number of processes
\* and slots, the driver, and the crashes, lost calls and stale leases.
THEOREM KeysExclusive == Spec => []OneRunningPerKey
  <1> DEFINE Inv == TypeOK /\ LocksInv /\ OneRunningPerKey
  <1>1. Init => Inv
    BY InitType DEF Init, QInit, LocksInv, OneRunningPerKey, Running, Absent
  <1>2. Inv /\ [Next]_vars => Inv'
    BY NextType, NextQuiet
  <1> QED BY <1>1, <1>2, PTL DEF Spec

-----------------------------------------------------------------------------
(* What needs live workers to keep their leases: MaxStale = 0.               *)

\* A step that leaves slots, quarantine sets, processes and histories alone,
\* and touches one row that nobody owns or that stays running and leased.
LEMMA RowStepKeeps ==
  ASSUME IInv, NEW j \in Jobs, OnlyRow(j), slot' = slot, quar' = quar, proc' = proc,
         starts' = starts,
         RowsInv',
         \/ ~Held(j)
         \/ SameStatus(j) /\ row'[j].lease = "held" /\ SameAttempts(j)
  PROVE  OwnersInv' /\ QuarInv'
  <1>1. \A s \in Slots : slot[s].ph \in Owning => slot[s].job \in Jobs
    BY DEF IInv, TypeOK, Owning
  <1>2. OwnersInv'
    BY <1>1 DEF IInv, OwnersInv, HasRow, OnlyRow, Held, SameStatus, SameAttempts
  <1>3. QuarInv'
    BY DEF IInv, TypeOK, QuarInv, Owns, OnlyRow, Held, SameStatus
  <1> QED BY <1>2, <1>3

\* The owner of a job lets go of it.
LEMMA OwnerLeaves ==
  ASSUME IInv, NEW s \in Slots, slot[s].ph \in Owning,
         OnlyRow(slot[s].job) \/ row' = row,
         quar' = quar, proc' = proc, starts' = starts,
         slot'[s].ph \notin Owning,
         \A t \in Slots \ {s} : slot'[t] = slot[t]
  PROVE  OwnersInv' /\ QuarInv'
  <1>1. \A t \in Slots : slot[t].ph \in Owning => slot[t].job \in Jobs
    BY DEF IInv, TypeOK, Owning
  <1>2. \A t \in Slots \ {s} : slot[t].ph \in Owning => row'[slot[t].job] = row[slot[t].job]
    BY <1>1 DEF IInv, OwnersInv, OnlyRow
  <1>3. OwnersInv'
    BY <1>1, <1>2 DEF IInv, OwnersInv, HasRow
  <1>4. \A p \in Procs : \A j \in quar[p] : j \in Jobs /\ row'[j] = row[j]
    BY DEF IInv, TypeOK, QuarInv, Owns, OnlyRow
  <1>5. QuarInv'
    BY <1>4 DEF IInv, QuarInv, Owns
  <1> QED BY <1>3, <1>5

\* The owner of a job moves on and keeps it; the table does not change.
LEMMA OwnerMoves ==
  ASSUME IInv, NEW s \in Slots, slot[s].ph \in Owning,
         row' = row, quar' = quar, proc' = proc,
         \A j \in Jobs : j # slot[s].job => starts'[j] = starts[j],
         slot'[s].ph \in Owning \ {"claimed"}, slot'[s].job = slot[s].job,
         slot'[s].att = slot[s].att,
         slot'[s].ph \in {"failed", "nacking"} => slot[s].att < MaxRetry[slot[s].job],
         slot'[s].ph = "nacking" => slot'[s].seen = slot[s].att,
         \A t \in Slots \ {s} : slot'[t] = slot[t]
  PROVE  OwnersInv' /\ QuarInv'
  <1>1. \A t \in Slots : slot[t].ph \in Owning => slot[t].job \in Jobs
    BY DEF IInv, TypeOK, Owning
  <1>2. \A t \in Slots \ {s} : slot[t].ph \in Owning => slot[t].job # slot[s].job
    BY DEF IInv, OwnersInv
  <1>3. \A t \in Slots : slot'[t].ph \in Owning => HasRow(t)'
    BY <1>1, <1>2 DEF IInv, OwnersInv, HasRow
  <1>4. OwnersInv'
    BY <1>1, <1>2, <1>3 DEF IInv, OwnersInv
  <1>5. QuarInv'
    BY DEF IInv, QuarInv, Owns
  <1> QED BY <1>4, <1>5

\* What IInv says of the job a goroutine owns.
LEMMA OwnedJob ==
  ASSUME IInv, NEW s \in Slots, slot[s].ph \in Owning
  PROVE  LET j == slot[s].job
         IN  /\ j \in Jobs /\ row[j].status = "running" /\ row[j].lease = "held"
             /\ row[j].attempts = slot[s].att /\ row[j].attempts \in Nat
             /\ starts[j] \in Nat /\ MaxRetry[j] \in Nat
             /\ slot[s].att \in Nat /\ slot[s].unh \in Nat /\ slot[s].seen \in Nat
             /\ starts[j] <= slot[s].att /\ slot[s].att <= MaxRetry[j]
             /\ slot[s].ph = "claimed" => starts[j] < slot[s].att
             /\ slot[s].ph \in {"failed", "nacking"} => slot[s].att < MaxRetry[j]
             /\ slot[s].ph = "nacking" => slot[s].seen = slot[s].att
  <1>1. slot[s].job \in Jobs /\ slot[s] \in Task /\ row[slot[s].job] \in Row
    BY DEF IInv, TypeOK, Owning
  <1> QED BY <1>1 DEF IInv, TypeOK, Task, Row, RowsInv, OwnersInv, HasRow

\* The row of one job is within RowsInv.
RowOK(j) ==
  /\ row[j].attempts <= MaxRetry[j]
  /\ starts[j] <= row[j].attempts
  /\ row[j].status = "absent" => row[j].attempts = 0
  /\ row[j].status \in Waiting => /\ row[j].lease = "none"
                                  /\ row[j].attempts < MaxRetry[j]

\* A statement on row j alone keeps RowsInv if it keeps it for j.
LEMMA RowsKeep ==
  ASSUME IInv, NEW j \in Jobs, OnlyRow(j), starts' = starts, RowOK(j)'
  PROVE  RowsInv'
  BY DEF IInv, RowsInv, RowOK, OnlyRow

\* Steps of one goroutine keep the invariant: it writes only the row it owns, and
\* lets go of the job in the same step.
LEMMA SlotStepInv ==
  ASSUME IInv, NEW s \in Slots, SlotStep(s)
  PROVE  RowsInv' /\ OwnersInv' /\ QuarInv'
  <1> DEFINE j == slot[s].job
  <1> USE DEF queueVars, faultVars, historyVars, workerVars
  <1>t. TypeOK
    BY DEF IInv
  <1>0. slot[s].ph # "idle" => slot[s].job \in Jobs
    BY DEF IInv, TypeOK
  <1>u. row' = row /\ starts' = starts => RowsInv'
    BY DEF IInv, RowsInv
  <1>1. CASE StartHandler(s)
    <2>1. slot[s].ph = "claimed" /\ Goto(s, "handling") /\ "handling" \in Owning
          /\ "claimed" \in Owning
      BY <1>1 DEF StartHandler, Dispatched, Owning
    <2>2. /\ starts' = [starts EXCEPT ![j] = @ + 1]
          /\ row' = row /\ quar' = quar /\ proc' = proc
      BY <1>1 DEF StartHandler
    <2>3. /\ j \in Jobs /\ starts[j] < slot[s].att /\ row[j].attempts = slot[s].att
          /\ starts[j] \in Nat /\ slot[s].att \in Nat /\ starts'[j] = starts[j] + 1
      BY <2>1, <2>2, OwnedJob, <1>t DEF TypeOK
    <2>4. \A k \in Jobs : k # j => starts'[k] = starts[k]
      BY <2>2, <1>t DEF TypeOK
    <2>5. RowsInv'
      BY <2>2, <2>3, <2>4 DEF IInv, RowsInv
    <2>6. /\ \A t \in Slots \ {s} : slot'[t] = slot[t]
          /\ slot'[s].ph = "handling" /\ slot'[s].job = j
          /\ slot'[s].att = slot[s].att
      BY <1>t, <2>1, GotoSlot
    <2>7. OwnersInv' /\ QuarInv'
      BY <2>1, <2>2, <2>4, <2>6, OwnerMoves
    <2> QED BY <2>5, <2>7
  <1>2. CASE RequeueUnhandled(s)
    <2> DEFINE n == IF slot[s].att > 0 THEN slot[s].att - 1 ELSE slot[s].att
    <2>1. /\ slot[s].ph = "claimed" /\ slot[s].ph \in Owning
          /\ Release(s) /\ quar' = quar /\ proc' = proc /\ starts' = starts
          /\ Requeue(j, n, slot[s].unh + 1)
      BY <1>2 DEF RequeueUnhandled, Dispatched, Owning
    <2>2. /\ n \in Nat /\ slot[s].unh + 1 \in Nat /\ j \in Jobs
          /\ starts[j] <= n /\ n < MaxRetry[j]
      BY <2>1, OwnedJob
    <2> HIDE DEF n
    <2>3. /\ OnlyRow(j) /\ row'[j].status = "enqueued" /\ row'[j].lease = "none"
          /\ row'[j].attempts = n
      BY <1>t, <2>1, <2>2, RequeueRow DEF Written
    <2>4. PICK k \in Jobs : k = j
      BY <2>2
    <2>5. RowsInv'
      <3>1. starts'[k] <= n /\ n < MaxRetry[k] /\ MaxRetry[k] \in Nat
        BY <2>1, <2>2, <2>4
      <3>2. RowOK(k)'
        BY <2>2, <2>3, <2>4, <3>1 DEF RowOK
      <3> QED BY <2>1, <2>3, <2>4, <3>2, RowsKeep
    <2>6. OwnersInv' /\ QuarInv'
      BY <1>t, <2>1, <2>3, ReleaseSlot, OwnerLeaves DEF Owning
    <2> QED BY <2>5, <2>6
  <1>3. CASE GiveUpUnhandled(s)
    <2>1. /\ slot[s].ph = "claimed" /\ slot[s].ph \in Owning /\ Goto(s, "dying")
          /\ row' = row /\ quar' = quar /\ proc' = proc /\ starts' = starts
          /\ "dying" \in Owning /\ slot[s].ph # "idle"
      BY <1>3 DEF GiveUpUnhandled, Dispatched, Owning
    <2>2. OwnersInv' /\ QuarInv'
      BY <1>t, <2>1, GotoSlot, OwnerMoves
    <2> QED BY <1>u, <2>1, <2>2
  <1>4. CASE Renew(s)
    <2>1. slot[s].ph \in Owning /\ row[j].lease # "held"
      BY <1>4 DEF Renew, Owning
    <2> QED BY <2>1, OwnedJob
  <1>5. CASE HandlerSucceeds(s)
    <2>1. /\ slot[s].ph = "handling" /\ slot[s].ph \in Owning /\ Goto(s, "succeeded")
          /\ row' = row /\ quar' = quar /\ proc' = proc /\ starts' = starts
          /\ "succeeded" \in Owning /\ slot[s].ph # "idle"
      BY <1>5 DEF HandlerSucceeds, Owning
    <2>2. OwnersInv' /\ QuarInv'
      BY <1>t, <2>1, GotoSlot, OwnerMoves
    <2> QED BY <1>u, <2>1, <2>2
  <1>6. CASE HandlerFails(s)
    <2> DEFINE ph == IF slot[s].att >= MaxRetry[j] THEN "dying" ELSE "failed"
    <2>1. /\ slot[s].ph = "handling" /\ slot[s].ph \in Owning /\ Goto(s, ph)
          /\ row' = row /\ quar' = quar /\ proc' = proc /\ starts' = starts
          /\ ph \in Owning /\ slot[s].ph # "idle"
      BY <1>6 DEF HandlerFails, Owning
    <2>2. ph = "failed" => slot[s].att < MaxRetry[j]
      BY <2>1, OwnedJob
    <2>3. ph \notin {"claimed", "nacking"}
      OBVIOUS
    <2> HIDE DEF ph
    <2>4. OwnersInv' /\ QuarInv'
      BY <1>t, <2>1, <2>2, <2>3, GotoSlot, OwnerMoves
    <2> QED BY <1>u, <2>1, <2>4
  <1>7. CASE AckJob(s)
    <2>1. /\ slot[s].ph \in Owning /\ Ack(j) /\ Release(s)
          /\ quar' = quar /\ proc' = proc /\ starts' = starts
      BY <1>7 DEF AckJob, Owning
    <2>2. j \in Jobs /\ OnlyRow(j) /\ row'[j].status = "succeeded" /\ SameAttempts(j)
      BY <1>t, <2>1, OwnedJob, AckRow DEF Written
    <2>3. RowsInv'
      BY <2>1, <2>2, RowsKeep DEF IInv, RowsInv, RowOK, SameAttempts, Waiting
    <2>4. OwnersInv' /\ QuarInv'
      BY <1>t, <2>1, <2>2, ReleaseSlot, OwnerLeaves DEF Owning
    <2> QED BY <2>3, <2>4
  <1>8. CASE NackSelect(s)
    <2>1. /\ slot[s].ph = "failed" /\ slot[s].ph \in Owning
          /\ row' = row /\ quar' = quar /\ proc' = proc /\ starts' = starts
          /\ "nacking" \in Owning
      BY <1>8 DEF NackSelect, Owning
    <2>2. /\ \A t \in Slots \ {s} : slot'[t] = slot[t]
          /\ slot'[s].ph = "nacking" /\ slot'[s].job = j
          /\ slot'[s].att = slot[s].att /\ slot'[s].seen = row[j].attempts
      BY <1>8, <1>t, NackSelectSlot
    <2>3. slot'[s].seen = slot[s].att /\ slot[s].att < MaxRetry[j]
      BY <2>1, <2>2, OwnedJob
    <2>4. OwnersInv' /\ QuarInv'
      BY <2>1, <2>2, <2>3, OwnerMoves
    <2> QED BY <1>u, <2>1, <2>4
  <1>9. CASE NackUpdate(s)
    <2>1. /\ slot[s].ph = "nacking" /\ slot[s].ph \in Owning
          /\ NackWrite(j, slot[s].seen) /\ Release(s)
          /\ quar' = quar /\ proc' = proc /\ starts' = starts
      BY <1>9 DEF NackUpdate, Owning
    <2>2. /\ j \in Jobs /\ slot[s].seen \in Nat /\ slot[s].seen < MaxRetry[j]
          /\ row[j].attempts = slot[s].seen
      BY <2>1, OwnedJob
    <2>3. /\ OnlyRow(j) /\ SameAttempts(j)
          /\ row'[j].status = "failed" /\ row'[j].lease = "none"
      BY <1>t, <2>1, <2>2, NackRow DEF Written
    <2>4. RowsInv'
      BY <2>1, <2>2, <2>3, RowsKeep DEF IInv, RowsInv, RowOK, SameAttempts
    <2>5. OwnersInv' /\ QuarInv'
      BY <1>t, <2>1, <2>3, ReleaseSlot, OwnerLeaves DEF Owning
    <2> QED BY <2>4, <2>5
  <1>10. CASE MarkDead(s)
    <2>1. /\ slot[s].ph \in Owning /\ slot[s].ph # "idle" /\ Dead(j) /\ AfterDead(s)
          /\ quar' = quar /\ proc' = proc /\ starts' = starts
      BY <1>10 DEF MarkDead, Owning
    <2>2. j \in Jobs /\ OnlyRow(j) /\ row'[j].status = "dead" /\ SameAttempts(j)
      BY <1>t, <2>1, OwnedJob, DeadRow DEF Written
    <2>3. RowsInv'
      BY <2>1, <2>2, RowsKeep DEF IInv, RowsInv, RowOK, SameAttempts, Waiting
    <2>4. slot'[s].ph \notin Owning /\ \A t \in Slots \ {s} : slot'[t] = slot[t]
      BY <1>t, <2>1, ReleaseSlot, GotoSlot DEF AfterDead, Owning
    <2>5. OwnersInv' /\ QuarInv'
      BY <2>1, <2>2, <2>4, OwnerLeaves
    <2> QED BY <2>3, <2>5
  <1>11. CASE RouteToDLQ(s)
    <2>1. PICK d \in FreshCopies(slot[s].job) : Enqueue(d, TRUE, slot[s].unh)
      BY <1>11 DEF RouteToDLQ
    <2>2. /\ d \in Jobs /\ slot[s].unh \in Nat /\ Release(s) /\ slot[s].ph = "dlq"
          /\ quar' = quar /\ proc' = proc /\ starts' = starts
      BY <1>11, <1>t, <2>1 DEF RouteToDLQ, FreshCopies, TypeOK, Task
    <2>3. /\ OnlyRow(d) /\ row[d].status = "absent" /\ row'[d].status = "enqueued"
          /\ row'[d].lease = "none" /\ row'[d].attempts = 0
      BY <1>t, <2>1, <2>2, EnqueueRow DEF Written
    <2>4. RowOK(d)'
      <3>1. starts[d] \in Nat /\ MaxRetry[d] \in Nat \ {0} /\ starts[d] <= 0
        BY <2>2, <2>3 DEF IInv, TypeOK, RowsInv
      <3> QED BY <2>2, <2>3, <3>1 DEF RowOK
    <2>5. RowsInv'
      BY <2>2, <2>3, <2>4, RowsKeep
    <2>6. \A t \in Slots : slot'[t].ph \in Owning => slot'[t] = slot[t]
      BY <1>t, <2>2, ReleaseSlot DEF Owning
    <2>7. \A t \in Slots : slot[t].ph \in Owning => slot[t].job \in Jobs \ {d}
      BY <2>3, OwnedJob
    <2>8. OwnersInv'
      BY <2>2, <2>3, <2>6, <2>7 DEF IInv, OwnersInv, HasRow, OnlyRow
    <2>9. QuarInv'
      BY <2>2, <2>3, <2>6 DEF IInv, TypeOK, QuarInv, Owns, OnlyRow
    <2> QED BY <2>5, <2>8, <2>9
  <1>12. CASE DLQFull(s)
    <2>1. /\ Release(s) /\ row' = row /\ quar' = quar /\ proc' = proc /\ starts' = starts
      BY <1>12 DEF DLQFull
    <2>2. \A t \in Slots : slot'[t].ph \in Owning => slot'[t] = slot[t]
      BY <1>t, <2>1, ReleaseSlot DEF Owning
    <2>3. OwnersInv' /\ QuarInv'
      BY <2>1, <2>2 DEF IInv, OwnersInv, HasRow, QuarInv, Owns
    <2> QED BY <1>u, <2>1, <2>3
  <1>13. CASE WriteFails(s)
    <2>1. /\ row' = row /\ quar' = quar /\ proc' = proc /\ starts' = starts
          /\ slot[s].ph # "idle"
          /\ Release(s) \/ AfterDead(s)
      BY <1>13 DEF WriteFails, Dispatched
    <2>2. slot'[s].ph \notin Owning /\ \A t \in Slots \ {s} : slot'[t] = slot[t]
      BY <1>t, <2>1, ReleaseSlot, GotoSlot DEF AfterDead, Owning
    <2>3. OwnersInv' /\ QuarInv'
      BY <2>1, <2>2 DEF IInv, OwnersInv, HasRow, QuarInv, Owns
    <2> QED BY <1>u, <2>1, <2>3
  <1> QED BY <1>1, <1>2, <1>3, <1>4, <1>5, <1>6, <1>7, <1>8, <1>9, <1>10, <1>11, <1>12,
             <1>13 DEF SlotStep

\* Producers, operators and the clock keep it: they never touch a running row,
\* except for the lease of one that nobody works on.
LEMMA JobStepInv ==
  ASSUME IInv, MaxStale = 0, NEW j \in Jobs, JobStep(j)
  PROVE  RowsInv' /\ OwnersInv' /\ QuarInv'
  <1> USE DEF faultVars, historyVars, workerVars
  <1>t. TypeOK
    BY DEF IInv
  <1>n. starts[j] \in Nat /\ MaxRetry[j] \in Nat \ {0} /\ row[j] \in Row
    BY <1>t DEF TypeOK
  <1>k. RowOK(j)
    BY DEF IInv, RowsInv, RowOK
  <1>h. Held(j) => row[j].status = "running"
    BY DEF Held, IInv, OwnersInv, HasRow, QuarInv
  <1>w. \A k \in Jobs : row[k].status \in Waiting \cup {"absent"} => ~(row[k].status = "running")
    BY DEF Waiting
  <1>1. CASE \E due \in BOOLEAN : Submit(j, due)
    <2>1. /\ OnlyRow(j) /\ row[j].status = "absent" /\ row'[j].status = "enqueued"
          /\ row'[j].lease = "none" /\ row'[j].attempts = 0
          /\ slot' = slot /\ quar' = quar /\ proc' = proc /\ starts' = starts
      BY <1>1, <1>t, EnqueueRow DEF Submit, Written
    <2>2. starts[j] <= 0
      BY <1>k, <2>1 DEF RowOK
    <2>3. RowOK(j)'
      BY <1>n, <2>1, <2>2 DEF RowOK
    <2>4. RowsInv'
      BY <2>1, <2>3, RowsKeep
    <2> QED BY <1>h, <2>1, <2>4, RowStepKeeps
  <1>2. CASE CancelJob(j)
    <2>1. /\ OnlyRow(j) /\ row[j].status \in Waiting /\ row'[j].status = "cancelled"
          /\ SameAttempts(j)
          /\ slot' = slot /\ quar' = quar /\ proc' = proc /\ starts' = starts
      BY <1>2, <1>t, CancelRow DEF CancelJob, Written
    <2>2. RowOK(j)'
      BY <1>k, <2>1 DEF RowOK, SameAttempts, Waiting
    <2>3. RowsInv'
      BY <2>1, <2>2, RowsKeep
    <2> QED BY <1>h, <1>w, <2>1, <2>3, RowStepKeeps
  <1>3. CASE OrphanLapses(j)
    <2>1. /\ OnlyRow(j) /\ SameStatus(j) /\ SameAttempts(j) /\ row[j].status = "running"
          /\ ~Held(j)
          /\ slot' = slot /\ quar' = quar /\ proc' = proc /\ starts' = starts
      BY <1>3, <1>t, LapseRow DEF OrphanLapses
    <2>2. RowOK(j)'
      BY <1>k, <2>1 DEF RowOK, SameAttempts, SameStatus, Waiting
    <2>3. RowsInv'
      BY <2>1, <2>2, RowsKeep
    <2> QED BY <2>1, <2>3, RowStepKeeps
  <1>4. CASE LiveLeaseLapses(j)
    BY <1>4, <1>t DEF LiveLeaseLapses, TypeOK
  <1>5. CASE DelayEnds(j)
    <2>1. /\ OnlyRow(j) /\ SameStatus(j) /\ SameAttempts(j) /\ SameLease(j)
          /\ row[j].status \in Waiting
          /\ slot' = slot /\ quar' = quar /\ proc' = proc /\ starts' = starts
      BY <1>5, <1>t, DueRow DEF DelayEnds
    <2>2. RowOK(j)'
      BY <1>k, <2>1 DEF RowOK, SameAttempts, SameStatus, SameLease
    <2>3. RowsInv'
      BY <2>1, <2>2, RowsKeep
    <2> QED BY <1>h, <1>w, <2>1, <2>3, RowStepKeeps
  <1> QED BY <1>1, <1>2, <1>3, <1>4, <1>5 DEF JobStep

\* A row that is owned or set aside for quarantine.
Taken(j) == row[j].status = "running" /\ row[j].lease = "held"

\* A step that leaves every taken row as it is, or taken by nobody, and the
\* goroutines, quarantine sets and processes alone.
LEMMA TakenStay ==
  ASSUME IInv, slot' = slot, quar' = quar, proc' = proc, starts' = starts,
         \A j \in Jobs : Taken(j) => row'[j] = row[j]
  PROVE  OwnersInv' /\ QuarInv'
  <1>1. \A s \in Slots : slot[s].ph \in Owning => slot[s].job \in Jobs
    BY DEF IInv, TypeOK, Owning
  <1>2. OwnersInv'
    BY <1>1 DEF IInv, OwnersInv, HasRow, Taken
  <1>3. QuarInv'
    BY DEF IInv, TypeOK, QuarInv, Owns, Taken
  <1> QED BY <1>2, <1>3

\* The sweep keeps it: the row of an owned job has its lease.
LEMMA SweepInv ==
  ASSUME IInv, Sweep
  PROVE  RowsInv' /\ OwnersInv' /\ QuarInv'
  <1>t. TypeOK /\ ReclaimExpired
    BY DEF IInv, Sweep
  <1>1. slot' = slot /\ quar' = quar /\ proc' = proc /\ starts' = starts
    BY DEF Sweep, workerVars, historyVars
  <1>2. \A j \in Jobs : Taken(j) => row'[j] = row[j]
    BY <1>t, SweepRows DEF Taken
  <1>3. ASSUME NEW j \in Jobs
        PROVE  RowOK(j)'
    <2>1. RowOK(j) /\ row[j].attempts \in Nat /\ MaxRetry[j] \in Nat
      BY <1>t DEF IInv, RowsInv, RowOK, TypeOK, Row
    <2>2. CASE row[j].status = "running" /\ row[j].lease # "held"
      <3>1. /\ row'[j].lease = "none" /\ row'[j].attempts = row[j].attempts
            /\ row'[j].status = IF row[j].attempts >= MaxRetry[j] THEN "dead" ELSE "enqueued"
        BY <1>t, <2>2, SweepRows DEF SameAttempts
      <3> QED BY <1>1, <2>1, <3>1 DEF RowOK, Waiting
    <2>3. CASE ~(row[j].status = "running" /\ row[j].lease # "held")
      BY <1>t, <1>1, <2>1, <2>3, SweepRows DEF RowOK
    <2> QED BY <2>2, <2>3
  <1>4. RowsInv'
    BY <1>3 DEF RowsInv, RowOK
  <1> QED BY <1>1, <1>2, <1>4, TakenStay

\* A claim spends an attempt that was left.
LEMMA ClaimRowsInv ==
  ASSUME IInv, NEW p \in Procs, NEW C \in SUBSET Jobs, ClaimStep(p, C), starts' = starts
  PROVE  /\ RowsInv'
         /\ \A j \in Jobs : Taken(j) => row'[j] = row[j] /\ j \notin C
         /\ \A j \in C : /\ Taken(j)' /\ row'[j].attempts = row[j].attempts + 1
                          /\ starts[j] < row[j].attempts + 1
  <1>t. TypeOK /\ LocksInv
    BY DEF IInv
  <1>1. \A j \in Jobs \ C : row'[j] = row[j]
    BY <1>t, ClaimRows
  <1>2. \A j \in C : /\ row[j].status \in Waiting
                     /\ row'[j].status = "running" /\ row'[j].lease = "held"
                     /\ row'[j].attempts = row[j].attempts + 1
    BY <1>t, ClaimRows
  <1>3. \A j \in C : /\ row[j].attempts \in Nat /\ MaxRetry[j] \in Nat /\ starts[j] \in Nat
                     /\ starts[j] <= row[j].attempts /\ row[j].attempts < MaxRetry[j]
    BY <1>t, <1>2 DEF IInv, RowsInv, TypeOK, Row
  <1>4. ASSUME NEW j \in Jobs
        PROVE  RowOK(j)'
    <2>1. CASE j \in C
      BY <1>2, <1>3, <2>1 DEF RowOK, Waiting
    <2>2. CASE j \notin C
      BY <1>1, <2>2 DEF IInv, RowsInv, RowOK
    <2> QED BY <2>1, <2>2
  <1>5. RowsInv'
    BY <1>4 DEF RowsInv, RowOK
  <1> QED BY <1>1, <1>2, <1>3, <1>5 DEF Taken, Waiting

\* Dequeue keeps it: the claimed rows were waiting, hence nobody's.
LEMMA DequeueInv ==
  ASSUME IInv, NEW p \in Procs, Dequeue(p)
  PROVE  RowsInv' /\ OwnersInv' /\ QuarInv'
  <1>t. TypeOK /\ LocksInv
    BY DEF IInv
  <1>1. PICK C \in SUBSET Jobs :
          /\ ClaimStep(p, C)
          /\ quar' = [quar EXCEPT ![p] = C \cap Undecodable[p]]
          /\ slot' \in [Slots -> Task]
          /\ \A s \in Slots : \/ slot'[s] = slot[s]
                               \/ /\ slot[s].ph = "idle" /\ ProcOf[s] = p
                                  /\ slot'[s].ph = "claimed"
                                  /\ slot'[s].job \in C \ Undecodable[p]
                                  /\ slot'[s].att = row[slot'[s].job].attempts + 1
                                  /\ slot'[s].seen = 0
          /\ \A s, t \in Slots : /\ slot'[s] # slot[s] /\ slot'[t] # slot[t]
                                  /\ slot'[s].job = slot'[t].job
                                  => s = t
    BY <1>t, DequeueSlots
  <1>2. proc' = proc /\ starts' = starts /\ proc[p] # "down"
    <2>1. Polls(p) \/ locked[p] # {}
      BY <1>1 DEF ClaimStep, PGClaim
    <2> QED BY <1>t, <2>1 DEF Dequeue, historyVars, Polls, LocksInv
  <1>3. /\ RowsInv'
        /\ \A j \in Jobs : Taken(j) => row'[j] = row[j] /\ j \notin C
        /\ \A j \in C : /\ Taken(j)' /\ row'[j].attempts = row[j].attempts + 1
                         /\ starts[j] < row[j].attempts + 1
    BY <1>1, <1>2, ClaimRowsInv
  <1>4. \A s \in Slots : slot[s].ph \in Owning => slot[s].job \in Jobs /\ Taken(slot[s].job)
    BY <1>t DEF IInv, TypeOK, OwnersInv, HasRow, Taken, Owning
  <1>5. \A s \in Slots : slot'[s].ph \in Owning =>
          \/ slot'[s] = slot[s] /\ slot'[s].job \notin C
          \/ slot'[s] # slot[s] /\ slot'[s].job \in C \ Undecodable[p]
    BY <1>1, <1>3, <1>4
  <1>6. OwnersInv'
    <2>1. ASSUME NEW s \in Slots, slot'[s].ph \in Owning
          PROVE  HasRow(s)'
      <3>1. CASE slot'[s] = slot[s]
        BY <1>2, <1>3, <1>4, <2>1, <3>1 DEF IInv, OwnersInv, HasRow
      <3>2. CASE slot'[s] # slot[s]
        BY <1>1, <1>2, <1>3, <3>2 DEF HasRow, Taken
      <3> QED BY <3>1, <3>2
    <2>2. ASSUME NEW s \in Slots, NEW t \in Slots,
                 slot'[s].ph \in Owning, slot'[t].ph \in Owning,
                 slot'[s].job = slot'[t].job
          PROVE  s = t
      BY <1>1, <1>5, <2>2 DEF IInv, OwnersInv
    <2> QED BY <2>1, <2>2 DEF OwnersInv
  <1>7. QuarInv'
    <2>1. \A x \in Procs : quar'[x] = IF x = p THEN C \cap Undecodable[p] ELSE quar[x]
      BY <1>1, <1>t DEF TypeOK
    <2>2. \A x \in Procs : \A j \in quar[x] : j \in Jobs /\ Taken(j) /\ j \notin C
      BY <1>t, <1>3 DEF IInv, TypeOK, QuarInv, Taken
    <2>3. ASSUME NEW x \in Procs, NEW j \in quar'[x]
          PROVE  /\ Taken(j)' /\ proc'[x] # "down"
                 /\ \A s \in Slots : ~Owns(s, j)'
      <3>1. CASE x = p
        BY <1>2, <1>3, <1>5, <2>1, <2>3, <3>1 DEF Owns
      <3>2. CASE x # p
        <4>1. j \in quar[x]
          BY <2>1, <2>3, <3>2
        <4> QED BY <1>2, <1>3, <1>5, <2>2, <4>1 DEF IInv, QuarInv, Owns, Taken
      <3> QED BY <3>1, <3>2
    <2>4. \A x, y \in Procs : \A j \in quar'[x] \cap quar'[y] : x = y
      BY <2>1, <2>2 DEF IInv, QuarInv
    <2> QED BY <2>3, <2>4 DEF QuarInv, Taken
  <1> QED BY <1>3, <1>6, <1>7

\* Steps of one process keep it.
LEMMA ProcStepInv ==
  ASSUME IInv, NEW p \in Procs, ProcStep(p)
  PROVE  RowsInv' /\ OwnersInv' /\ QuarInv'
  <1> USE DEF queueVars, faultVars, historyVars, workerVars
  <1>t. TypeOK
    BY DEF IInv
  <1>1. CASE Lock(p) \/ Conflict(p) \/ ClaimAborted(p)
    <2>1. row' = row /\ slot' = slot /\ quar' = quar /\ proc' = proc /\ starts' = starts
      BY <1>1 DEF Lock, Conflict, ClaimAborted, PGLock, PGConflict, PGRollback
    <2> QED BY <2>1, TakenStay DEF IInv, RowsInv
  <1>2. CASE Dequeue(p)
    BY <1>2, DequeueInv
  <1>3. CASE DequeueLost(p)
    <2>1. PICK C \in SUBSET Jobs : ClaimStep(p, C)
      BY <1>3 DEF DequeueLost
    <2>2. slot' = slot /\ quar' = quar /\ proc' = proc /\ starts' = starts
      BY <1>3 DEF DequeueLost
    <2> QED BY <2>1, <2>2, ClaimRowsInv, TakenStay
  <1>4. CASE \E j \in Jobs : QuarantineRow(p, j)
    <2>1. PICK j \in Jobs : QuarantineRow(p, j)
      BY <1>4
    <2>2. /\ OnlyRow(j) /\ SameAttempts(j) /\ row'[j].status = "dead"
          /\ slot' = slot /\ proc' = proc /\ starts' = starts
          /\ quar' = [quar EXCEPT ![p] = @ \ {j}] /\ j \in quar[p]
      BY <1>t, <2>1, QuarantineRowEffect DEF QuarantineRow, Written
    <2>3. RowOK(j)'
      BY <2>2 DEF RowOK, SameAttempts, IInv, RowsInv, Waiting
    <2>4. RowsInv'
      BY <2>2, <2>3, RowsKeep
    <2>5. \A s \in Slots : slot[s].ph \in Owning => slot[s].job \in Jobs \ {j}
      BY <1>t, <2>2 DEF IInv, TypeOK, Owning, QuarInv, Owns
    <2>6. OwnersInv'
      BY <2>2, <2>5 DEF IInv, OwnersInv, HasRow, OnlyRow
    <2>7. \A x \in Procs : quar'[x] \subseteq quar[x] \ {j}
      BY <1>t, <2>2 DEF TypeOK, IInv, QuarInv
    <2>8. QuarInv'
      BY <1>t, <2>2, <2>7 DEF IInv, TypeOK, QuarInv, Owns, OnlyRow
    <2> QED BY <2>4, <2>6, <2>8
  <1>8. CASE \E j \in Jobs : QuarantineFails(p, j)
    <2>1. /\ row' = row /\ slot' = slot /\ proc' = proc /\ starts' = starts
          /\ \A x \in Procs : quar'[x] \subseteq quar[x]
      BY <1>8, <1>t DEF QuarantineFails, TypeOK
    <2> QED BY <2>1 DEF IInv, RowsInv, OwnersInv, HasRow, QuarInv, Owns
  <1>5. CASE StopRun(p) \/ Restart(p)
    <2>1. /\ row' = row /\ slot' = slot /\ quar' = quar /\ starts' = starts
          /\ \A x \in Procs : proc[x] # "down" => proc'[x] # "down"
      BY <1>5, <1>t DEF StopRun, Restart, TypeOK
    <2> QED BY <2>1 DEF IInv, RowsInv, OwnersInv, HasRow, QuarInv, Owns
  <1>6. CASE Exit(p)
    <2>1. /\ row' = row /\ slot' = slot /\ quar' = quar /\ starts' = starts
          /\ \A x \in Procs \ {p} : proc'[x] = proc[x]
          /\ quar[p] = {} /\ SlotsOf(p) = Free(p)
      BY <1>6, <1>t DEF Exit, TypeOK
    <2>2. \A s \in Slots : slot[s].ph \in Owning => ProcOf[s] \in Procs \ {p}
      BY <2>1 DEF SlotsOf, Free, Owning
    <2> QED BY <2>1, <2>2 DEF IInv, RowsInv, OwnersInv, HasRow, QuarInv, Owns
  <1>7. CASE Crash(p)
    <2>1. /\ row' = row /\ starts' = starts
          /\ \A x \in Procs \ {p} : proc'[x] = proc[x] /\ quar'[x] = quar[x]
          /\ quar'[p] = {}
          /\ \A s \in Slots : slot'[s] = IF ProcOf[s] = p THEN Idle ELSE slot[s]
      BY <1>7, <1>t DEF Crash, TypeOK
    <2>2. \A s \in Slots : slot'[s].ph \in Owning =>
            slot'[s] = slot[s] /\ ProcOf[s] \in Procs \ {p}
      BY <2>1 DEF Idle, Owning
    <2>3. OwnersInv'
      BY <2>1, <2>2 DEF IInv, OwnersInv, HasRow
    <2>4. QuarInv'
      BY <2>1, <2>2 DEF IInv, QuarInv, Owns
    <2> QED BY <2>1, <2>3, <2>4 DEF IInv, RowsInv
  <1> QED BY <1>1, <1>2, <1>3, <1>4, <1>5, <1>6, <1>7, <1>8 DEF ProcStep

\* It holds initially.
LEMMA InitInv == Init => IInv
  <1> SUFFICES ASSUME Init PROVE IInv
    OBVIOUS
  <1>1. /\ row = [j \in Jobs |-> Absent] /\ slot = [s \in Slots |-> Idle]
        /\ locked = [p \in Procs |-> {}] /\ quar = [p \in Procs |-> {}]
        /\ starts = [j \in Jobs |-> 0]
    BY DEF Init, QInit
  <1>2. OneRunningPerKey /\ LocksInv
    BY <1>1 DEF OneRunningPerKey, Running, Absent, LocksInv
  <1>3. RowsInv
    BY <1>1 DEF RowsInv, Absent, Waiting
  <1>4. OwnersInv /\ QuarInv
    BY <1>1 DEF OwnersInv, QuarInv, Idle, Owning
  <1> QED BY <1>2, <1>3, <1>4, InitType DEF IInv

\* Every step keeps it.
LEMMA NextInv ==
  ASSUME MaxStale = 0
  PROVE  IInv /\ [Next]_vars => IInv'
  <1> SUFFICES ASSUME IInv, [Next]_vars PROVE IInv'
    OBVIOUS
  <1>1. TypeOK' /\ LocksInv' /\ OneRunningPerKey'
    BY NextType, NextQuiet DEF IInv
  <1>2. CASE UNCHANGED vars
    BY <1>1, <1>2 DEF vars, IInv, RowsInv, OwnersInv, HasRow, QuarInv, Owns
  <1>3. CASE Next
    <2>1. RowsInv' /\ OwnersInv' /\ QuarInv'
      BY <1>3, SweepInv, JobStepInv, ProcStepInv, SlotStepInv DEF Next
    <2> QED BY <1>1, <2>1 DEF IInv
  <1> QED BY <1>2, <1>3

\* The inductive invariant: whatever the number of processes and slots, the driver,
\* the crashes, the lost calls and the undecodable payloads, a goroutine between
\* claim and outcome write is the only one on its job, and the job_queue row still
\* shows its attempt, as long as no lease of a live worker lapses.
THEOREM Invariant ==
  ASSUME MaxStale = 0
  PROVE  Spec => []IInv
  <1>1. IInv /\ [Next]_vars => IInv'
    BY NextInv
  <1> QED BY <1>1, InitInv, PTL DEF Spec

\* Handlers of one key, and of one job, never overlap (jobs.go:63) as long as no
\* lease of a live worker lapses.
THEOREM Exclusion ==
  ASSUME MaxStale = 0
  PROVE  Spec => []HandlersExclusive
  <1>1. IInv => HandlersExclusive
    <2> SUFFICES ASSUME IInv, NEW s \in Slots, NEW t \in Slots, NEW j \in Jobs, NEW k \in Jobs,
                        s # t, Owns(s, j), Owns(t, k)
                 PROVE  j # k /\ ~SameKey(j, k)
      BY DEF HandlersExclusive
    <2>1. j # k /\ j \in Running /\ k \in Running
      BY DEF Owns, IInv, OwnersInv, HasRow, Running
    <2> QED BY <2>1 DEF IInv, OneRunningPerKey
  <1> QED BY <1>1, Invariant, PTL

\* A job's handler starts at most MaxRetry times (Dequeue's attempt count, Nack's
\* bound, the sweep's bound and Requeue's refund together), under the same condition.
THEOREM Budget ==
  ASSUME MaxStale = 0
  PROVE  Spec => []RunBudget
  <1>1. IInv => RunBudget
    <2> SUFFICES ASSUME IInv, NEW j \in Jobs
                 PROVE  starts[j] <= MaxRetry[j]
      BY DEF RunBudget
    <2>1. /\ starts[j] \in Nat /\ MaxRetry[j] \in Nat /\ row[j].attempts \in Nat
          /\ starts[j] <= row[j].attempts /\ row[j].attempts <= MaxRetry[j]
      BY DEF IInv, TypeOK, Row, RowsInv
    <2> QED BY <2>1
  <1> QED BY <1>1, Invariant, PTL

\* The changes of status a step may make to the row of one job.
Moves(j) == \/ SameStatus(j)
            \/ row[j].status = "absent" /\ row'[j].status \in Waiting
            \/ row[j].status \in Waiting /\ row'[j].status \in {"running"} \cup Terminal
            \/ row[j].status = "running" /\ row'[j].status \in Waiting \cup Terminal

\* A statement on row j whose status moves as Moves allows.
LEMMA OnlyRowMoves ==
  ASSUME NEW j \in Jobs, OnlyRow(j), Moves(j)
  PROVE  \A k \in Jobs : Moves(k)
  BY DEF OnlyRow, Moves, SameStatus

\* Steps of one goroutine move rows as Moves allows.
LEMMA SlotStepMoves ==
  ASSUME IInv, NEW s \in Slots, SlotStep(s)
  PROVE  \A k \in Jobs : Moves(k)
  <1> USE DEF queueVars
  <1>t. TypeOK
    BY DEF IInv
  <1>1. ASSUME slot[s].ph \in Owning, OnlyRow(slot[s].job),
               row'[slot[s].job].status \in Waiting \cup Terminal
        PROVE  \A k \in Jobs : Moves(k)
    BY <1>1, OwnedJob, OnlyRowMoves DEF Moves
  <1>2. ASSUME row' = row
        PROVE  \A k \in Jobs : Moves(k)
    BY <1>2 DEF Moves, SameStatus
  <1>3. CASE RequeueUnhandled(s)
    <2> DEFINE n == IF slot[s].att > 0 THEN slot[s].att - 1 ELSE slot[s].att
    <2>1. slot[s].ph \in Owning /\ Requeue(slot[s].job, n, slot[s].unh + 1)
      BY <1>3 DEF RequeueUnhandled, Dispatched, Owning
    <2>2. n \in Nat /\ slot[s].unh + 1 \in Nat /\ slot[s].job \in Jobs
      BY <2>1, OwnedJob
    <2> HIDE DEF n
    <2>3. Written(slot[s].job) /\ row'[slot[s].job].status = "enqueued"
      BY <1>t, <2>1, <2>2, RequeueRow
    <2>4. OnlyRow(slot[s].job) /\ row'[slot[s].job].status \in Waiting \cup Terminal
      BY <2>3 DEF Written, Waiting
    <2> QED BY <1>1, <2>1, <2>4
  <1>4. CASE Renew(s)
    <2>1. slot[s].ph \in Owning /\ row[slot[s].job].lease # "held"
      BY <1>4 DEF Renew, Owning
    <2> QED BY <2>1, OwnedJob
  <1>5. CASE AckJob(s)
    <2>1. slot[s].ph \in Owning /\ Ack(slot[s].job)
      BY <1>5 DEF AckJob, Owning
    <2>2. OnlyRow(slot[s].job) /\ row'[slot[s].job].status \in Waiting \cup Terminal
      BY <1>t, <2>1, OwnedJob, AckRow DEF Written, Terminal
    <2> QED BY <1>1, <2>1, <2>2
  <1>6. CASE NackUpdate(s)
    <2>1. slot[s].ph \in Owning /\ NackWrite(slot[s].job, slot[s].seen)
          /\ slot[s].ph = "nacking"
      BY <1>6 DEF NackUpdate, Owning
    <2>2. OnlyRow(slot[s].job) /\ row'[slot[s].job].status \in Waiting \cup Terminal
      BY <1>t, <2>1, OwnedJob, NackRow DEF Written, Waiting
    <2> QED BY <1>1, <2>1, <2>2
  <1>7. CASE MarkDead(s)
    <2>1. slot[s].ph \in Owning /\ Dead(slot[s].job)
      BY <1>7 DEF MarkDead, Owning
    <2>2. OnlyRow(slot[s].job) /\ row'[slot[s].job].status \in Waiting \cup Terminal
      BY <1>t, <2>1, OwnedJob, DeadRow DEF Written, Terminal
    <2> QED BY <1>1, <2>1, <2>2
  <1>8. CASE RouteToDLQ(s)
    <2>1. PICK d \in FreshCopies(slot[s].job) : Enqueue(d, TRUE, slot[s].unh)
      BY <1>8 DEF RouteToDLQ
    <2>2. d \in Jobs /\ slot[s].unh \in Nat
      BY <1>t, <2>1 DEF FreshCopies, TypeOK, Task
    <2>3. OnlyRow(d) /\ Moves(d)
      BY <1>t, <2>1, <2>2, EnqueueRow DEF Written, Moves, Waiting
    <2> QED BY <2>2, <2>3, OnlyRowMoves
  <1>9. CASE \/ StartHandler(s) \/ GiveUpUnhandled(s) \/ HandlerSucceeds(s)
             \/ HandlerFails(s) \/ NackSelect(s) \/ DLQFull(s) \/ WriteFails(s)
    BY <1>2, <1>9 DEF StartHandler, GiveUpUnhandled, HandlerSucceeds, HandlerFails,
       NackSelect, DLQFull, WriteFails
  <1> QED BY <1>3, <1>4, <1>5, <1>6, <1>7, <1>8, <1>9 DEF SlotStep

\* So do those of producers, operators and the clock,
LEMMA JobStepMoves ==
  ASSUME IInv, NEW j \in Jobs, JobStep(j)
  PROVE  \A k \in Jobs : Moves(k)
  <1>t. TypeOK
    BY DEF IInv
  <1> SUFFICES OnlyRow(j) /\ Moves(j)
    BY OnlyRowMoves
  <1> USE DEF Written, Moves
  <1>1. CASE \E due \in BOOLEAN : Submit(j, due)
    BY <1>t, <1>1, EnqueueRow DEF Submit, Waiting
  <1>2. CASE CancelJob(j)
    BY <1>t, <1>2, CancelRow DEF CancelJob, Terminal
  <1>3. CASE OrphanLapses(j) \/ LiveLeaseLapses(j)
    BY <1>t, <1>3, LapseRow DEF OrphanLapses, LiveLeaseLapses
  <1>4. CASE DelayEnds(j)
    BY <1>t, <1>4, DueRow DEF DelayEnds
  <1> QED BY <1>1, <1>2, <1>3, <1>4 DEF JobStep

\* and those of one process.
LEMMA ProcStepMoves ==
  ASSUME IInv, NEW p \in Procs, ProcStep(p)
  PROVE  \A k \in Jobs : Moves(k)
  <1> USE DEF queueVars
  <1>t. TypeOK /\ LocksInv
    BY DEF IInv
  <1>1. CASE Dequeue(p) \/ DequeueLost(p)
    <2>1. PICK C \in SUBSET Jobs : ClaimStep(p, C)
      BY <1>t, <1>1, DequeueSlots DEF DequeueLost
    <2>2. \A k \in C : row[k].status \in Waiting /\ row'[k].status = "running"
      BY <1>t, <2>1, ClaimRows
    <2>3. \A k \in Jobs \ C : row'[k] = row[k]
      BY <1>t, <2>1, ClaimRows
    <2> QED BY <2>2, <2>3 DEF Moves, SameStatus
  <1>2. CASE \E j \in Jobs : QuarantineRow(p, j)
    <2>1. PICK j \in Jobs : QuarantineRow(p, j)
      BY <1>2
    <2>2. OnlyRow(j) /\ row'[j].status = "dead" /\ row[j].status = "running"
      BY <1>t, <2>1, QuarantineRowEffect DEF QuarantineRow, Written, IInv, QuarInv
    <2> QED BY <2>2, OnlyRowMoves DEF Moves, Terminal
  <1>3. CASE \/ Lock(p) \/ Conflict(p) \/ ClaimAborted(p) \/ StopRun(p) \/ Exit(p)
             \/ Crash(p) \/ Restart(p) \/ \E j \in Jobs : QuarantineFails(p, j)
    <2>1. row' = row
      BY <1>3 DEF QuarantineFails, Lock, Conflict, ClaimAborted, StopRun, Exit, Crash, Restart, PGLock,
         PGConflict, PGRollback
    <2> QED BY <2>1 DEF Moves, SameStatus
  <1> QED BY <1>1, <1>2, <1>3 DEF ProcStep

\* From a state of the invariant every step moves every row as Moves allows.
LEMMA NextMoves == IInv /\ [Next]_vars => \A k \in Jobs : Moves(k)
  <1> SUFFICES ASSUME IInv, [Next]_vars PROVE \A k \in Jobs : Moves(k)
    OBVIOUS
  <1>1. CASE UNCHANGED vars
    BY <1>1 DEF vars, Moves, SameStatus
  <1>2. CASE Sweep
    <2>1. TypeOK /\ ReclaimExpired
      BY <1>2 DEF IInv, Sweep
    <2> QED BY <2>1, SweepRows DEF Moves, SameStatus, Waiting, Terminal
  <1> QED BY <1>1, <1>2, JobStepMoves, ProcStepMoves, SlotStepMoves DEF Next

\* No statement moves a finished row, although Ack, Dead, Nack, Requeue and
\* quarantine name rows by id alone (queue.go), under the same condition.
THEOREM Finality ==
  ASSUME MaxStale = 0
  PROVE  Spec => FinishedStays
  <1>1. IInv /\ [Next]_vars =>
          [\A j \in Jobs : row[j].status \in Terminal => row'[j].status = row[j].status]_vars
    BY NextMoves DEF Moves, SameStatus, Waiting, Terminal
  <1> QED BY <1>1, Invariant, PTL DEF Spec, FinishedStays

\* A handler starts only on a running row, within its budget.
LEMMA StartsAllowed ==
  ASSUME IInv, [Next]_vars
  PROVE  \/ starts' = starts
         \/ \E j \in Jobs : /\ row[j].status = "running" /\ starts[j] < MaxRetry[j]
                            /\ starts' = [starts EXCEPT ![j] = @ + 1]
                            /\ row' = row
  <1> USE DEF historyVars, faultVars
  <1>1. CASE UNCHANGED vars
    BY <1>1 DEF vars
  <1>2. CASE Sweep
    BY <1>2 DEF Sweep
  <1>3. ASSUME NEW j \in Jobs, JobStep(j) PROVE starts' = starts
    BY <1>3 DEF JobStep, Submit, CancelJob, OrphanLapses, LiveLeaseLapses, DelayEnds
  <1>4. ASSUME NEW p \in Procs, ProcStep(p) PROVE starts' = starts
    BY <1>4 DEF ProcStep, Lock, Conflict, ClaimAborted, Dequeue, DequeueLost, QuarantineRow,
       QuarantineFails, StopRun, Exit, Crash, Restart
  <1>5. ASSUME NEW s \in Slots, SlotStep(s), ~StartHandler(s) PROVE starts' = starts
    BY <1>5 DEF SlotStep, RequeueUnhandled, GiveUpUnhandled, Renew, HandlerSucceeds,
       HandlerFails, AckJob, NackSelect, NackUpdate, MarkDead, RouteToDLQ, DLQFull, WriteFails
  <1>6. ASSUME NEW s \in Slots, StartHandler(s)
        PROVE  \E j \in Jobs : /\ row[j].status = "running" /\ starts[j] < MaxRetry[j]
                              /\ starts' = [starts EXCEPT ![j] = @ + 1]
                              /\ row' = row
    <2>1. /\ slot[s].ph = "claimed" /\ slot[s].ph \in Owning
          /\ starts' = [starts EXCEPT ![slot[s].job] = @ + 1] /\ row' = row
      BY <1>6 DEF StartHandler, Dispatched, Owning, queueVars
    <2>2. /\ slot[s].job \in Jobs /\ row[slot[s].job].status = "running"
          /\ starts[slot[s].job] < MaxRetry[slot[s].job]
      BY <2>1, OwnedJob
    <2> QED BY <2>1, <2>2
  <1> QED BY <1>1, <1>2, <1>3, <1>4, <1>5, <1>6 DEF Next

\* The abstract state of a job, case by case.
LEMMA LifeOf ==
  ASSUME TypeOK, NEW j \in Jobs
  PROVE  /\ row[j].status = "absent" => Life[j] = "absent"
         /\ row[j].status \in Waiting => Life[j] = "waiting"
         /\ row[j].status = "running" => Life[j] = "active"
         /\ row[j].status \in Terminal => Life[j] = "finished"
         /\ row[j].status \in {"absent", "running"} \cup Waiting \cup Terminal
  BY DEF TypeOK, Row, Life, Waiting, Terminal

\* A move of the row is a move of JobLifecycle.
LEMMA LifeMoves ==
  ASSUME TypeOK, TypeOK', NEW j \in Jobs, Moves(j)
  PROVE  Life'[j] \in Lifecycle!After(Life[j])
  <1> DEFINE x == row[j].status
             y == row'[j].status
  <1>1. /\ x = "absent" => Life[j] = "absent"
        /\ x \in Waiting => Life[j] = "waiting"
        /\ x = "running" => Life[j] = "active"
        /\ x \in Terminal => Life[j] = "finished"
        /\ x \in {"absent", "running"} \cup Waiting \cup Terminal
    BY LifeOf
  <1>2. /\ y = "absent" => Life'[j] = "absent"
        /\ y \in Waiting => Life'[j] = "waiting"
        /\ y = "running" => Life'[j] = "active"
        /\ y \in Terminal => Life'[j] = "finished"
    BY DEF TypeOK, Row, Life, Waiting, Terminal
  <1>3. \/ y = x
        \/ x = "absent" /\ y \in Waiting
        \/ x \in Waiting /\ y \in {"running"} \cup Terminal
        \/ x = "running" /\ y \in Waiting \cup Terminal
    BY DEF Moves, SameStatus
  <1> HIDE DEF x, y
  <1> QED BY <1>1, <1>2, <1>3 DEF Lifecycle!After

\* The queue and its workers implement the lifecycle jobs.go promises, under the
\* same condition.
THEOREM Refinement ==
  ASSUME MaxStale = 0
  PROVE  Spec => ImplementsLifecycle
  <1>1. Init => Lifecycle!Init
    <2> SUFFICES ASSUME Init PROVE Lifecycle!Init
      OBVIOUS
    <2>1. \A j \in Jobs : row[j].status = "absent"
      BY DEF Init, QInit, Absent
    <2>2. \A j \in Jobs : Life[j] = "absent"
      BY <2>1, InitType, LifeOf
    <2>3. Life = [j \in Jobs |-> Life[j]]
      <3> DEFINE L(j) == CASE row[j].status = "absent"   -> "absent"
                           [] row[j].status \in Waiting  -> "waiting"
                           [] row[j].status = "running"  -> "active"
                           [] row[j].status \in Terminal -> "finished"
      <3>1. Life = [j \in Jobs |-> L(j)]
        BY Zenon DEF Life
      <3> HIDE DEF L
      <3> QED BY <3>1
    <2>4. starts = [j \in Jobs |-> 0]
      BY DEF Init
    <2> QED BY <2>2, <2>3, <2>4 DEF Lifecycle!Init
  <1>2. IInv /\ IInv' /\ [Next]_vars => [Lifecycle!Next]_<<Life, starts>>
    <2> SUFFICES ASSUME IInv, IInv', [Next]_vars
                 PROVE  Lifecycle!Next \/ UNCHANGED <<Life, starts>>
      OBVIOUS
    <2>t. TypeOK /\ TypeOK'
      BY DEF IInv
    <2>1. CASE starts' = starts
      <3>1. \A j \in Jobs : Life'[j] \in Lifecycle!After(Life[j])
        BY <2>t, NextMoves, LifeMoves
      <3>2. Lifecycle!Exclusive'
        <4>1. \A j \in Jobs : Life'[j] = "active" => row'[j].status = "running"
          BY <2>t DEF TypeOK, Row, Life, Waiting, Terminal
        <4>2. OneRunningPerKey'
          BY DEF IInv
        <4> QED BY <4>1, <4>2 DEF Lifecycle!Exclusive, OneRunningPerKey, Running, SameKey
      <3> QED BY <2>1, <3>1, <3>2 DEF Lifecycle!Next, Lifecycle!Move
    <2>2. CASE starts' # starts
      <3>1. PICK j \in Jobs : /\ row[j].status = "running" /\ starts[j] < MaxRetry[j]
                              /\ starts' = [starts EXCEPT ![j] = @ + 1]
                              /\ row' = row
        BY <2>2, StartsAllowed
      <3>2. Life[j] = "active" /\ Life' = Life
        BY <2>t, <3>1, LifeOf DEF Life
      <3> QED BY <3>1, <3>2 DEF Lifecycle!Next, Lifecycle!Start
    <2> QED BY <2>1, <2>2
  <1> QED BY <1>1, <1>2, Invariant, PTL DEF Spec, ImplementsLifecycle, Lifecycle!Spec

\* Without crashes and lost calls, a job that is done stays kept.
LEMMA KeptStep ==
  ASSUME IInv, TypeOK', SuccessIsKept, [Next]_vars
  PROVE  SuccessIsKept'
  <1> USE DEF queueVars, faultVars, historyVars, workerVars
  <1>t. TypeOK
    BY DEF IInv
  <1> SUFFICES ASSUME crashes' = 0, lost' = 0, NEW i \in done'
               PROVE  \/ row'[i].status = "succeeded"
                      \/ \E s \in Slots : Owns(s, i)' /\ slot'[s].ph = "succeeded"
    BY DEF SuccessIsKept
  <1>i. i \in Jobs
    BY DEF TypeOK
  <1>m. row[i].status = "succeeded" => row'[i].status = "succeeded"
    BY <1>i, NextMoves DEF Moves, SameStatus, Waiting, Terminal
  <1>k. ASSUME i \in done, crashes = 0, lost = 0,
               \A s \in Slots : slot[s].ph = "succeeded" => slot'[s] = slot[s]
        PROVE  \/ row'[i].status = "succeeded"
               \/ \E s \in Slots : Owns(s, i)' /\ slot'[s].ph = "succeeded"
    BY <1>k, <1>m DEF SuccessIsKept, Owns
  <1>1. CASE UNCHANGED vars
    BY <1>1, <1>k DEF vars
  <1>2. CASE Sweep
    BY <1>2, <1>k DEF Sweep
  <1>3. ASSUME NEW j \in Jobs, JobStep(j)
        PROVE  slot' = slot /\ done' = done /\ crashes' = crashes /\ lost' = lost
    BY <1>3 DEF JobStep, Submit, CancelJob, OrphanLapses, LiveLeaseLapses, DelayEnds
  <1>4. ASSUME NEW p \in Procs, ProcStep(p)
        PROVE  /\ i \in done /\ crashes = 0 /\ lost = 0
               /\ \A s \in Slots : slot[s].ph = "succeeded" => slot'[s] = slot[s]
    <2>0. crashes \in Nat /\ lost \in Nat
      BY <1>t DEF TypeOK
    <2>1. CASE Dequeue(p)
      BY <1>t, <2>1, DequeueSlots DEF Dequeue, IInv
    <2>2. CASE ~Dequeue(p)
      BY <1>4, <2>0, <2>2 DEF ProcStep, Lock, Conflict, ClaimAborted, DequeueLost,
         QuarantineRow, QuarantineFails, StopRun, Exit, Crash, Restart
    <2> QED BY <2>1, <2>2
  <1>5. ASSUME NEW s \in Slots, SlotStep(s)
        PROVE  \/ row'[i].status = "succeeded"
               \/ \E t \in Slots : Owns(t, i)' /\ slot'[t].ph = "succeeded"
    <2>0. crashes \in Nat /\ lost \in Nat
      BY <1>t DEF TypeOK
    <2>1. CASE AckJob(s)
      <3>1. /\ slot[s].ph = "succeeded" /\ slot[s].ph \in Owning
            /\ Ack(slot[s].job) /\ Release(s)
            /\ done' = done /\ crashes' = crashes /\ lost' = lost
        BY <2>1 DEF AckJob, Owning
      <3>2. slot[s].job \in Jobs /\ row'[slot[s].job].status = "succeeded"
        BY <1>t, <3>1, OwnedJob, AckRow
      <3>3. \A t \in Slots \ {s} : slot'[t] = slot[t]
        BY <1>t, <3>1, ReleaseSlot
      <3> QED BY <1>m, <3>1, <3>2, <3>3 DEF SuccessIsKept, Owns
    <2>2. CASE HandlerSucceeds(s)
      <3>1. /\ slot[s].ph = "handling" /\ slot[s].ph # "idle" /\ Goto(s, "succeeded")
            /\ "succeeded" \in Owning
            /\ done' = done \cup {slot[s].job} /\ crashes' = crashes /\ lost' = lost
        BY <2>2 DEF HandlerSucceeds, Owning
      <3>2. /\ \A t \in Slots \ {s} : slot'[t] = slot[t]
            /\ slot'[s].ph = "succeeded" /\ slot'[s].job = slot[s].job
        BY <1>t, <3>1, GotoSlot
      <3>3. CASE i = slot[s].job
        BY <3>1, <3>2, <3>3 DEF Owns
      <3>4. CASE i # slot[s].job
        BY <1>m, <3>1, <3>2, <3>4 DEF SuccessIsKept, Owns
      <3> QED BY <3>3, <3>4
    <2>3. CASE ~AckJob(s) /\ ~HandlerSucceeds(s)
      <3>2. ~WriteFails(s)
        BY <2>0 DEF WriteFails
      <3>1. done' = done /\ crashes' = crashes /\ lost' = lost
        BY <1>5, <2>3, <3>2 DEF SlotStep, StartHandler, RequeueUnhandled, GiveUpUnhandled,
           Renew, HandlerFails, NackSelect, NackUpdate, MarkDead, RouteToDLQ, DLQFull
      <3>3. /\ slot[s].ph # "succeeded" \/ slot' = slot
            /\ slot' = slot \/ (\E x : slot' = [slot EXCEPT ![s] = x])
        BY <1>5, <2>3, <3>2 DEF SlotStep, StartHandler, RequeueUnhandled, GiveUpUnhandled,
           Renew, HandlerFails, NackSelect, NackUpdate, MarkDead, RouteToDLQ, DLQFull,
           Dispatched, Goto, Release, AfterDead
      <3>4. \A t \in Slots : slot[t].ph = "succeeded" => slot'[t] = slot[t]
        BY <1>t, <3>3 DEF TypeOK
      <3> QED BY <1>k, <3>1, <3>4
    <2> QED BY <2>1, <2>2, <2>3
  <1> QED BY <1>k, <1>1, <1>2, <1>3, <1>4, <1>5 DEF Next

\* Without crashes and lost calls every success is acknowledged, draining included
\* (worker.go, terminalContext), under the same condition.
THEOREM NothingLost ==
  ASSUME MaxStale = 0
  PROVE  Spec => []SuccessIsKept
  <1>1. Init => SuccessIsKept
    BY DEF Init, SuccessIsKept
  <1>2. IInv /\ IInv' /\ SuccessIsKept /\ [Next]_vars => SuccessIsKept'
    BY KeptStep DEF IInv
  <1> QED BY <1>1, <1>2, Invariant, PTL DEF Spec

-----------------------------------------------------------------------------
(* The hand-on counter, whatever the faults: nothing but Requeue raises the  *)
(* counter of a submitted job, by one at a time.                             *)

\* The counter in a row's headers, and the one a goroutine dequeued with it, are
\* covered by the requeues that happened.
CountedInv ==
  /\ \A j \in Jobs \ DLQIds : row[j].unhandled <= requeued[j]
  /\ \A s \in Slots : slot[s].ph # "idle" /\ slot[s].job \notin DLQIds =>
                        slot[s].unh <= requeued[slot[s].job]

\* A step that requeues nothing, writes no counter of a submitted job but a fresh
\* one, and moves goroutines on or gives them the counter of their row, keeps it.
LEMMA CountsKeep ==
  ASSUME TypeOK, CountedInv, requeued' = requeued,
         \A j \in Jobs \ DLQIds : SameCount(j) \/ row'[j].unhandled = 0,
         \A s \in Slots :
           \/ slot'[s].ph = "idle"
           \/ /\ slot[s].ph # "idle"
              /\ slot'[s].job = slot[s].job /\ slot'[s].unh = slot[s].unh
           \/ slot'[s].job \in Jobs /\ slot'[s].unh = row[slot'[s].job].unhandled
  PROVE  CountedInv'
  <1>1. \A j \in Jobs : requeued[j] \in Nat
    BY DEF TypeOK
  <1>2. \A j \in Jobs \ DLQIds : row'[j].unhandled <= requeued[j]
    BY <1>1 DEF CountedInv, SameCount
  <1>3. \A s \in Slots : slot'[s].ph # "idle" /\ slot'[s].job \notin DLQIds =>
                           slot'[s].unh <= requeued[slot'[s].job]
    BY DEF CountedInv
  <1> QED BY <1>2, <1>3 DEF CountedInv

\* Steps of one goroutine keep it.
LEMMA SlotStepCounts ==
  ASSUME TypeOK, CountedInv, NEW s \in Slots, SlotStep(s)
  PROVE  CountedInv'
  <1> USE DEF queueVars, faultVars, historyVars, workerVars
  <1>0. slot[s].ph # "idle" => slot[s].job \in Jobs
    BY DEF TypeOK
  <1>a. slot[s].att \in Nat /\ slot[s].unh \in Nat /\ slot[s].seen \in Nat
    BY DEF TypeOK, Task
  <1>n. \A t \in Slots : slot[t].ph # "idle" => slot[t].job \in Jobs
    BY DEF TypeOK
  <1>g. ASSUME NEW ph \in Owning \cup {"dlq"}, slot[s].ph # "idle", Goto(s, ph) \/ Release(s),
               requeued' = requeued,
               \A j \in Jobs \ DLQIds : SameCount(j) \/ row'[j].unhandled = 0
        PROVE  CountedInv'
    <2>1. \A t \in Slots \ {s} : slot'[t] = slot[t]
      BY <1>g, GotoSlot, ReleaseSlot
    <2>2. \/ slot'[s].ph = "idle"
          \/ slot'[s].job = slot[s].job /\ slot'[s].unh = slot[s].unh
      BY <1>g, GotoSlot, ReleaseSlot
    <2> QED BY <1>g, <2>1, <2>2, CountsKeep
  <1>r. ASSUME row' = row
        PROVE  \A j \in Jobs \ DLQIds : SameCount(j) \/ row'[j].unhandled = 0
    BY <1>r DEF SameCount
  <1>w. ASSUME NEW j \in Jobs, OnlyRow(j),
               j \in DLQIds \/ SameCount(j) \/ row'[j].unhandled = 0
        PROVE  \A k \in Jobs \ DLQIds : SameCount(k) \/ row'[k].unhandled = 0
    BY <1>w DEF OnlyRow, SameCount
  <1>1. CASE StartHandler(s)
    BY <1>1, <1>g, <1>r DEF StartHandler, Dispatched, Owning
  <1>2. CASE RequeueUnhandled(s)
    <2> DEFINE n == IF slot[s].att > 0 THEN slot[s].att - 1 ELSE slot[s].att
               j == slot[s].job
    <2>1. /\ slot[s].ph # "idle" /\ Requeue(j, n, slot[s].unh + 1) /\ Release(s)
          /\ requeued' = [requeued EXCEPT ![j] = @ + 1]
      BY <1>2 DEF RequeueUnhandled, Dispatched
    <2>2. n \in Nat /\ slot[s].unh + 1 \in Nat /\ j \in Jobs
      BY <1>0, <1>a, <2>1
    <2> HIDE DEF n
    <2>3. OnlyRow(j) /\ row'[j].unhandled = slot[s].unh + 1
      BY <2>1, <2>2, RequeueRow DEF Written
    <2>4. /\ \A t \in Slots \ {s} : slot'[t] = slot[t]
          /\ slot'[s].ph = "idle"
      BY <2>1, ReleaseSlot
    <2>5. \A k \in Jobs : requeued[k] \in Nat /\ requeued'[k] \in Nat
      BY <2>1, <2>2 DEF TypeOK
    <2>6. /\ requeued'[j] = requeued[j] + 1
          /\ \A k \in Jobs \ {j} : requeued'[k] = requeued[k]
      BY <2>1, <2>2 DEF TypeOK
    <2>7. ASSUME NEW k \in Jobs \ DLQIds
          PROVE  row'[k].unhandled <= requeued'[k]
      <3>1. CASE k = j
        <4>1. slot[s].unh <= requeued[j]
          BY <2>1, <3>1 DEF CountedInv
        <4>2. row'[k].unhandled <= requeued[j] + 1
          BY <1>a, <2>2, <2>3, <2>5, <3>1, <4>1
        <4> QED BY <2>6, <3>1, <4>2
      <3>2. CASE k # j
        BY <2>3, <2>6, <3>2 DEF OnlyRow, CountedInv
      <3> QED BY <3>1, <3>2
    <2>8. ASSUME NEW t \in Slots, slot'[t].ph # "idle", slot'[t].job \notin DLQIds
          PROVE  slot'[t].unh <= requeued'[slot'[t].job]
      <3> DEFINE k == slot[t].job
      <3>1. /\ slot'[t] = slot[t] /\ k \in Jobs /\ slot[t].unh <= requeued[k]
            /\ slot[t].unh \in Nat
        BY <2>4, <2>8, <1>n DEF CountedInv, TypeOK, Task
      <3>2. slot[t].unh <= requeued[k] + 1
        BY <2>5, <3>1
      <3> QED BY <2>6, <3>1, <3>2
    <2> QED BY <2>7, <2>8 DEF CountedInv
  <1>3. CASE GiveUpUnhandled(s)
    BY <1>3, <1>g, <1>r DEF GiveUpUnhandled, Dispatched, Owning
  <1>4. CASE Renew(s)
    <2>1. slot' = slot /\ requeued' = requeued
      BY <1>4 DEF Renew
    <2>2. slot[s].job \in Jobs /\ OnlyRow(slot[s].job) /\ SameCount(slot[s].job)
      BY <1>0, <1>4, RenewRow DEF Renew, Written
    <2> QED BY <1>w, <2>1, <2>2, CountsKeep
  <1>5. CASE HandlerSucceeds(s)
    BY <1>5, <1>g, <1>r DEF HandlerSucceeds, Owning
  <1>6. CASE HandlerFails(s)
    <2>1. (IF slot[s].att >= MaxRetry[slot[s].job] THEN "dying" ELSE "failed") \in Owning
      BY DEF Owning
    <2> QED BY <1>6, <1>g, <1>r, <2>1 DEF HandlerFails
  <1>7. CASE AckJob(s)
    <2>1. slot[s].job \in Jobs /\ OnlyRow(slot[s].job) /\ SameCount(slot[s].job)
      BY <1>0, <1>7, AckRow DEF AckJob, Written
    <2> QED BY <1>7, <1>g, <1>w, <2>1 DEF AckJob
  <1>8. CASE NackSelect(s)
    <2>1. \A t \in Slots : \/ slot'[t] = slot[t]
                           \/ /\ slot'[t].job = slot[t].job /\ slot'[t].unh = slot[t].unh
                              /\ slot[t].ph # "idle"
      BY <1>8, NackSelectSlot DEF NackSelect
    <2> QED BY <1>8, <1>r, <2>1, CountsKeep DEF NackSelect
  <1>9. CASE NackUpdate(s)
    <2>1. slot[s].job \in Jobs /\ OnlyRow(slot[s].job) /\ SameCount(slot[s].job)
      BY <1>0, <1>a, <1>9, NackRow DEF NackUpdate, Written
    <2> QED BY <1>9, <1>g, <1>w, <2>1 DEF NackUpdate
  <1>10. CASE MarkDead(s)
    <2>1. slot[s].job \in Jobs /\ OnlyRow(slot[s].job) /\ SameCount(slot[s].job)
      BY <1>0, <1>10, DeadRow DEF MarkDead, Written
    <2> QED BY <1>10, <1>g, <1>w, <2>1 DEF MarkDead, AfterDead
  <1>11. CASE RouteToDLQ(s)
    <2>1. PICK d \in FreshCopies(slot[s].job) : Enqueue(d, TRUE, slot[s].unh)
      BY <1>11 DEF RouteToDLQ
    <2>2. d \in Jobs /\ d \in DLQIds
      BY <2>1 DEF FreshCopies
    <2>3. OnlyRow(d)
      BY <1>a, <2>1, <2>2, EnqueueRow DEF Written
    <2> QED BY <1>11, <1>g, <1>w, <2>2, <2>3 DEF RouteToDLQ
  <1>12. CASE DLQFull(s)
    BY <1>12, <1>g, <1>r DEF DLQFull
  <1>13. CASE WriteFails(s)
    BY <1>13, <1>g, <1>r DEF WriteFails, AfterDead, Dispatched
  <1> QED BY <1>1, <1>2, <1>3, <1>4, <1>5, <1>6, <1>7, <1>8, <1>9, <1>10, <1>11, <1>12,
             <1>13 DEF SlotStep

\* Every step keeps it.
LEMMA NextCounts ==
  ASSUME TypeOK, LocksInv, CountedInv, [Next]_vars
  PROVE  CountedInv'
  <1> USE DEF queueVars, faultVars, historyVars, workerVars
  <1>q. ASSUME slot' = slot \/ (\A s \in Slots : slot'[s] = slot[s] \/ slot'[s] = Idle),
               requeued' = requeued, \A j \in Jobs : SameCount(j) \/ row'[j].unhandled = 0
        PROVE  CountedInv'
    BY <1>q, CountsKeep DEF Idle
  <1>w. ASSUME NEW j \in Jobs, OnlyRow(j), SameCount(j) \/ row'[j].unhandled = 0
        PROVE  \A k \in Jobs : SameCount(k) \/ row'[k].unhandled = 0
    BY <1>w DEF OnlyRow, SameCount
  <1>r. ASSUME row' = row
        PROVE  \A j \in Jobs : SameCount(j) \/ row'[j].unhandled = 0
    BY <1>r DEF SameCount
  <1>1. CASE UNCHANGED vars
    BY <1>1, <1>q, <1>r DEF vars
  <1>2. CASE Sweep
    BY <1>2, <1>q, SweepRows DEF Sweep
  <1>3. ASSUME NEW j \in Jobs, JobStep(j)
        PROVE  CountedInv'
    <2>1. slot' = slot /\ requeued' = requeued
      BY <1>3 DEF JobStep, Submit, CancelJob, OrphanLapses, LiveLeaseLapses, DelayEnds
    <2>2. CASE \E due \in BOOLEAN : Submit(j, due)
      BY <1>q, <1>w, <2>1, <2>2, EnqueueRow DEF Submit, Written
    <2>3. CASE CancelJob(j)
      BY <1>q, <1>w, <2>1, <2>3, CancelRow DEF CancelJob, Written
    <2>4. CASE OrphanLapses(j) \/ LiveLeaseLapses(j)
      BY <1>q, <1>w, <2>1, <2>4, LapseRow DEF OrphanLapses, LiveLeaseLapses
    <2>5. CASE DelayEnds(j)
      BY <1>q, <1>w, <2>1, <2>5, DueRow DEF DelayEnds
    <2> QED BY <1>3, <2>2, <2>3, <2>4, <2>5 DEF JobStep
  <1>4. ASSUME NEW p \in Procs, ProcStep(p)
        PROVE  CountedInv'
    <2>1. CASE Dequeue(p)
      <3>1. requeued' = requeued
        BY <2>1 DEF Dequeue
      <3>2. PICK C \in SUBSET Jobs :
              /\ ClaimStep(p, C)
              /\ \A s \in Slots : \/ slot'[s] = slot[s]
                                   \/ /\ slot'[s].job \in C \ Undecodable[p]
                                      /\ slot'[s].unh = row[slot'[s].job].unhandled
        BY <2>1, DequeueSlots
      <3>3. \A j \in Jobs : SameCount(j)
        BY <3>2, ClaimRows
      <3> QED BY <3>1, <3>2, <3>3, CountsKeep
    <2>2. CASE DequeueLost(p)
      BY <1>q, <2>2, ClaimRows DEF DequeueLost
    <2>3. CASE \E j \in Jobs : QuarantineRow(p, j)
      BY <1>q, <1>w, <2>3, QuarantineRowEffect DEF QuarantineRow, Written
    <2>4. CASE Crash(p)
      BY <1>q, <1>r, <2>4 DEF Crash
    <2>5. CASE \/ Lock(p) \/ Conflict(p) \/ ClaimAborted(p) \/ StopRun(p) \/ Exit(p)
               \/ Restart(p) \/ \E j \in Jobs : QuarantineFails(p, j)
      BY <1>q, <1>r, <2>5 DEF QuarantineFails, Lock, Conflict, ClaimAborted, StopRun, Exit,
         Restart, PGLock, PGConflict, PGRollback
    <2> QED BY <1>4, <2>1, <2>2, <2>3, <2>4, <2>5 DEF ProcStep
  <1> QED BY <1>1, <1>2, <1>3, <1>4, SlotStepCounts DEF Next

\* A submitted job dies for want of a handler only after MaxUnhandled requeues
\* (worker.go, requeueUnhandled), whatever crashes, is lost or goes stale.
THEOREM HandedOn == Spec => HandedOnBeforeDeath
  <1> DEFINE Inv == TypeOK /\ LocksInv /\ OneRunningPerKey /\ CountedInv
  <1>1. Init => Inv
    BY InitType DEF Init, QInit, LocksInv, OneRunningPerKey, Running, Absent, CountedInv, Idle
  <1>2. Inv /\ [Next]_vars => Inv'
    BY NextType, NextQuiet, NextCounts
  <1>3. Inv => [\A s \in Slots : slot[s].job \notin DLQIds /\ GiveUpUnhandled(s)
                                   => requeued[slot[s].job] >= MaxUnhandled]_vars
    <2> SUFFICES ASSUME Inv, NEW s \in Slots, slot[s].job \notin DLQIds, GiveUpUnhandled(s)
                 PROVE  requeued[slot[s].job] >= MaxUnhandled
      OBVIOUS
    <2>1. slot[s].ph # "idle" /\ slot[s].unh >= MaxUnhandled
      BY DEF GiveUpUnhandled, Dispatched
    <2>2. /\ slot[s].job \in Jobs /\ slot[s].unh \in Nat
          /\ slot[s].unh <= requeued[slot[s].job]
      BY <2>1 DEF TypeOK, Task, CountedInv
    <2>3. requeued[slot[s].job] \in Nat
      BY <2>2 DEF TypeOK
    <2> QED BY <2>1, <2>2, <2>3
  <1> QED BY <1>1, <1>2, <1>3, PTL DEF Spec, HandedOnBeforeDeath

-----------------------------------------------------------------------------
(* Dead letters.  uuid.New never runs out of ids; the model's DLQIds may, and *)
(* then DLQFull drops a copy.  EnoughIds rules that out.                      *)

\* The ids a DLQ copy of j may be given, used or not.
Copies(j) == {d \in DLQIds : GroupOf[d] = GroupOf[j] /\ MaxRetry[d] = MaxRetry[j]}

EnoughIds == \A j \in Jobs : ~IsFiniteSet(Copies(j))

\* The rows inserted so far.
Present == {j \in Jobs : row[j].status # "absent"}

\* The set-aside rows are undecodable ones, and an id that a copy has is taken.
TablesInv ==
  /\ IsFiniteSet(Present)
  /\ \A p \in Procs : quar[p] \subseteq Undecodable[p]
  /\ \A d \in DLQIds : origin[d] # NoJob => d \in Present

Decodable(j) == \A p \in Procs : j \notin Undecodable[p]

Routed(j) == \/ \E e \in DLQIds : origin[e] = j
             \/ \E s \in Slots : slot[s].ph = "dlq" /\ slot[s].job = j

\* A decodable running row has an owner, so that no sweep can end it, and every
\* decodable dead row is routed.
RoutedInv ==
  /\ \A j \in Running : Decodable(j) => \E s \in Slots : Owns(s, j)
  /\ \A j \in Jobs : row[j].status = "dead" /\ Decodable(j) => Routed(j)

NoFault == crashes = 0 /\ lost = 0

\* As long as copies have ids left, one can be enqueued.
LEMMA CopyLeft ==
  ASSUME EnoughIds, IsFiniteSet(Present), NEW j \in Jobs
  PROVE  FreshCopies(j) # {}
  <1> SUFFICES ASSUME FreshCopies(j) = {} PROVE FALSE
    OBVIOUS
  <1>1. Copies(j) \subseteq Present
    BY DEF Copies, FreshCopies, Present
  <1>2. IsFiniteSet(Copies(j))
    BY <1>1, FS_Subset
  <1> QED BY <1>2 DEF EnoughIds

\* What a step of one goroutine does to the table, the origins and the other slots.
LEMMA SlotStepTouches ==
  ASSUME IInv, NEW s \in Slots, SlotStep(s)
  PROVE  /\ row' = row \/ \E j \in Jobs : OnlyRow(j)
         /\ \A t \in Slots \ {s} : slot'[t] = slot[t]
         /\ quar' = quar /\ crashes' = crashes
         /\ \/ origin' = origin
            \/ \E d \in DLQIds : /\ row[d].status = "absent" /\ row'[d].status = "enqueued"
                                 /\ origin' = [origin EXCEPT ![d] = slot[s].job]
  <1> USE DEF queueVars, faultVars, historyVars, workerVars
  <1>t. TypeOK
    BY DEF IInv
  <1>0. slot[s].ph # "idle" => slot[s].job \in Jobs
    BY <1>t DEF TypeOK
  <1>a. slot[s].att \in Nat /\ slot[s].unh \in Nat /\ slot[s].seen \in Nat
    BY <1>t DEF TypeOK, Task
  <1>s. \A x : slot' = [slot EXCEPT ![s] = x] => \A t \in Slots \ {s} : slot'[t] = slot[t]
    BY <1>t DEF TypeOK
  <1>1. CASE \/ StartHandler(s) \/ GiveUpUnhandled(s) \/ HandlerSucceeds(s)
             \/ HandlerFails(s) \/ NackSelect(s) \/ DLQFull(s) \/ WriteFails(s)
    <2>1. row' = row /\ quar' = quar /\ crashes' = crashes /\ origin' = origin
      BY <1>1 DEF StartHandler, GiveUpUnhandled, HandlerSucceeds, HandlerFails, NackSelect,
         DLQFull, WriteFails
    <2>2. \E x : slot' = [slot EXCEPT ![s] = x]
      BY <1>1 DEF StartHandler, GiveUpUnhandled, HandlerSucceeds, HandlerFails, NackSelect,
         DLQFull, WriteFails, Goto, Release, AfterDead
    <2> QED BY <1>s, <2>1, <2>2
  <1>2. CASE RequeueUnhandled(s)
    <2> DEFINE n == IF slot[s].att > 0 THEN slot[s].att - 1 ELSE slot[s].att
               j == slot[s].job
    <2>1. /\ slot[s].ph # "idle" /\ Requeue(j, n, slot[s].unh + 1) /\ Release(s)
          /\ quar' = quar /\ crashes' = crashes /\ origin' = origin
      BY <1>2 DEF RequeueUnhandled, Dispatched
    <2>2. n \in Nat /\ slot[s].unh + 1 \in Nat /\ j \in Jobs
      BY <1>0, <1>a, <2>1
    <2> HIDE DEF n
    <2>3. OnlyRow(j)
      BY <1>t, <2>1, <2>2, RequeueRow DEF Written
    <2> QED BY <1>t, <2>1, <2>2, <2>3, ReleaseSlot
  <1>3. CASE Renew(s) \/ AckJob(s) \/ NackUpdate(s) \/ MarkDead(s)
    <2>1. slot[s].job \in Jobs
      BY <1>0, <1>3 DEF Renew, AckJob, NackUpdate, MarkDead
    <2>2. OnlyRow(slot[s].job)
      BY <1>t, <1>a, <1>3, <2>1, RenewRow, AckRow, NackRow, DeadRow
         DEF Renew, AckJob, NackUpdate, MarkDead, Written
    <2>3. quar' = quar /\ crashes' = crashes /\ origin' = origin
      BY <1>3 DEF Renew, AckJob, NackUpdate, MarkDead
    <2>4. slot' = slot \/ \E x : slot' = [slot EXCEPT ![s] = x]
      BY <1>3 DEF Renew, AckJob, NackUpdate, MarkDead, Goto, Release, AfterDead
    <2> QED BY <1>s, <2>1, <2>2, <2>3, <2>4
  <1>4. CASE RouteToDLQ(s)
    <2>1. PICK d \in FreshCopies(slot[s].job) :
            Enqueue(d, TRUE, slot[s].unh) /\ origin' = [origin EXCEPT ![d] = slot[s].job]
      BY <1>4 DEF RouteToDLQ
    <2>2. d \in Jobs /\ d \in DLQIds
      BY <2>1 DEF FreshCopies
    <2>3. OnlyRow(d) /\ row[d].status = "absent" /\ row'[d].status = "enqueued"
      BY <1>t, <1>a, <2>1, <2>2, EnqueueRow DEF Written
    <2>4. Release(s) /\ quar' = quar /\ crashes' = crashes
      BY <1>4 DEF RouteToDLQ
    <2> QED BY <1>t, <2>1, <2>2, <2>3, <2>4, ReleaseSlot
  <1> QED BY <1>1, <1>2, <1>3, <1>4 DEF SlotStep

\* A step inserts at most one row.
LEMMA OneInserted ==
  ASSUME IInv, [Next]_vars
  PROVE  \E x : Present' \subseteq Present \cup {x}
  <1>t. TypeOK /\ LocksInv
    BY DEF IInv
  <1>1. ASSUME NEW x, \A k \in Jobs \ {x} : row[k].status = "absent" => row'[k].status = "absent"
        PROVE  Present' \subseteq Present \cup {x}
    BY <1>1 DEF Present
  <1>o. ASSUME NEW j \in Jobs, OnlyRow(j)
        PROVE  Present' \subseteq Present \cup {j}
    BY <1>1, <1>o DEF OnlyRow
  <1>r. row' = row => \E x : Present' \subseteq Present \cup {x}
    BY DEF Present
  <1>2. CASE UNCHANGED vars
    BY <1>2, <1>r DEF vars
  <1>3. CASE Sweep
    BY <1>t, <1>1, <1>3, SweepRows DEF Sweep
  <1>4. ASSUME NEW j \in Jobs, JobStep(j)
        PROVE  OnlyRow(j)
    BY <1>t, <1>4, EnqueueRow, CancelRow, LapseRow, DueRow
       DEF JobStep, Submit, CancelJob, OrphanLapses, LiveLeaseLapses, DelayEnds, Written
  <1>5. ASSUME NEW p \in Procs, ProcStep(p)
        PROVE  \E x : Present' \subseteq Present \cup {x}
    <2>1. CASE Dequeue(p) \/ DequeueLost(p)
      <3>1. PICK C \in SUBSET Jobs : ClaimStep(p, C)
        BY <1>t, <2>1, DequeueSlots DEF DequeueLost
      <3>2. \A k \in Jobs : row[k].status = "absent" => row'[k].status = "absent"
        BY <1>t, <3>1, ClaimRows DEF Waiting
      <3> QED BY <1>1, <3>2
    <2>2. CASE \E j \in Jobs : QuarantineRow(p, j)
      BY <1>t, <1>o, <2>2, QuarantineRowEffect DEF QuarantineRow, Written
    <2>3. CASE \/ Lock(p) \/ Conflict(p) \/ ClaimAborted(p) \/ StopRun(p) \/ Exit(p)
               \/ Crash(p) \/ Restart(p) \/ \E j \in Jobs : QuarantineFails(p, j)
      <3>1. row' = row
        BY <2>3 DEF QuarantineFails, Lock, Conflict, ClaimAborted, StopRun, Exit, Crash, Restart,
           PGLock, PGConflict, PGRollback, queueVars
      <3> QED BY <1>r, <3>1
    <2> QED BY <1>5, <2>1, <2>2, <2>3 DEF ProcStep
  <1>6. ASSUME NEW s \in Slots, SlotStep(s)
        PROVE  \E x : Present' \subseteq Present \cup {x}
    BY <1>6, <1>o, <1>r, SlotStepTouches
  <1> QED BY <1>2, <1>3, <1>4, <1>o, <1>5, <1>6 DEF Next

\* Every step keeps the facts about the tables.
LEMMA NextTables ==
  ASSUME IInv, TablesInv, [Next]_vars
  PROVE  TablesInv'
  <1> USE DEF queueVars, faultVars, historyVars, workerVars
  <1>t. TypeOK /\ LocksInv
    BY DEF IInv
  <1>1. IsFiniteSet(Present')
    <2>1. PICK x : Present' \subseteq Present \cup {x}
      BY OneInserted
    <2>2. IsFiniteSet(Present \cup {x})
      BY FS_AddElement DEF TablesInv
    <2> QED BY <2>1, <2>2, FS_Subset
  <1>2. \A j \in Jobs : j \in Present => j \in Present'
    BY NextMoves DEF Moves, SameStatus, Present, Waiting, Terminal
  <1>3. quar' = quar \/ \E p \in Procs : quar'[p] \subseteq Undecodable[p] /\ \A x \in Procs \ {p} : quar'[x] = quar[x]
    <2>1. ASSUME NEW p \in Procs, Dequeue(p)
          PROVE  quar'[p] \subseteq Undecodable[p] /\ \A x \in Procs \ {p} : quar'[x] = quar[x]
      <3>1. PICK C \in SUBSET Jobs : quar' = [quar EXCEPT ![p] = C \cap Undecodable[p]]
        BY <2>1 DEF Dequeue
      <3> QED BY <1>t, <3>1 DEF TypeOK
    <2>2. ASSUME NEW p \in Procs, ProcStep(p), ~Dequeue(p)
          PROVE  \/ quar' = quar
                 \/ quar'[p] \subseteq quar[p] /\ \A x \in Procs \ {p} : quar'[x] = quar[x]
      BY <1>t, <2>2 DEF ProcStep, Lock, Conflict, ClaimAborted, DequeueLost, QuarantineRow,
         QuarantineFails, StopRun, Exit, Crash, Restart, TypeOK
    <2>3. ASSUME NEW j \in Jobs, JobStep(j)
          PROVE  quar' = quar
      BY <2>3 DEF JobStep, Submit, CancelJob, OrphanLapses, LiveLeaseLapses, DelayEnds
    <2>4. ASSUME NEW s \in Slots, SlotStep(s)
          PROVE  quar' = quar
      BY <2>4, SlotStepTouches
    <2>5. Sweep \/ UNCHANGED vars => quar' = quar
      BY DEF Sweep, vars
    <2> QED BY <2>1, <2>2, <2>3, <2>4, <2>5 DEF Next, TablesInv
  <1>4. \A p \in Procs : quar'[p] \subseteq Undecodable[p]
    BY <1>3 DEF TablesInv
  <1>5. \/ origin' = origin
        \/ \E d \in DLQIds : d \in Present' /\ \A e \in DLQIds \ {d} : origin'[e] = origin[e]
    <2>1. ASSUME NEW s \in Slots, SlotStep(s)
          PROVE  \/ origin' = origin
                 \/ \E d \in DLQIds : d \in Present' /\ \A e \in DLQIds \ {d} : origin'[e] = origin[e]
      <3>1. CASE \E d \in DLQIds : /\ row'[d].status = "enqueued"
                                   /\ origin' = [origin EXCEPT ![d] = slot[s].job]
        BY <1>t, <3>1 DEF TypeOK, Present
      <3> QED BY <2>1, <3>1, SlotStepTouches
    <2>2. ASSUME NEW p \in Procs, ProcStep(p)
          PROVE  origin' = origin
      BY <2>2 DEF ProcStep, Lock, Conflict, ClaimAborted, Dequeue, DequeueLost, QuarantineRow,
         QuarantineFails, StopRun, Exit, Crash, Restart
    <2>3. ASSUME NEW j \in Jobs, JobStep(j)
          PROVE  origin' = origin
      BY <2>3 DEF JobStep, Submit, CancelJob, OrphanLapses, LiveLeaseLapses, DelayEnds
    <2>4. Sweep \/ UNCHANGED vars => origin' = origin
      BY DEF Sweep, vars
    <2> QED BY <2>1, <2>2, <2>3, <2>4 DEF Next
  <1>6. \A d \in DLQIds : origin'[d] # NoJob => d \in Present'
    BY <1>2, <1>5 DEF TablesInv
  <1> QED BY <1>1, <1>4, <1>6 DEF TablesInv

\* Without faults, and with ids left, a step of one goroutine keeps the dead routed.
LEMMA SlotStepRoutes ==
  ASSUME IInv, TablesInv, RoutedInv, EnoughIds, HandlesDLQ = Procs, lost = 0, lost' = 0,
         NEW s \in Slots, SlotStep(s)
  PROVE  RoutedInv'
  <1> USE DEF queueVars, faultVars, historyVars, workerVars
  <1>t. TypeOK
    BY DEF IInv
  <1>0. slot[s].ph # "idle" => slot[s].job \in Jobs
    BY <1>t DEF TypeOK
  <1>a. slot[s].att \in Nat /\ slot[s].unh \in Nat /\ slot[s].seen \in Nat
    BY <1>t DEF TypeOK, Task
  <1>o. \A t \in Slots \ {s} : slot'[t] = slot[t]
    BY SlotStepTouches
  \* It is enough to look at the job of this goroutine.
  <1>w. ASSUME NEW j \in Jobs, j = slot[s].job, OnlyRow(j) \/ row' = row, origin' = origin,
               slot[s].ph \in Owning,
               row'[j].status = "running" => Owns(s, j)',
               row'[j].status = "dead" => slot'[s].ph = "dlq" /\ slot'[s].job = j
        PROVE  RoutedInv'
    <2>1. \A k \in Jobs \ {j} : row'[k] = row[k]
      BY <1>w DEF OnlyRow
    <2>2. ASSUME NEW k \in Jobs, row'[k].status = "running", Decodable(k)
          PROVE  \E t \in Slots : Owns(t, k)'
      BY <1>o, <1>w, <2>1, <2>2 DEF RoutedInv, Running, Owns
    <2>3. ASSUME NEW k \in Jobs, row'[k].status = "dead", Decodable(k)
          PROVE  Routed(k)'
      <3>1. CASE k = j
        BY <1>w, <2>3, <3>1 DEF Routed
      <3>2. CASE k # j
        <4>1. Routed(k)
          BY <2>1, <2>3, <3>2 DEF RoutedInv
        <4> QED BY <1>o, <1>w, <4>1 DEF Routed, Owning
      <3> QED BY <3>1, <3>2
    <2> QED BY <2>2, <2>3 DEF RoutedInv, Running, Decodable
  <1>g. ASSUME NEW ph \in Owning, slot[s].ph \in Owning, Goto(s, ph), row' = row, origin' = origin
        PROVE  RoutedInv'
    <2>1. slot[s].job \in Jobs /\ row[slot[s].job].status = "running" /\ slot[s].ph # "idle"
      BY <1>g, OwnedJob DEF Owning
    <2>2. slot'[s].ph = ph /\ slot'[s].job = slot[s].job
      BY <1>t, <1>g, <2>1, GotoSlot
    <2> QED BY <1>w, <1>g, <2>1, <2>2 DEF Owns
  <1>1. CASE StartHandler(s)
    BY <1>1, <1>g DEF StartHandler, Dispatched, Owning
  <1>2. CASE RequeueUnhandled(s)
    <2> DEFINE n == IF slot[s].att > 0 THEN slot[s].att - 1 ELSE slot[s].att
               j == slot[s].job
    <2>1. /\ slot[s].ph \in Owning /\ Requeue(j, n, slot[s].unh + 1) /\ origin' = origin
      BY <1>2 DEF RequeueUnhandled, Dispatched, Owning
    <2>2. n \in Nat /\ slot[s].unh + 1 \in Nat /\ j \in Jobs
      BY <1>a, <2>1, OwnedJob
    <2> HIDE DEF n
    <2>3. OnlyRow(j) /\ row'[j].status = "enqueued"
      BY <1>t, <2>1, <2>2, RequeueRow DEF Written
    <2> QED BY <1>w, <2>1, <2>2, <2>3
  <1>3. CASE GiveUpUnhandled(s)
    BY <1>3, <1>g DEF GiveUpUnhandled, Dispatched, Owning
  <1>4. CASE Renew(s)
    <2>1. slot[s].ph \in Owning /\ row[slot[s].job].lease # "held"
      BY <1>4 DEF Renew, Owning
    <2> QED BY <2>1, OwnedJob
  <1>5. CASE HandlerSucceeds(s)
    BY <1>5, <1>g DEF HandlerSucceeds, Owning
  <1>6. CASE HandlerFails(s)
    <2>1. (IF slot[s].att >= MaxRetry[slot[s].job] THEN "dying" ELSE "failed") \in Owning
      BY DEF Owning
    <2>2. slot[s].ph \in Owning
      BY <1>6 DEF HandlerFails, Owning
    <2> QED BY <1>6, <1>g, <2>1, <2>2 DEF HandlerFails
  <1>7. CASE AckJob(s)
    <2>1. slot[s].ph \in Owning /\ Ack(slot[s].job) /\ origin' = origin
      BY <1>7 DEF AckJob, Owning
    <2>2. /\ slot[s].job \in Jobs /\ OnlyRow(slot[s].job)
          /\ row'[slot[s].job].status = "succeeded"
      BY <1>t, <1>0, <2>1, AckRow DEF Written, Owning
    <2> QED BY <1>w, <2>1, <2>2
  <1>8. CASE NackSelect(s)
    <2>1. slot[s].ph \in Owning /\ row' = row /\ origin' = origin
      BY <1>8 DEF NackSelect, Owning
    <2>2. slot[s].job \in Jobs /\ row[slot[s].job].status = "running"
      BY <2>1, OwnedJob
    <2>3. slot'[s].ph \in Owning /\ slot'[s].job = slot[s].job
      BY <1>t, <1>8, NackSelectSlot DEF Owning
    <2> QED BY <1>w, <2>1, <2>2, <2>3 DEF Owns
  <1>9. CASE NackUpdate(s)
    <2>1. /\ slot[s].ph \in Owning /\ slot[s].ph = "nacking" /\ origin' = origin
          /\ NackWrite(slot[s].job, slot[s].seen)
      BY <1>9 DEF NackUpdate, Owning
    <2>2. slot[s].job \in Jobs /\ slot[s].seen < MaxRetry[slot[s].job]
      BY <2>1, OwnedJob
    <2>3. OnlyRow(slot[s].job) /\ row'[slot[s].job].status = "failed"
      BY <1>t, <1>a, <2>1, <2>2, NackRow DEF Written
    <2> QED BY <1>w, <2>1, <2>2, <2>3
  <1>10. CASE MarkDead(s)
    <2>1. slot[s].ph \in Owning /\ slot[s].ph # "idle" /\ Dead(slot[s].job) /\ origin' = origin
      BY <1>10 DEF MarkDead, Owning
    <2>2. /\ slot[s].job \in Jobs /\ OnlyRow(slot[s].job)
          /\ row'[slot[s].job].status = "dead"
      BY <1>t, <1>0, <2>1, DeadRow DEF Written
    <2>3. Goto(s, "dlq")
      BY <1>10 DEF MarkDead, AfterDead
    <2>4. slot'[s].ph = "dlq" /\ slot'[s].job = slot[s].job
      BY <1>t, <2>1, <2>3, GotoSlot
    <2> QED BY <1>w, <2>1, <2>2, <2>4
  <1>11. CASE RouteToDLQ(s)
    <2>1. PICK d \in FreshCopies(slot[s].job) :
            Enqueue(d, TRUE, slot[s].unh) /\ origin' = [origin EXCEPT ![d] = slot[s].job]
      BY <1>11 DEF RouteToDLQ
    <2>2. d \in Jobs /\ d \in DLQIds /\ row[d].status = "absent"
      BY <2>1 DEF FreshCopies
    <2>3. OnlyRow(d) /\ row'[d].status = "enqueued"
      BY <1>t, <1>a, <2>1, <2>2, EnqueueRow DEF Written
    <2>4. slot[s].ph = "dlq" /\ origin[d] = NoJob /\ slot[s].job \in Jobs
      BY <1>0, <1>11, <2>2 DEF RouteToDLQ, TablesInv, Present
    <2>5. origin'[d] = slot[s].job /\ \A e \in DLQIds \ {d} : origin'[e] = origin[e]
      BY <1>t, <2>1, <2>2 DEF TypeOK
    <2>6. ASSUME NEW k \in Jobs, row'[k].status = "running", Decodable(k)
          PROVE  \E t \in Slots : Owns(t, k)'
      <3>1. row[k].status = "running"
        BY <2>3, <2>6 DEF OnlyRow
      <3> QED BY <1>o, <2>4, <2>6, <3>1 DEF RoutedInv, Running, Owns, Owning
    <2>7. ASSUME NEW k \in Jobs, row'[k].status = "dead", Decodable(k)
          PROVE  Routed(k)'
      <3>1. Routed(k)
        BY <2>3, <2>7 DEF OnlyRow, RoutedInv
      <3>2. k # NoJob
        BY <2>7
      <3> QED BY <1>o, <2>2, <2>4, <2>5, <3>1, <3>2 DEF Routed
    <2> QED BY <2>6, <2>7 DEF RoutedInv, Running, Decodable
  <1>12. CASE DLQFull(s)
    <2>1. slot[s].job \in Jobs /\ FreshCopies(slot[s].job) = {}
      BY <1>0, <1>12 DEF DLQFull
    <2> QED BY <2>1, CopyLeft DEF TablesInv
  <1>13. CASE WriteFails(s)
    BY <1>13 DEF WriteFails
  <1> QED BY <1>1, <1>2, <1>3, <1>4, <1>5, <1>6, <1>7, <1>8, <1>9, <1>10, <1>11, <1>12,
             <1>13 DEF SlotStep

\* A step that moves no goroutine, runs nothing and ends nothing decodable keeps them.
LEMMA RoutesStay ==
  ASSUME RoutedInv, slot' = slot, origin' = origin,
         \A j \in Jobs : row'[j].status = "running" => row[j].status = "running",
         \A j \in Jobs : row'[j].status = "dead" /\ Decodable(j) => row[j].status = "dead"
  PROVE  RoutedInv'
  BY DEF RoutedInv, Running, Owns, Routed, Decodable

\* Every fault-free step keeps the dead routed.
LEMMA NextRoutes ==
  ASSUME IInv, TypeOK', TablesInv, EnoughIds, HandlesDLQ = Procs,
         NoFault => RoutedInv, [Next]_vars
  PROVE  NoFault' => RoutedInv'
  <1> USE DEF queueVars, faultVars, historyVars, workerVars
  <1> SUFFICES ASSUME crashes' = 0, lost' = 0
               PROVE  RoutedInv'
    BY DEF NoFault
  <1>t. TypeOK /\ LocksInv
    BY DEF IInv
  <1>n. crashes \in Nat /\ lost \in Nat
    BY <1>t DEF TypeOK
  <1>1. CASE UNCHANGED vars
    BY <1>1, RoutesStay DEF vars, NoFault
  <1>2. CASE Sweep
    <2>1. RoutedInv /\ slot' = slot /\ origin' = origin
      BY <1>2 DEF Sweep, NoFault
    <2>2. \A j \in Jobs : row[j].status = "running" /\ Decodable(j) => row[j].lease = "held"
      BY <2>1 DEF RoutedInv, Running, Owns, IInv, OwnersInv, HasRow
    <2>3. \A j \in Jobs : Decodable(j) => row'[j] = row[j]
      BY <1>t, <1>2, <2>2, SweepRows DEF Sweep
    <2>4. \A j \in Jobs : row'[j].status = "running" => row[j].status = "running"
      BY <1>t, <1>2, SweepRows DEF Sweep
    <2> QED BY <2>1, <2>3, <2>4, RoutesStay
  <1>3. ASSUME NEW j \in Jobs, JobStep(j)
        PROVE  RoutedInv'
    <2>1. RoutedInv /\ slot' = slot /\ origin' = origin
      BY <1>3 DEF NoFault, JobStep, Submit, CancelJob, OrphanLapses, LiveLeaseLapses, DelayEnds
    <2>2. /\ OnlyRow(j)
          /\ \/ SameStatus(j)
             \/ row'[j].status \in {"enqueued", "cancelled"}
      BY <1>t, <1>3, EnqueueRow, CancelRow, LapseRow, DueRow
         DEF JobStep, Submit, CancelJob, OrphanLapses, LiveLeaseLapses, DelayEnds, Written
    <2> QED BY <2>1, <2>2, RoutesStay DEF OnlyRow, SameStatus
  <1>4. ASSUME NEW p \in Procs, ProcStep(p)
        PROVE  RoutedInv'
    <2>1. CASE Dequeue(p)
      <3>1. RoutedInv /\ origin' = origin
        BY <2>1 DEF Dequeue, NoFault
      <3>2. PICK C \in SUBSET Jobs :
              /\ ClaimStep(p, C)
              /\ \A s \in Slots : slot'[s] = slot[s] \/ slot[s].ph = "idle"
              /\ \A j \in C \ Undecodable[p] :
                   \E s \in Slots : slot'[s].ph = "claimed" /\ slot'[s].job = j
        BY <1>t, <2>1, DequeueSlots
      <3>3. /\ \A j \in C : row'[j].status = "running"
            /\ \A j \in Jobs \ C : row'[j] = row[j]
        BY <1>t, <3>2, ClaimRows
      <3>4. ASSUME NEW j \in Jobs, row'[j].status = "running", Decodable(j)
            PROVE  \E s \in Slots : Owns(s, j)'
        <4>1. CASE j \in C
          BY <3>2, <3>4, <4>1 DEF Owns, Owning, Decodable
        <4>2. CASE j \notin C
          <5>1. PICK s \in Slots : Owns(s, j)
            BY <3>1, <3>3, <3>4, <4>2 DEF RoutedInv, Running
          <5> QED BY <3>2, <5>1 DEF Owns, Owning
        <4> QED BY <4>1, <4>2
      <3>5. ASSUME NEW j \in Jobs, row'[j].status = "dead", Decodable(j)
            PROVE  Routed(j)'
        <4>1. Routed(j)
          BY <3>1, <3>3, <3>5 DEF RoutedInv
        <4> QED BY <3>1, <3>2, <4>1 DEF Routed
      <3> QED BY <3>4, <3>5 DEF RoutedInv, Running, Decodable
    <2>2. CASE DequeueLost(p) \/ Crash(p)
      BY <1>n, <2>2 DEF DequeueLost, Crash
    <2>3. CASE \E j \in Jobs : QuarantineRow(p, j)
      <3>1. PICK j \in Jobs : QuarantineRow(p, j)
        BY <2>3
      <3>2. /\ RoutedInv /\ slot' = slot /\ origin' = origin
            /\ OnlyRow(j) /\ row'[j].status = "dead"
            /\ j \in Undecodable[p]
        BY <1>t, <3>1, QuarantineRowEffect DEF QuarantineRow, Written, NoFault, TablesInv
      <3> QED BY <3>2, RoutesStay DEF OnlyRow, Decodable
    <2>4. CASE \/ Lock(p) \/ Conflict(p) \/ ClaimAborted(p) \/ StopRun(p) \/ Exit(p)
               \/ Restart(p) \/ \E j \in Jobs : QuarantineFails(p, j)
      <3>1. /\ row' = row /\ slot' = slot /\ origin' = origin /\ crashes' = crashes
            /\ lost' = lost \/ lost' = lost + 1
        BY <2>4 DEF QuarantineFails, Lock, Conflict, ClaimAborted, StopRun, Exit, Restart,
           PGLock, PGConflict, PGRollback
      <3>2. RoutedInv
        BY <1>n, <3>1 DEF NoFault
      <3> QED BY <3>1, <3>2, RoutesStay
    <2> QED BY <1>4, <2>1, <2>2, <2>3, <2>4 DEF ProcStep
  <1>5. ASSUME NEW s \in Slots, SlotStep(s)
        PROVE  RoutedInv'
    <2>1. crashes = 0
      BY <1>5, SlotStepTouches
    <2>2. lost' = lost \/ lost' = lost + 1
      BY <1>5 DEF SlotStep, StartHandler, RequeueUnhandled, GiveUpUnhandled, Renew,
         HandlerSucceeds, HandlerFails, AckJob, NackSelect, NackUpdate, MarkDead, RouteToDLQ,
         DLQFull, WriteFails
    <2>3. lost = 0 /\ RoutedInv
      BY <1>n, <2>1, <2>2 DEF NoFault
    <2> QED BY <1>5, <2>3, SlotStepRoutes
  <1> QED BY <1>1, <1>2, <1>3, <1>4, <1>5 DEF Next

\* Where every process has the DLQ configured, a dead job that they all can decode is
\* in the DLQ or about to be, so long as nothing crashes, no call is lost and no lease
\* of a live worker lapses (worker.go, markDead): no other statement kills a job, and
\* the sweep finds nothing to end.  DLQ ids, like uuids, never run out.
THEOREM DeathRouted ==
  ASSUME MaxStale = 0, EnoughIds
  PROVE  Spec => []HandlerDeathIsRouted
  <1>1. CASE HandlesDLQ = Procs
    <2> DEFINE Inv == IInv /\ TablesInv /\ (NoFault => RoutedInv)
    <2>1. Init => Inv
      <3> SUFFICES ASSUME Init PROVE TablesInv /\ RoutedInv
        BY InitInv
      <3>1. /\ row = [j \in Jobs |-> Absent] /\ quar = [p \in Procs |-> {}]
            /\ origin = [d \in DLQIds |-> NoJob]
        BY DEF Init, QInit
      <3>2. Present = {}
        BY <3>1 DEF Present, Absent
      <3> QED BY <3>1, <3>2, FS_EmptySet DEF TablesInv, RoutedInv, Running, Absent
    <2>2. Inv /\ [Next]_vars => Inv'
      BY <1>1, NextInv, NextTables, NextRoutes DEF IInv
    <2>3. Inv => HandlerDeathIsRouted
      BY DEF HandlerDeathIsRouted, NoFault, RoutedInv, Routed, Decodable
    <2> QED BY <2>1, <2>2, <2>3, PTL DEF Spec
  <1>2. CASE HandlesDLQ # Procs
    <2>1. HandlerDeathIsRouted
      BY <1>2 DEF HandlerDeathIsRouted
    <2> QED BY <2>1, PTL
  <1> QED BY <1>1, <1>2

=============================================================================
