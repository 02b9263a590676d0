------------------------------ MODULE JobQueue ------------------------------
(***************************************************************************)
(* The job_queue table of jobs/sql (queue.go, migrate.go) and the single   *)
(* SQL statements that every client of the queue runs against it.          *)
(*                                                                         *)
(* A row is reduced to the columns the claim predicate and the retry       *)
(* budget read: status, attempts, lease_until, not_before and the          *)
(* unhandled-requeue counter carried in headers.  Times are reduced to     *)
(* what a statement learns from comparing them with now(): a lease is      *)
(* "none" (NULL), "held" (in the future) or "lapsed"; a row is due or not. *)
(* group_key, max_retry and the ORDER BY position never change after the   *)
(* INSERT, so they are constants.                                          *)
(*                                                                         *)
(* Each operator below is one autocommit statement.  The one operation     *)
(* that is two statements, Nack (SELECT, then UPDATE), is given as its two *)
(* halves.  On Postgres a claim locks its candidates first and updates     *)
(* them later, so other claims and other writers interleave; on SQLite the *)
(* database write lock makes the claim atomic.                             *)
(***************************************************************************)
EXTENDS Integers, FiniteSets

CONSTANTS
  Jobs,         \* ids of the rows that may ever be inserted
  Procs,        \* client processes of the table
  NoKey,        \* the empty group_key
  GroupOf,      \* Jobs -> group_key
  MaxRetry,     \* Jobs -> max_retry, the adapter's default 3 already applied
  Rank,         \* Jobs -> position in ORDER BY priority DESC, created_at ASC
  IsPG,         \* TRUE on Postgres, FALSE on SQLite
  MaxUnhandled  \* WorkerConfig.MaxUnhandledRequeues

ASSUME QueueAssumption ==
  /\ MaxRetry \in [Jobs -> Nat \ {0}]
  /\ Rank \in [Jobs -> Nat]
  /\ \A j, k \in Jobs : Rank[j] = Rank[k] => j = k
  /\ IsPG \in BOOLEAN
  /\ MaxUnhandled \in Nat \ {0}

VARIABLES
  row,     \* the table: one record per id, status "absent" before its INSERT
  locked   \* rows an open claim of a process holds FOR UPDATE (Postgres)

queueVars == <<row, locked>>

Waiting  == {"enqueued", "failed"}              \* what the claim predicate takes
Terminal == {"succeeded", "dead", "cancelled"}

Row == [status    : {"absent", "running"} \cup Waiting \cup Terminal,
        attempts  : Nat,
        lease     : {"none", "held", "lapsed"},
        due       : BOOLEAN,
        unhandled : Nat]

Absent == [status |-> "absent", attempts |-> 0, lease |-> "none",
           due |-> FALSE, unhandled |-> 0]

QInit == /\ row = [j \in Jobs |-> Absent]
         /\ locked = [p \in Procs |-> {}]

-----------------------------------------------------------------------------
(* Claims *)

SameKey(j, k) == GroupOf[j] = GroupOf[k] /\ GroupOf[j] # NoKey

Running == {j \in Jobs : row[j].status = "running"}

Locked == UNION {locked[p] : p \in Procs}

\* The WHERE clause both drivers share.
Claimable(j) ==
  /\ row[j].status \in Waiting
  /\ row[j].due
  /\ row[j].lease # "held"
  /\ \A k \in Running : ~SameKey(j, k)

\* LIMIT n under the claim's ORDER BY.
Top(n, S) == {j \in S : Cardinality({k \in S : Rank[k] < Rank[j]}) < n}

\* rankedDedup: every unkeyed row, and the first row of each key.
Dedup(S) == {j \in S : \A k \in S : SameKey(j, k) => Rank[j] <= Rank[k]}

\* Mutant: Migrate did not create the index.
NoIndex(C) == TRUE

\* The job_queue_group_running index, on both drivers, admits the update of C.
IndexAdmits(C) == \A j \in C, k \in Running \cup C : SameKey(j, k) => j = k

\* Mutant: the claim does not stamp lease_until.
ClaimUnleased(C) ==
  row' = [j \in Jobs |-> IF j \in C THEN [row[j] EXCEPT !.status = "running",
                                                       !.attempts = @ + 1]
                                   ELSE row[j]]

\* SET status, lease_until, attempts of the claimed rows.
Claim(C) ==
  /\ IndexAdmits(C)
  /\ row' = [j \in Jobs |->
               IF j \in C
                 THEN [row[j] EXCEPT !.status = "running", !.lease = "held",
                                     !.attempts = @ + 1]
                 ELSE row[j]]

\* dequeueSQLite: rank, limit and stamp in one statement.
SQLiteClaim(C, n) ==
  /\ ~IsPG
  /\ C = Top(n, Dedup({j \in Jobs : Claimable(j)}))
  /\ C # {}
  /\ Claim(C)
  /\ UNCHANGED locked

\* dequeuePG, its "locked" CTE: the limit applies before the ranking, and
\* rows another open claim holds are skipped.
PGLock(p, n) ==
  /\ IsPG
  /\ locked[p] = {}
  /\ LET C == Top(n, {j \in Jobs : Claimable(j)} \ Locked)
     IN  /\ C # {}
         /\ locked' = [locked EXCEPT ![p] = C]
  /\ UNCHANGED row

\* dequeuePG, its UPDATE ... RETURNING.
PGClaim(p, C) ==
  /\ locked[p] # {}
  /\ C = Dedup(locked[p])
  /\ Claim(C)
  /\ locked' = [locked EXCEPT ![p] = {}]

\* The claim's transaction is rolled back.
PGRollback(p) ==
  /\ locked[p] # {}
  /\ locked' = [locked EXCEPT ![p] = {}]
  /\ UNCHANGED row

\* The UPDATE violates the index (on SQLite the write lock rules it out).
\* Dequeue tries again, and after maxClaimRetries conflicts returns nothing:
\* both leave the table as it was.
PGConflict(p) == ~IndexAdmits(Dedup(locked[p])) /\ PGRollback(p)

-----------------------------------------------------------------------------
(* The other statements.  A row an open claim has locked cannot be written. *)

\* Mutant: the claim's candidates are not locked (FOR UPDATE is missing).
WritesCandidates(j, r) ==
  /\ row' = [row EXCEPT ![j] = r]
  /\ UNCHANGED locked

Writes(j, r) ==
  /\ j \notin Locked
  /\ row' = [row EXCEPT ![j] = r]
  /\ UNCHANGED locked

\* enqueueAt, at the moment its transaction (or autocommit) commits; a rolled
\* back INSERT leaves no trace.  EnqueueBatch is a sequence of these.
Enqueue(j, due, unhandled) ==
  /\ row[j].status = "absent"
  /\ Writes(j, [Absent EXCEPT !.status = "enqueued", !.due = due,
                              !.unhandled = unhandled])

\* The sweep's statement: it ends the expired rows whose budget is spent and
\* gives the others back.
Expired == {j \in Running : row[j].lease # "held"}
Spent == {j \in Jobs : row[j].attempts >= MaxRetry[j]}

Reclaim(R, S) ==
  /\ R # {}
  /\ row' = [j \in Jobs |->
               IF j \in R
                 THEN [row[j] EXCEPT !.status = IF j \in S THEN "dead" ELSE "enqueued",
                                     !.lease = "none"]
                 ELSE row[j]]
  /\ UNCHANGED locked

\* Mutants: the sweep spares a row at its budget; it takes the rows of live
\* workers; it matches only rows without a lease.
ReclaimOneMore == Reclaim(Expired, {j \in Jobs : row[j].attempts > MaxRetry[j]})
ReclaimLive == Reclaim(Running, Spent)
ReclaimUnleased == Reclaim({j \in Running : row[j].lease = "none"}, Spent)

\* The expired-lease sweep at the head of Dequeue.
ReclaimExpired == Reclaim(Expired, Spent)

\* Ack and Dead name the row by id alone: no status, attempt or lease check.
Ack(j)  == Writes(j, [row[j] EXCEPT !.status = "succeeded"])
Dead(j) == Writes(j, [row[j] EXCEPT !.status = "dead"])

\* Nack after its SELECT returned the attempt count seen.
NackWrite(j, seen) ==
  \/ /\ seen >= MaxRetry[j]
     /\ Writes(j, [row[j] EXCEPT !.status = "dead"])
  \/ /\ seen < MaxRetry[j]
     /\ \E due \in BOOLEAN :
          Writes(j, [row[j] EXCEPT !.status = "failed", !.lease = "none",
                                   !.due = due])

\* Mutant: the statement refunds the attempt that the worker already refunded.
RequeueRefunding(j, attempts, unhandled) ==
  Writes(j, [row[j] EXCEPT !.status = "enqueued", !.lease = "none", !.due = FALSE,
                           !.attempts = attempts - 1, !.unhandled = unhandled])

\* Requeue stores the caller's attempt count and unhandled counter.
Requeue(j, attempts, unhandled) ==
  Writes(j, [row[j] EXCEPT !.status = "enqueued", !.lease = "none",
                           !.due = FALSE, !.attempts = attempts,
                           !.unhandled = unhandled])

Quarantine(j) == Writes(j, [row[j] EXCEPT !.status = "dead", !.lease = "none"])

RenewLease(j) ==
  /\ row[j].status = "running"
  /\ Writes(j, [row[j] EXCEPT !.lease = "held"])

Cancel(j) ==
  /\ row[j].status \in Waiting
  /\ Writes(j, [row[j] EXCEPT !.status = "cancelled"])

\* Time passes.  Only the lease of a running row is ever read again.
LeaseLapses(j) ==
  /\ j \in Running
  /\ row[j].lease = "held"
  /\ row' = [row EXCEPT ![j].lease = "lapsed"]
  /\ UNCHANGED locked

BecomesDue(j) ==
  /\ row[j].status \in Waiting
  /\ ~row[j].due
  /\ row' = [row EXCEPT ![j].due = TRUE]
  /\ UNCHANGED locked

=============================================================================
