----------------------------- MODULE JobSystem ------------------------------
(***************************************************************************)
(* Worker processes (jobs/worker.go) draining the jobs/sql queue.          *)
(*                                                                         *)
(* A process runs one Worker: a Run loop that claims as many jobs as it    *)
(* has free slots, and one goroutine per claimed job that looks up the     *)
(* handler, runs it, and writes the outcome back.  Between any two         *)
(* statements of a goroutine every other goroutine, process, producer and  *)
(* the clock may move.                                                     *)
(*                                                                         *)
(* Faults are drawn from named budgets: MaxCrashes process deaths,         *)
(* MaxLost database calls whose effect or result is lost, and MaxStale     *)
(* leases that lapse although the process holding the job is alive (a GC   *)
(* pause, a wedged network, a lease shorter than the handler on a source   *)
(* that is not renewed).  MaxStale = 0 is the operating assumption that    *)
(* WithLeaseDuration documents; the theorems that need it say so.          *)
(***************************************************************************)
EXTENDS JobQueue

CONSTANTS
  Slots,        \* handler goroutines: the semaphore slots of all processes
  ProcOf,       \* Slots -> the process they belong to
  Handled,      \* Procs -> the jobs whose Type is in WorkerConfig.Handlers
  Undecodable,  \* Procs -> the jobs whose payload it cannot decode or decrypt
  DLQIds,       \* ids reserved for the rows that markDead enqueues
  HandlesDLQ,   \* processes with a DLQType and a handler registered for it
  MaxCrashes, MaxLost, MaxStale,
  NoJob

ASSUME SystemAssumption ==
  /\ ProcOf \in [Slots -> Procs]
  /\ Handled \in [Procs -> SUBSET Jobs]
  /\ Undecodable \in [Procs -> SUBSET Jobs]
  /\ DLQIds \subseteq Jobs
  /\ HandlesDLQ \subseteq Procs
  /\ \A p \in HandlesDLQ : DLQIds \subseteq Handled[p]
  /\ MaxCrashes \in Nat /\ MaxLost \in Nat /\ MaxStale \in Nat
  /\ NoJob \notin Jobs

VARIABLES
  proc,     \* Procs -> "up", "draining" (run context cancelled) or "down"
  slot,     \* Slots -> what its goroutine is doing
  quar,     \* Procs -> claimed rows Dequeue still has to quarantine
  origin,   \* DLQIds -> the original_id in the payload of that DLQ job
  crashes, lost, stale,   \* faults spent
  starts,   \* history: how often a handler was started for the job
  done,     \* history: jobs whose handler has returned success
  requeued  \* history: how often the job was requeued as unhandled

workerVars == <<proc, slot, quar, origin>>
faultVars  == <<crashes, lost, stale>>
historyVars == <<starts, done, requeued>>
vars == <<row, locked, proc, slot, quar, origin, crashes, lost, stale, starts, done,
          requeued>>

\* A goroutine between being dispatched and writing the outcome owns its job.
Owning == {"claimed", "handling", "succeeded", "failed", "nacking", "dying"}

\* att and unh are Job.Attempts and the unhandled counter as dequeued; seen
\* is what Nack's SELECT returned.
Task == [ph   : Owning \cup {"idle", "dlq"},
         job  : Jobs \cup {NoJob},
         att  : Nat, unh : Nat, seen : Nat]

Idle == [ph |-> "idle", job |-> NoJob, att |-> 0, unh |-> 0, seen |-> 0]

Init ==
  /\ QInit
  /\ proc = [p \in Procs |-> "up"]
  /\ slot = [s \in Slots |-> Idle]
  /\ quar = [p \in Procs |-> {}]
  /\ origin = [d \in DLQIds |-> NoJob]
  /\ crashes = 0 /\ lost = 0 /\ stale = 0
  /\ starts = [j \in Jobs |-> 0]
  /\ done = {}
  /\ requeued = [j \in Jobs |-> 0]

SlotsOf(p) == {s \in Slots : ProcOf[s] = p}
Free(p) == {s \in SlotsOf(p) : slot[s].ph = "idle"}
Goto(s, ph) == slot' = [slot EXCEPT ![s].ph = ph]
Release(s) == slot' = [slot EXCEPT ![s] = Idle]

-----------------------------------------------------------------------------
(* Producers and operators *)

Submit(j, due) ==
  /\ j \notin DLQIds
  /\ Enqueue(j, due, 0)
  /\ UNCHANGED <<workerVars, faultVars, historyVars>>

CancelJob(j) ==
  /\ Cancel(j)
  /\ UNCHANGED <<workerVars, faultVars, historyVars>>

-----------------------------------------------------------------------------
(* The Run loop of a process *)

\* The loop is about to call Dequeue; n is the number of free slots it counted,
\* more of which may be free by the time the claim runs.
Polls(p) == /\ proc[p] = "up"
            /\ Free(p) # {}
            /\ locked[p] = {}
            /\ quar[p] = {}

\* Dequeue begins with the sweep when the throttle lets it; other statements
\* may come between it and the claim.
Sweep ==
  /\ \E p \in Procs : Polls(p)
  /\ ReclaimExpired
  /\ UNCHANGED <<workerVars, faultVars, historyVars>>

Lock(p) ==
  /\ Polls(p)
  /\ \E n \in 1 .. Cardinality(Free(p)) : PGLock(p, n)
  /\ UNCHANGED <<workerVars, faultVars, historyVars>>

Conflict(p) ==
  /\ PGConflict(p)
  /\ UNCHANGED <<workerVars, faultVars, historyVars>>

\* The claim's statement is cut short before it commits: a dropped connection,
\* or the run context is cancelled.
ClaimAborted(p) ==
  /\ PGRollback(p)
  /\ \/ proc[p] = "draining" /\ UNCHANGED lost
     \/ lost < MaxLost /\ lost' = lost + 1
  /\ UNCHANGED <<workerVars, crashes, stale, historyVars>>

\* The claim of C by either driver.  A Postgres claim that is under way still
\* commits when the run context is cancelled meanwhile.
ClaimStep(p, C) ==
  \/ /\ Polls(p)
     /\ \E n \in 1 .. Cardinality(Free(p)) : SQLiteClaim(C, n)
  \/ PGClaim(p, C)

\* Dequeue returns: scanJobs sets the rows that will not decode aside, and
\* Run hands each other job to a free slot.
Dequeue(p) ==
  /\ \E C \in SUBSET Jobs :
       /\ ClaimStep(p, C)
       /\ quar' = [quar EXCEPT ![p] = C \cap Undecodable[p]]
       /\ \E at \in [C \ Undecodable[p] -> Free(p)] :
            /\ \A j, k \in C \ Undecodable[p] : at[j] = at[k] => j = k
            /\ slot' = [s \in Slots |->
                 IF \E j \in C \ Undecodable[p] : at[j] = s
                   THEN LET j == CHOOSE j \in C \ Undecodable[p] : at[j] = s
                        IN  [ph |-> "claimed", job |-> j,
                             att |-> row[j].attempts + 1,
                             unh |-> row[j].unhandled, seen |-> 0]
                   ELSE slot[s]]
  /\ UNCHANGED <<proc, origin, faultVars, historyVars>>

\* The claim commits but its rows reach nobody: the run context is cancelled
\* or the connection drops during the scan, or Shutdown returns before Run
\* dispatches them.
DequeueLost(p) ==
  /\ lost < MaxLost
  /\ \E C \in SUBSET Jobs : ClaimStep(p, C)
  /\ lost' = lost + 1
  /\ UNCHANGED <<workerVars, crashes, stale, historyVars>>

\* One UPDATE of quarantine; Dequeue returns only when the set is empty.  One
\* that fails leaves its row running.
QuarantineRow(p, j) ==
  /\ j \in quar[p]
  /\ Quarantine(j)
  /\ quar' = [quar EXCEPT ![p] = @ \ {j}]
  /\ UNCHANGED <<proc, slot, origin, faultVars, historyVars>>

QuarantineFails(p, j) ==
  /\ j \in quar[p]
  /\ quar' = [quar EXCEPT ![p] = @ \ {j}]
  /\ \/ proc[p] = "draining" /\ UNCHANGED lost
     \/ lost < MaxLost /\ lost' = lost + 1
  /\ UNCHANGED <<queueVars, proc, slot, origin, crashes, stale, historyVars>>

-----------------------------------------------------------------------------
(* handle: one goroutine *)

\* The goroutine of a slot starts once its Dequeue has returned.
Dispatched(s) == slot[s].ph = "claimed" /\ quar[ProcOf[s]] = {}

HasHandler(s) == slot[s].job \in Handled[ProcOf[s]]

StartHandler(s) ==
  /\ Dispatched(s)
  /\ HasHandler(s)
  /\ Goto(s, "handling")
  /\ starts' = [starts EXCEPT ![slot[s].job] = @ + 1]
  /\ UNCHANGED <<queueVars, proc, quar, origin, faultVars, done, requeued>>

\* Mutants: the header is written back as it was read; the delivery is not
\* taken off the attempts.
RequeueUncounted(s) ==
  /\ Dispatched(s)
  /\ ~HasHandler(s)
  /\ slot[s].unh < MaxUnhandled
  /\ Requeue(slot[s].job, slot[s].att - 1, slot[s].unh)
  /\ Release(s)
  /\ requeued' = [requeued EXCEPT ![slot[s].job] = 1]
  /\ UNCHANGED <<proc, quar, origin, faultVars, starts, done>>
RequeueUnrefunded(s) ==
  /\ Dispatched(s)
  /\ ~HasHandler(s)
  /\ slot[s].unh < MaxUnhandled
  /\ Requeue(slot[s].job, slot[s].att, slot[s].unh + 1)
  /\ Release(s)
  /\ requeued' = [requeued EXCEPT ![slot[s].job] = @ + 1]
  /\ UNCHANGED <<proc, quar, origin, faultVars, starts, done>>

\* requeueUnhandled below its bound.
RequeueUnhandled(s) ==
  /\ Dispatched(s)
  /\ ~HasHandler(s)
  /\ slot[s].unh < MaxUnhandled
  /\ Requeue(slot[s].job,
             IF slot[s].att > 0 THEN slot[s].att - 1 ELSE slot[s].att,
             slot[s].unh + 1)
  /\ Release(s)
  /\ requeued' = [requeued EXCEPT ![slot[s].job] = @ + 1]
  /\ UNCHANGED <<proc, quar, origin, faultVars, starts, done>>

\* Mutant: the bound is off by one.
GiveUpEarly(s) ==
  /\ Dispatched(s)
  /\ ~HasHandler(s)
  /\ slot[s].unh + 1 >= MaxUnhandled
  /\ Goto(s, "dying")
  /\ UNCHANGED <<queueVars, proc, quar, origin, faultVars, historyVars>>

\* requeueUnhandled at its bound dead-letters instead.
GiveUpUnhandled(s) ==
  /\ Dispatched(s)
  /\ ~HasHandler(s)
  /\ slot[s].unh >= MaxUnhandled
  /\ Goto(s, "dying")
  /\ UNCHANGED <<queueVars, proc, quar, origin, faultVars, historyVars>>

\* renewLoop stops when the run context is cancelled.
Renew(s) ==
  /\ slot[s].ph = "handling"
  /\ proc[ProcOf[s]] = "up"
  /\ row[slot[s].job].lease # "held"
  /\ RenewLease(slot[s].job)
  /\ UNCHANGED <<workerVars, faultVars, historyVars>>

HandlerSucceeds(s) ==
  /\ slot[s].ph = "handling"
  /\ Goto(s, "succeeded")
  /\ done' = done \cup {slot[s].job}
  /\ UNCHANGED <<queueVars, proc, quar, origin, faultVars, starts, requeued>>

\* An error or a recovered panic.  The worker decides dead or retry from the
\* attempt count it dequeued, not from the row.
HandlerFails(s) ==
  /\ slot[s].ph = "handling"
  /\ Goto(s, IF slot[s].att >= MaxRetry[slot[s].job] THEN "dying" ELSE "failed")
  /\ UNCHANGED <<queueVars, proc, quar, origin, faultVars, historyVars>>

AckJob(s) ==
  /\ slot[s].ph = "succeeded"
  /\ Ack(slot[s].job)
  /\ Release(s)
  /\ UNCHANGED <<proc, quar, origin, faultVars, historyVars>>

NackSelect(s) ==
  /\ slot[s].ph = "failed"
  /\ slot' = [slot EXCEPT ![s] =
                [@ EXCEPT !.ph = "nacking", !.seen = row[slot[s].job].attempts]]
  /\ UNCHANGED <<queueVars, proc, quar, origin, faultVars, historyVars>>

NackUpdate(s) ==
  /\ slot[s].ph = "nacking"
  /\ NackWrite(slot[s].job, slot[s].seen)
  /\ Release(s)
  /\ UNCHANGED <<proc, quar, origin, faultVars, historyVars>>

\* Mutant: markDead returns after the row.
NeverRouted(s) == Release(s)

\* markDead, first half: the row, then the DLQ copy if one is configured.
AfterDead(s) == IF ProcOf[s] \in HandlesDLQ THEN Goto(s, "dlq") ELSE Release(s)

MarkDead(s) ==
  /\ slot[s].ph = "dying"
  /\ Dead(slot[s].job)
  /\ AfterDead(s)
  /\ UNCHANGED <<proc, quar, origin, faultVars, historyVars>>

\* markDead, second half: Enqueue of a copy that keeps the job's GroupKey,
\* MaxRetry and headers, the unhandled counter among them, under a fresh id.
\* A DLQ job that dies is itself routed; DLQIds bounds the copies.
FreshCopies(j) == {d \in DLQIds : /\ row[d].status = "absent"
                                  /\ GroupOf[d] = GroupOf[j]
                                  /\ MaxRetry[d] = MaxRetry[j]}

RouteToDLQ(s) ==
  /\ slot[s].ph = "dlq"
  /\ \E d \in FreshCopies(slot[s].job) :
       /\ Enqueue(d, TRUE, slot[s].unh)
       /\ origin' = [origin EXCEPT ![d] = slot[s].job]
  /\ Release(s)
  /\ UNCHANGED <<proc, quar, faultVars, historyVars>>

\* Out of ids: a bound of the model, not of the code.
DLQFull(s) ==
  /\ slot[s].ph = "dlq"
  /\ FreshCopies(slot[s].job) = {}
  /\ Release(s)
  /\ UNCHANGED <<queueVars, proc, quar, origin, faultVars, historyVars>>

\* Mutant: the outcome is written on the run context, not a terminalContext.
WriteFailsWhenStopped(s) ==
  /\ slot[s].ph \in {"succeeded", "failed", "nacking"}
  /\ \/ proc[ProcOf[s]] = "draining" /\ UNCHANGED lost
     \/ lost < MaxLost /\ lost' = lost + 1
  /\ Release(s)
  /\ UNCHANGED <<queueVars, proc, quar, origin, crashes, stale, historyVars>>

\* A database call of handle fails; the error is logged and dropped.
WriteFails(s) ==
  /\ lost < MaxLost
  /\ \/ /\ slot[s].ph \in {"succeeded", "failed", "nacking", "dlq"}
        /\ Release(s)
     \/ /\ slot[s].ph = "dying"
        /\ AfterDead(s)
     \/ /\ Dispatched(s)
        /\ ~HasHandler(s)
        /\ slot[s].unh < MaxUnhandled
        /\ Release(s)
  /\ lost' = lost + 1
  /\ UNCHANGED <<queueVars, proc, quar, origin, crashes, stale, historyVars>>

-----------------------------------------------------------------------------
(* Processes and the clock *)

\* The run context is cancelled: no further Dequeue, handlers keep their slots.
StopRun(p) ==
  /\ proc[p] = "up"
  /\ proc' = [proc EXCEPT ![p] = "draining"]
  /\ UNCHANGED <<queueVars, slot, quar, origin, faultVars, historyVars>>

\* Shutdown returns once every handler has.
Exit(p) ==
  /\ proc[p] = "draining"
  /\ SlotsOf(p) = Free(p)
  /\ locked[p] = {} /\ quar[p] = {}
  /\ proc' = [proc EXCEPT ![p] = "down"]
  /\ UNCHANGED <<queueVars, slot, quar, origin, faultVars, historyVars>>

\* Process death at any point; a Shutdown that times out ends the same way.
Crash(p) ==
  /\ crashes < MaxCrashes
  /\ proc[p] # "down"
  /\ proc' = [proc EXCEPT ![p] = "down"]
  /\ slot' = [s \in Slots |-> IF ProcOf[s] = p THEN Idle ELSE slot[s]]
  /\ quar' = [quar EXCEPT ![p] = {}]
  /\ locked' = [locked EXCEPT ![p] = {}]
  /\ crashes' = crashes + 1
  /\ UNCHANGED <<row, origin, lost, stale, historyVars>>

Restart(p) ==
  /\ proc[p] = "down"
  /\ proc' = [proc EXCEPT ![p] = "up"]
  /\ UNCHANGED <<queueVars, slot, quar, origin, faultVars, historyVars>>

\* A live process still works on the job.
Held(j) == \/ \E s \in Slots : slot[s].ph \in Owning /\ slot[s].job = j
           \/ \E p \in Procs : j \in quar[p]

\* The lease of a job nobody works on any more.
OrphanLapses(j) ==
  /\ ~Held(j)
  /\ LeaseLapses(j)
  /\ UNCHANGED <<workerVars, faultVars, historyVars>>

\* The lease of a job a live process still works on.
LiveLeaseLapses(j) ==
  /\ stale < MaxStale
  /\ Held(j)
  /\ LeaseLapses(j)
  /\ stale' = stale + 1
  /\ UNCHANGED <<workerVars, crashes, lost, historyVars>>

DelayEnds(j) ==
  /\ BecomesDue(j)
  /\ UNCHANGED <<workerVars, faultVars, historyVars>>

-----------------------------------------------------------------------------
JobStep(j) ==
  \/ \E due \in BOOLEAN : Submit(j, due)
  \/ CancelJob(j) \/ OrphanLapses(j) \/ LiveLeaseLapses(j) \/ DelayEnds(j)

ProcStep(p) ==
  \/ Lock(p) \/ Conflict(p) \/ ClaimAborted(p) \/ Dequeue(p) \/ DequeueLost(p)
  \/ \E j \in Jobs : QuarantineRow(p, j) \/ QuarantineFails(p, j)
  \/ StopRun(p) \/ Exit(p) \/ Crash(p) \/ Restart(p)

SlotStep(s) ==
  \/ StartHandler(s) \/ RequeueUnhandled(s) \/ GiveUpUnhandled(s) \/ Renew(s)
  \/ HandlerSucceeds(s) \/ HandlerFails(s) \/ AckJob(s) \/ NackSelect(s)
  \/ NackUpdate(s) \/ MarkDead(s) \/ RouteToDLQ(s) \/ DLQFull(s) \/ WriteFails(s)

Next == \/ Sweep
        \/ \E j \in Jobs : JobStep(j)
        \/ \E p \in Procs : ProcStep(p)
        \/ \E s \in Slots : SlotStep(s)

Spec == Init /\ [][Next]_vars

-----------------------------------------------------------------------------
(* Fairness.  Run loops forever, so a process that stays up keeps sweeping  *)
(* and claiming; goroutines are scheduled; handlers return; leases lapse    *)
(* and delays end because time passes; a supervisor restarts a process that *)
(* exited.  Nothing forces a submission, a cancellation, a stop or a fault. *)

Claims(p) == Lock(p) \/ Conflict(p) \/ Dequeue(p)

Returns(s) == HandlerSucceeds(s) \/ HandlerFails(s)

Proceeds(s) ==
  \/ StartHandler(s) \/ RequeueUnhandled(s) \/ GiveUpUnhandled(s)
  \/ Returns(s) \/ AckJob(s) \/ NackSelect(s) \/ NackUpdate(s)
  \/ MarkDead(s) \/ RouteToDLQ(s) \/ DLQFull(s)

Fairness ==
  /\ WF_vars(Sweep)
  /\ \A j \in Jobs : WF_vars(OrphanLapses(j)) /\ WF_vars(DelayEnds(j))
  /\ \A p \in Procs : /\ WF_vars(Claims(p))
                       /\ WF_vars(\E j \in Jobs : QuarantineRow(p, j))
                       /\ WF_vars(Exit(p)) /\ WF_vars(Restart(p))
  /\ \A s \in Slots : WF_vars(Proceeds(s))

FairSpec == Spec /\ Fairness

-----------------------------------------------------------------------------
(* Properties *)

Owns(s, j) == slot[s].ph \in Owning /\ slot[s].job = j

TypeOK ==
  /\ row \in [Jobs -> Row]
  /\ locked \in [Procs -> SUBSET Jobs]
  /\ proc \in [Procs -> {"up", "draining", "down"}]
  /\ slot \in [Slots -> Task]
  /\ \A s \in Slots : slot[s].ph # "idle" => slot[s].job \in Jobs
  /\ quar \in [Procs -> SUBSET Jobs]
  /\ origin \in [DLQIds -> Jobs \cup {NoJob}]
  /\ crashes \in 0 .. MaxCrashes /\ lost \in 0 .. MaxLost /\ stale \in 0 .. MaxStale
  /\ starts \in [Jobs -> Nat] /\ requeued \in [Jobs -> Nat]
  /\ done \subseteq Jobs

\* Two rows of one non-empty group_key are never running together, whatever
\* the claims, sweeps and outcome writes of all processes interleave to
\* (migrate.go:74-92; Dequeue's WHERE clause, its dedup and the index).
OneRunningPerKey == \A j, k \in Running : SameKey(j, k) => j = k

\* No two goroutines, in any processes, work on one job or on two jobs of one
\* key, from claim to outcome write (jobs.go:63, "at most one job per key runs
\* at a time").  The row says who runs; this says the handlers agree with it.
HandlersExclusive ==
  \A s, t \in Slots : \A j, k \in Jobs :
    s # t /\ Owns(s, j) /\ Owns(t, k) => j # k /\ ~SameKey(j, k)

\* A handler is started at most MaxRetry times for a job, across retries,
\* crashes, reclaims and requeues (events-jobs.md:776-778).
RunBudget == \A j \in Jobs : starts[j] <= MaxRetry[j]

\* A finished job stays finished: no outcome write, sweep, requeue or claim
\* moves a succeeded, dead or cancelled row (queue.go, reclaimExpired: "It
\* cannot resurrect a finished job").
FinishedStays ==
  [][\A j \in Jobs : row[j].status \in Terminal
                        => row'[j].status = row[j].status]_vars

\* Unless a process died or a database call was lost, a job whose handler
\* returned success is acknowledged or about to be, also while its process
\* drains; it never runs again (worker.go, terminalContext).
SuccessIsKept ==
  crashes = 0 /\ lost = 0 =>
    \A j \in done : \/ row[j].status = "succeeded"
                    \/ \E s \in Slots : Owns(s, j) /\ slot[s].ph = "succeeded"

\* A submitted job is dead-lettered for want of a handler only after it has
\* been handed on MaxUnhandled times (events-jobs.md:800-808).
HandedOnBeforeDeath ==
  [][\A s \in Slots : slot[s].job \notin DLQIds /\ GiveUpUnhandled(s)
                         => requeued[slot[s].job] >= MaxUnhandled]_vars

\* As long as no process died, no database call was lost and every process has
\* the DLQ configured, a dead job that they all can decode has its DLQ copy, or a
\* goroutine about to enqueue it (worker.go:57-60, "dead jobs are re-enqueued under
\* this type").
HandlerDeathIsRouted ==
  crashes = 0 /\ lost = 0 /\ HandlesDLQ = Procs =>
    \A j \in Jobs \ DLQIds :
      row[j].status = "dead" /\ (\A p \in Procs : j \notin Undecodable[p]) =>
        \/ \E e \in DLQIds : origin[e] = j
        \/ \E s \in Slots : slot[s].ph = "dlq" /\ slot[s].job = j

\* The promise of JobLifecycle, with the row's status read as the abstract state.
Life == [j \in Jobs |->
           CASE row[j].status = "absent"       -> "absent"
             [] row[j].status \in Waiting      -> "waiting"
             [] row[j].status = "running"      -> "active"
             [] row[j].status \in Terminal     -> "finished"]

Lifecycle == INSTANCE JobLifecycle WITH life <- Life, tries <- starts

\* The queue and its workers implement the promise as long as no lease of a
\* live worker lapses.
ImplementsLifecycle == Lifecycle!Spec

\* Once processes stop being stopped, every submitted job reaches a final
\* state, whatever crashed, failed, went stale or was handed on before.
EventuallyFinished ==
  <>[][\A p \in Procs : ~StopRun(p)]_vars =>
    \A j \in Jobs : (row[j].status # "absent") ~> (row[j].status \in Terminal)

-----------------------------------------------------------------------------
(* The inductive invariant behind the properties, for MaxStale = 0: a       *)
(* goroutine that owns a job is the only one, and its row still says so.    *)

\* Rows, whoever wrote them last.
RowsInv == \A j \in Jobs :
  /\ row[j].attempts <= MaxRetry[j]
  /\ starts[j] <= row[j].attempts
  /\ row[j].status = "absent" => row[j].attempts = 0
  /\ row[j].status \in Waiting => /\ row[j].lease = "none"
                                  /\ row[j].attempts < MaxRetry[j]

\* Candidates locked by an open claim are still waiting, and locked once.
LocksInv ==
  /\ IsPG \/ \A p \in Procs : locked[p] = {}
  /\ \A p \in Procs : \A j \in locked[p] :
       /\ row[j].status \in Waiting
       /\ proc[p] # "down"
  /\ \A p, x \in Procs : \A j \in locked[p] \cap locked[x] : p = x

\* The row of an owned job is running, leased, and counts this attempt.
HasRow(s) ==
  LET j == slot[s].job
  IN  /\ row[j].status = "running"
      /\ row[j].lease = "held"
      /\ row[j].attempts = slot[s].att
      /\ proc[ProcOf[s]] # "down"
      /\ slot[s].ph = "claimed" => starts[j] < slot[s].att
      /\ slot[s].ph \in {"failed", "nacking"} => slot[s].att < MaxRetry[j]
      /\ slot[s].ph = "nacking" => slot[s].seen = slot[s].att

OwnersInv ==
  /\ \A s \in Slots : slot[s].ph \in Owning => HasRow(s)
  /\ \A s, t \in Slots :
       /\ slot[s].ph \in Owning /\ slot[t].ph \in Owning
       /\ slot[s].job = slot[t].job
       => s = t

\* A row set aside for quarantine is running, leased, and owned by nobody.
QuarInv ==
  /\ \A p \in Procs : \A j \in quar[p] :
       /\ row[j].status = "running"
       /\ row[j].lease = "held"
       /\ proc[p] # "down"
       /\ \A s \in Slots : ~Owns(s, j)
  /\ \A p, x \in Procs : \A j \in quar[p] \cap quar[x] : p = x

IInv == /\ TypeOK /\ OneRunningPerKey
        /\ RowsInv /\ LocksInv /\ OwnersInv /\ QuarInv

=============================================================================
