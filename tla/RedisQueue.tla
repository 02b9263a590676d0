---------------------------- MODULE RedisQueue -----------------------------
(***************************************************************************)
(* The Redis Streams queue (jobs/redis) and the workers that drain it      *)
(* (jobs/worker.go).                                                       *)
(*                                                                         *)
(* Redis holds a stream read through one consumer group, and a sorted set  *)
(* of delayed jobs.  Retrying a job is two commands: its stream entry is   *)
(* acknowledged, then a copy with the new counters is enqueued.  A process *)
(* finds the entry of a job in its pending map, keyed by job id, so        *)
(* whatever overwrites or removes a key decides what an outcome does.      *)
(*                                                                         *)
(* Order in the stream, priorities and payloads are left out, and so is    *)
(* the consumer named in the pending list: XACK, XAUTOCLAIM and XCLAIM     *)
(* act on an entry whoever has it.  GroupKey is not used by this queue.    *)
(***************************************************************************)
EXTENDS Naturals, FiniteSets

CONSTANTS
  Jobs, Msgs,      \* job ids; names for the stream entries in use
  Procs, Slots,    \* worker processes and their handler goroutines
  ProcOf,          \* Slots -> the process they belong to
  Handled,         \* Procs -> the jobs whose Type is in WorkerConfig.Handlers
  WithBackoff,     \* jobs with Job.Backoff set: their JSON does not decode
  MaxRetry,        \* Jobs -> attempts
  MaxUnhandled,    \* WorkerConfig.MaxUnhandledRequeues
  MaxFaults, MaxStale,   \* budgets: deaths and failed commands; live entries gone idle
  NoJob, NoMsg

ASSUME RedisAssumption ==
  /\ ProcOf \in [Slots -> Procs]
  /\ Handled \in [Procs -> SUBSET Jobs]
  /\ WithBackoff \subseteq Jobs
  /\ MaxRetry \in [Jobs -> Nat \ {0}]
  /\ MaxUnhandled \in Nat
  /\ MaxFaults \in Nat /\ MaxStale \in Nat
  /\ NoJob \notin Jobs /\ NoMsg \notin Msgs

VARIABLES
  msg,      \* Msgs -> entry: free, unread, pending, or pending past ReclaimMinIdle
  delayed,  \* the sorted set: copies of jobs, due or not
  pending,  \* Procs -> [Jobs -> Filing], the pending map
  slot,     \* Slots -> what its goroutine is doing
  faults, stale,   \* budgets spent
  submitted,              \* jobs whose Enqueue returned an id
  starts,   \* history: how often a handler was started for the job
  settled,  \* history: jobs that succeeded, ran out of attempts or of workers
  dropped   \* history: jobs whose copy was not enqueued after the acknowledgement

redisVars == <<msg, delayed>>
faultVars == <<faults, stale>>
historyVars == <<starts, settled, dropped>>
vars == <<msg, delayed, pending, slot, faults, stale, submitted, starts, settled,
          dropped>>

\* What is stored of a job: Attempts and the unhandled counter of its headers.
Copy == [job : Jobs, att : Nat, unh : Nat]
Entry == [st : {"free", "unread", "pending", "idle"}, job : Jobs \cup {NoJob},
          att : Nat, unh : Nat]

\* pendingEntry: the stream id, and the job as collect read it.
Filing == [m : Msgs \cup {NoMsg}, att : Nat, unh : Nat]
Nothing == [m |-> NoMsg, att |-> 0, unh |-> 0]
NoFilings == [j \in Jobs |-> Nothing]

\* att and unh are what the goroutine was handed or, once its outcome is
\* decided, what it will enqueue; entry is what it took from the pending map.
Task == [ph : {"idle", "claimed", "handling", "succeeded", "failed", "dying",
               "acking", "nacking", "returning"},
         job : Jobs \cup {NoJob}, att : Nat, unh : Nat, entry : Msgs \cup {NoMsg}]

Idle == [ph |-> "idle", job |-> NoJob, att |-> 0, unh |-> 0, entry |-> NoMsg]

Blank == [st |-> "free", job |-> NoJob, att |-> 0, unh |-> 0]

Init ==
  /\ msg = [m \in Msgs |-> Blank]
  /\ delayed = {}
  /\ pending = [p \in Procs |-> NoFilings]
  /\ slot = [s \in Slots |-> Idle]
  /\ faults = 0 /\ stale = 0
  /\ submitted = {}
  /\ starts = [j \in Jobs |-> 0]
  /\ settled = {} /\ dropped = {}

-----------------------------------------------------------------------------
(* Redis commands *)

Queued(m)    == msg[m].st = "unread"
Delivered(m) == msg[m].st \in {"pending", "idle"}

\* A live process can still address the entry.
Known(m) == \/ \E p \in Procs : \E j \in Jobs : pending[p][j].m = m
            \/ \E s \in Slots : slot[s].entry = m

\* XADD to a new id; a name stands for a new id once nobody remembers it.
Unused == {m \in Msgs : msg[m].st = "free" /\ ~Known(m)}
XAdd(c) ==
  /\ Unused # {}
  /\ msg' = [msg EXCEPT ![CHOOSE m \in Unused : TRUE] =
                [st |-> "unread", job |-> c.job, att |-> c.att, unh |-> c.unh]]

\* Attempts above MaxRetry are stored as MaxRetry: all the worker asks of them
\* is whether they are used up, and a job mixed up with its own copy may count
\* for ever.
Stored(j, att, unh) ==
  [job |-> j, att |-> IF att > MaxRetry[j] THEN MaxRetry[j] ELSE att, unh |-> unh]

\* enqueueAt: the sorted set when the time is ahead, else the stream.  The
\* member is the job's JSON: two equal copies are one member.
Put(c) == \/ delayed' = delayed \cup {c} /\ UNCHANGED msg
          \/ XAdd(c) /\ UNCHANGED delayed

\* XACK; no effect on an entry that is acknowledged already.
XAck(m) == msg' = [msg EXCEPT ![m] =
  IF Delivered(m) THEN Blank ELSE msg[m]]

\* Mutant: XADD and ZREM in one pipeline, the second half of which is lost.
PromoteTwice(c) ==
  /\ c \in delayed
  /\ XAdd(c)
  /\ \/ delayed' = delayed \ {c} /\ UNCHANGED faults
     \/ faults < MaxFaults /\ faults' = faults + 1 /\ UNCHANGED delayed
  /\ UNCHANGED <<pending, slot, stale, submitted, historyVars>>

\* The promoter's script, member by member, for one that is due by now.
Promote(c) ==
  /\ c \in delayed
  /\ XAdd(c)
  /\ delayed' = delayed \ {c}
  /\ UNCHANGED <<pending, slot, faultVars, submitted, historyVars>>

Submit(j) ==
  /\ j \notin submitted
  /\ Put([job |-> j, att |-> 0, unh |-> 0])
  /\ submitted' = submitted \cup {j}
  /\ UNCHANGED <<pending, slot, faultVars, historyVars>>

-----------------------------------------------------------------------------
(* Dequeue *)

\* Dequeue hands out one entry at a time here: those of one call are set apart
\* by nothing but the order of the goroutines they start.
Free(p) == {s \in Slots : ProcOf[s] = p /\ slot[s].ph = "idle"}

\* Mutant: XREADGROUP with NOACK, which keeps no pending list.
ClaimedNoAck(m) == msg' = [msg EXCEPT ![m] = Blank]

\* XREADGROUP of an unread entry, or XAUTOCLAIM of one that has been idle.
Claimed(m) == msg' = [msg EXCEPT ![m] = [msg[m] EXCEPT !.st = "pending"]]

\* Mutant: Dequeue without the reclaim step reads only unread entries.
ReadsOnlyNew(m) == Queued(m)

Claimable(m) == msg[m].st \in {"unread", "idle"}

\* collect: the delivery is counted in memory and the entry filed under its
\* job's id, over whatever was there.
Dequeue(p, m) ==
  LET j == msg[m].job
  IN  /\ Free(p) # {}
      /\ Claimable(m)
      /\ j \notin WithBackoff
      /\ Claimed(m)
      /\ pending' = [pending EXCEPT ![p] = [pending[p] EXCEPT ![j] =
                       [m |-> m, att |-> msg[m].att + 1, unh |-> msg[m].unh]]]
      /\ slot' = [slot EXCEPT ![CHOOSE s \in Free(p) : TRUE] =
                    [ph |-> "claimed", job |-> j, att |-> msg[m].att + 1,
                     unh |-> msg[m].unh, entry |-> NoMsg]]
      /\ UNCHANGED <<delayed, faultVars, submitted, historyVars>>

\* collect acknowledges an entry that does not decode and drops it.
DropUndecodable(p, m) ==
  /\ Free(p) # {}
  /\ Claimable(m)
  /\ msg[m].job \in WithBackoff
  /\ msg' = [msg EXCEPT ![m] = Blank]
  /\ UNCHANGED <<delayed, pending, slot, faultVars, submitted, historyVars>>

\* The reply never arrives, or the run context is cancelled first: the entry
\* is in the group's pending list and nowhere else.
DequeueLost(p, m) ==
  /\ Free(p) # {}
  /\ faults < MaxFaults
  /\ Claimable(m)
  /\ Claimed(m)
  /\ faults' = faults + 1
  /\ UNCHANGED <<delayed, pending, slot, stale, submitted, historyVars>>

-----------------------------------------------------------------------------
(* handle: one goroutine *)

HasHandler(s) == slot[s].job \in Handled[ProcOf[s]]
Goto(s, ph) == slot' = [slot EXCEPT ![s] = [slot[s] EXCEPT !.ph = ph]]
Release(s) == slot' = [slot EXCEPT ![s] = Idle]

\* A reclaimed entry is handed out with the attempts it was enqueued with, so
\* each crash or failed command gives a job one more run than MaxRetry.  One
\* run more than that is where the count of starts ends.
MaxStarts(j) == MaxRetry[j] + MaxFaults

StartHandler(s) ==
  /\ slot[s].ph = "claimed" /\ HasHandler(s)
  /\ Goto(s, "handling")
  /\ starts' = [starts EXCEPT ![slot[s].job] =
                   IF starts[slot[s].job] > MaxStarts(slot[s].job)
                     THEN starts[slot[s].job] ELSE starts[slot[s].job] + 1]
  /\ UNCHANGED <<redisVars, pending, faultVars, submitted, settled, dropped>>

\* RenewLease: XCLAIM of the entry now filed under the job, idle or not.  The
\* loop stops with the run context.
Renew(s) ==
  LET p == ProcOf[s]  m == pending[p][slot[s].job].m
  IN  /\ slot[s].ph = "handling"
      /\ m # NoMsg
      /\ msg[m].st = "idle"
      /\ Claimed(m)
      /\ UNCHANGED <<delayed, pending, slot, faultVars, submitted, historyVars>>

HandlerSucceeds(s) ==
  /\ slot[s].ph = "handling"
  /\ Goto(s, "succeeded")
  /\ settled' = settled \cup {slot[s].job}
  /\ UNCHANGED <<redisVars, pending, faultVars, submitted, starts, dropped>>

HandlerFails(s) ==
  LET j == slot[s].job
  IN  /\ slot[s].ph = "handling"
      /\ \/ /\ slot[s].att < MaxRetry[j]
            /\ Goto(s, "failed") /\ UNCHANGED settled
         \/ /\ slot[s].att >= MaxRetry[j]
            /\ Goto(s, "dying") /\ settled' = settled \cup {j}
      /\ UNCHANGED <<redisVars, pending, faultVars, submitted, starts, dropped>>

GiveUpUnhandled(s) ==
  /\ slot[s].ph = "claimed" /\ ~HasHandler(s)
  /\ slot[s].unh >= MaxUnhandled
  /\ Goto(s, "dying")
  /\ settled' = settled \cup {slot[s].job}
  /\ UNCHANGED <<redisVars, pending, faultVars, submitted, starts, dropped>>

\* The goroutine takes the entry of its job off the pending map.
Filed(s) == pending[ProcOf[s]][slot[s].job]
Take(s) == LET p == ProcOf[s]
           IN  pending' = [pending EXCEPT ![p] =
                             [pending[p] EXCEPT ![slot[s].job] = Nothing]]

\* Ack, and markDead's Dead: xack without an entry does nothing.
Settle(s) ==
  /\ slot[s].ph \in {"succeeded", "dying"}
  /\ Take(s)
  /\ IF Filed(s).m = NoMsg
       THEN Release(s)
       ELSE slot' = [slot EXCEPT ![s] = [slot[s] EXCEPT !.ph = "acking",
                                                        !.entry = Filed(s).m]]
  /\ UNCHANGED <<redisVars, faultVars, submitted, historyVars>>

\* Nack without an entry does nothing; with one it retries the job as that
\* entry has it, which need not be the delivery that failed.
Nack(s) ==
  LET e == Filed(s)
  IN  /\ slot[s].ph = "failed"
      /\ Take(s)
      /\ IF e.m = NoMsg
           THEN Release(s)
           ELSE slot' = [slot EXCEPT ![s] = [ph |-> "nacking", job |-> slot[s].job,
                           att |-> e.att, unh |-> e.unh, entry |-> e.m]]
      /\ UNCHANGED <<redisVars, faultVars, submitted, historyVars>>

\* requeueUnhandled and Requeue: the attempt is given back and the requeue
\* counted; without an entry the copy is enqueued all the same.
RequeueUnhandled(s) ==
  LET e == Filed(s)
  IN  /\ slot[s].ph = "claimed" /\ ~HasHandler(s)
      /\ slot[s].unh < MaxUnhandled
      /\ Take(s)
      /\ slot' = [slot EXCEPT ![s] =
                    [ph |-> IF e.m = NoMsg THEN "returning" ELSE "nacking",
                     job |-> slot[s].job, att |-> slot[s].att - 1,
                     unh |-> slot[s].unh + 1, entry |-> e.m]]
      /\ UNCHANGED <<redisVars, faultVars, submitted, historyVars>>

\* XACK of a settled job.
AckEntry(s) ==
  /\ slot[s].ph = "acking"
  /\ XAck(slot[s].entry)
  /\ Release(s)
  /\ UNCHANGED <<delayed, pending, faultVars, submitted, historyVars>>

\* XACK of a job that is to be enqueued again.
AckFirst(s) ==
  /\ slot[s].ph = "nacking"
  /\ XAck(slot[s].entry)
  /\ slot' = [slot EXCEPT ![s] = [slot[s] EXCEPT !.ph = "returning", !.entry = NoMsg]]
  /\ UNCHANGED <<delayed, pending, faultVars, submitted, historyVars>>

EnqueueAgain(s) ==
  /\ slot[s].ph = "returning"
  /\ Put(Stored(slot[s].job, slot[s].att, slot[s].unh))
  /\ Release(s)
  /\ UNCHANGED <<pending, faultVars, submitted, historyVars>>

\* A command fails: before it reached Redis, or with its reply.  The worker
\* logs it and forgets the job.
CommandFails(s) ==
  /\ faults < MaxFaults
  /\ \/ /\ slot[s].ph \in {"acking", "nacking"}
        /\ UNCHANGED <<msg, dropped>>
     \/ /\ slot[s].ph \in {"acking", "nacking"}
        /\ XAck(slot[s].entry)
        /\ dropped' = IF slot[s].ph = "nacking" THEN dropped \cup {slot[s].job}
                                                ELSE dropped
     \/ /\ slot[s].ph = "returning"
        /\ dropped' = dropped \cup {slot[s].job}
        /\ UNCHANGED msg
  /\ Release(s)
  /\ faults' = faults + 1
  /\ UNCHANGED <<delayed, pending, stale, submitted, starts, settled>>

-----------------------------------------------------------------------------
(* Processes and the clock *)

\* A process dies and a supervisor starts it again: what it knew is gone.  One
\* that is stopped in good order finishes its handlers first, and until it is
\* back only does not dequeue or renew for a while.
Crash(p) ==
  /\ faults < MaxFaults
  /\ pending' = [pending EXCEPT ![p] = NoFilings]
  /\ slot' = [s \in Slots |-> IF ProcOf[s] = p THEN Idle ELSE slot[s]]
  /\ dropped' = dropped \cup {slot[s].job : s \in {s \in Slots :
                                ProcOf[s] = p /\ slot[s].ph = "returning"}}
  /\ faults' = faults + 1
  /\ UNCHANGED <<redisVars, stale, submitted, starts, settled>>

GoesIdle(m) == /\ msg[m].st = "pending"
               /\ msg' = [msg EXCEPT ![m] = [msg[m] EXCEPT !.st = "idle"]]

\* ReclaimMinIdle passes on an entry nobody remembers.
OrphanIdle(m) ==
  /\ ~Known(m)
  /\ GoesIdle(m)
  /\ UNCHANGED <<delayed, pending, slot, faultVars, submitted, historyVars>>

\* It passes on one a live process works on: renewals fail or are late, or
\* stopped with the run context while the handler went on.
LiveIdle(m) ==
  /\ stale < MaxStale
  /\ Known(m)
  /\ GoesIdle(m)
  /\ stale' = stale + 1
  /\ UNCHANGED <<delayed, pending, slot, faults, submitted, historyVars>>

-----------------------------------------------------------------------------
MsgStep(m) == OrphanIdle(m) \/ LiveIdle(m)

ProcStep(p) == \/ \E m \in Msgs : \/ Dequeue(p, m) \/ DropUndecodable(p, m)
                                  \/ DequeueLost(p, m)
               \/ Crash(p)

SlotStep(s) ==
  \/ StartHandler(s) \/ Renew(s) \/ HandlerSucceeds(s) \/ HandlerFails(s)
  \/ GiveUpUnhandled(s) \/ Settle(s) \/ Nack(s) \/ RequeueUnhandled(s)
  \/ AckEntry(s) \/ AckFirst(s) \/ EnqueueAgain(s) \/ CommandFails(s)

Next == \/ \E j \in Jobs : Submit(j)
        \/ \E c \in delayed : Promote(c)
        \/ \E m \in Msgs : MsgStep(m)
        \/ \E p \in Procs : ProcStep(p)
        \/ \E s \in Slots : SlotStep(s)

Spec == Init /\ [][Next]_vars

\* Run loops for ever and a supervisor restarts what exited, so a process with
\* a free slot dequeues in the end; goroutines are scheduled and handlers
\* return; the promoter ticks; time passes.  No fault or submission is forced.
Proceeds(s) ==
  \/ StartHandler(s) \/ HandlerSucceeds(s) \/ HandlerFails(s) \/ GiveUpUnhandled(s)
  \/ Settle(s) \/ Nack(s) \/ RequeueUnhandled(s) \/ AckEntry(s) \/ AckFirst(s)
  \/ EnqueueAgain(s)

Fairness ==
  /\ \A p \in Procs : WF_vars(\E m \in Msgs : Dequeue(p, m) \/ DropUndecodable(p, m))
  /\ \A s \in Slots : WF_vars(Proceeds(s))
  /\ \A m \in Msgs : WF_vars(OrphanIdle(m))
  /\ WF_vars(\E c \in delayed : Promote(c))

FairSpec == Spec /\ Fairness

-----------------------------------------------------------------------------
(* Properties *)

TypeOK ==
  /\ msg \in [Msgs -> Entry]
  /\ \A m \in Msgs : msg[m].st # "free" => msg[m].job \in Jobs
  /\ delayed \subseteq Copy
  /\ pending \in [Procs -> [Jobs -> Filing]]
  /\ slot \in [Slots -> Task]
  /\ \A s \in Slots : slot[s].ph # "idle" => slot[s].job \in Jobs
  /\ faults \in 0 .. MaxFaults /\ stale \in 0 .. MaxStale
  /\ submitted \subseteq Jobs /\ settled \subseteq Jobs /\ dropped \subseteq Jobs
  /\ starts \in [Jobs -> Nat]

\* Where a job can be on its way to a handler.
InStream(j)  == \E m \in Msgs : msg[m].st # "free" /\ msg[m].job = j
IsDelayed(j) == \E c \in delayed : c.job = j
Returning(j) == \E s \in Slots : slot[s].ph = "returning" /\ slot[s].job = j

\* A submitted job that has not succeeded or used up its chances is in the
\* stream, delayed, or in the hands of the goroutine that puts it back, through
\* crashes, lost replies and entries reclaimed from live workers and under any
\* mix-up of the pending map (queue.go:3-6, at-least-once delivery).  Excepted
\* are a job whose holder stopped between the two commands of Nack or Requeue,
\* and one that does not decode.
NoneForgotten == \A j \in submitted \ (settled \cup dropped \cup WithBackoff) :
  InStream(j) \/ IsDelayed(j) \/ Returning(j)

\* The abstract life of a job.
Waits(j) == IsDelayed(j) \/ \E m \in Msgs : Queued(m) /\ msg[m].job = j
IsOut(j) == \/ \E m \in Msgs : Delivered(m) /\ msg[m].job = j
            \/ Returning(j)
            \/ j \in dropped

Life == [j \in Jobs |-> IF j \notin submitted THEN "absent"
                        ELSE IF Waits(j) THEN "waiting"
                        ELSE IF IsOut(j) THEN "active"
                        ELSE "finished"]

Lifecycle == INSTANCE JobLifecycle WITH
  life <- Life, tries <- starts,
  NoKey <- NoJob, GroupOf <- [j \in Jobs |-> NoJob],
  MaxRetry <- [j \in Jobs |-> MaxStarts(j)]

\* As long as no entry of a live worker is reclaimed, the queue keeps what the
\* jobs package promises: one run of a job at a time, no more of them than
\* attempts and faults allow, and a finished job never runs again.
ImplementsLifecycle ==
  /\ Lifecycle!Init
  /\ [][stale' = 0 => Lifecycle!Next \/ UNCHANGED <<Life, starts>>]_vars

\* Every submitted job succeeds or uses up its chances, whatever crashed, was
\* lost or was reclaimed before, with the exceptions of NoneForgotten
\* (events-jobs.md:487-494).
EventuallySettled == \A j \in Jobs \ WithBackoff :
  (j \in submitted) ~> (j \in settled \cup dropped)

-----------------------------------------------------------------------------
(* The inductive invariant behind the safety properties.  FiledInv and      *)
(* OutcomeInv hold whatever goes idle; the rest says that as long as no     *)
(* entry of a live worker has, a job is in one place only, and in the hands *)
(* of one goroutine, which can address it.                                  *)

\* What a process remembers of an entry is about its own job or long gone.
FiledInv ==
  /\ \A p \in Procs : \A j \in Jobs :
       LET m == pending[p][j].m
       IN  m \in Msgs => msg[m].st = "free" \/ msg[m].job = j
  /\ \A s \in Slots :
       LET m == slot[s].entry
       IN  m \in Msgs => msg[m].st = "free" \/ msg[m].job = slot[s].job

OutcomeInv == \A s \in Slots :
  /\ slot[s].ph \in {"acking", "nacking"} => slot[s].entry \in Msgs
  /\ slot[s].ph \in {"succeeded", "dying", "acking"} => slot[s].job \in settled
  /\ slot[s].ph = "claimed" => slot[s].att > 0

Busy(s)  == slot[s].ph # "idle"
Works(s) == slot[s].ph \in {"claimed", "handling", "succeeded", "failed", "dying"}
Ends(s)  == slot[s].ph \in {"acking", "nacking"}
Mine(s)  == IF Works(s) THEN Filed(s).m ELSE slot[s].entry

HoldsInv == \A s \in Slots : Works(s) \/ Ends(s) =>
  /\ Mine(s) \in Msgs
  /\ msg[Mine(s)].st = "pending" /\ msg[Mine(s)].job = slot[s].job
  /\ Works(s) => /\ Filed(s).att = slot[s].att
                 /\ slot[s].att = msg[Mine(s)].att + 1

OneRunInv == \A s, t \in Slots :
  Busy(s) /\ Busy(t) /\ slot[s].job = slot[t].job => s = t

Listed(m) == msg[m].st # "free"

OnePlaceInv ==
  /\ \A m, n \in Msgs : Listed(m) /\ Listed(n) /\ msg[m].job = msg[n].job => m = n
  /\ \A c, d \in delayed : c.job = d.job => c = d
  /\ \A m \in Msgs : Listed(m) =>
       /\ msg[m].job \in submitted
       /\ \A c \in delayed : c.job # msg[m].job
       /\ \A s \in Slots : slot[s].ph = "returning" => slot[s].job # msg[m].job
  /\ \A c \in delayed :
       /\ c.job \in submitted
       /\ \A s \in Slots : slot[s].ph = "returning" => slot[s].job # c.job
  /\ \A s \in Slots : slot[s].ph = "returning" => slot[s].job \in submitted

\* Wherever a job is, its counter and the faults account for its runs.
Spent(j, n) == n < MaxRetry[j] /\ starts[j] <= n + faults

BudgetInv ==
  /\ \A c \in delayed : Spent(c.job, c.att)
  /\ \A m \in Msgs : Listed(m) =>
       /\ msg[m].att < MaxRetry[msg[m].job]
       /\ starts[msg[m].job] <= msg[m].att + faults + 1
       /\ (\A s \in Slots : Busy(s) => slot[s].job # msg[m].job)
            => starts[msg[m].job] <= msg[m].att + faults
  /\ \A s \in Slots :
       /\ slot[s].ph = "claimed" => starts[slot[s].job] < slot[s].att + faults
       /\ slot[s].ph = "failed" => slot[s].att < MaxRetry[slot[s].job]
       /\ slot[s].ph \in {"nacking", "returning"} => Spent(slot[s].job, slot[s].att)
  /\ \A j \in Jobs \ submitted : starts[j] = 0

AloneInv == stale = 0 => HoldsInv /\ OneRunInv /\ OnePlaceInv /\ BudgetInv

IInv == TypeOK /\ FiledInv /\ OutcomeInv /\ NoneForgotten /\ AloneInv

=============================================================================
