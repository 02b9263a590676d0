---------------------------- MODULE Idempotency -----------------------------
(***************************************************************************)
(* The idempotency middleware (middleware/idempotency/idempotency.go):     *)
(* concurrent requests bearing one Idempotency-Key, in one or more         *)
(* replicas, around a CacheStore and a Locker.                             *)
(*                                                                         *)
(* Cache keys do not interact, so the model has one.  The store and the    *)
(* lock a replica uses are given by StoreAt and LockAt: its own, as with   *)
(* MemoryCache and the default Locker, or one shared by all replicas.      *)
(* Waits says whether Acquire blocks on a holder (the default Locker) or   *)
(* returns acquired = false at once (the SETNX-style Locker that the       *)
(* Locker interface describes).                                            *)
(*                                                                         *)
(* Budgets: MaxErrors pipelines that end without a 2xx response, before or *)
(* after their write is durable, by an error, a status or a panic;         *)
(* MaxExpiries entries that expire or are evicted; MaxLockErrors errors of *)
(* Acquire, the waiter's cancelled context among them; MaxCrashes replicas *)
(* that die.                                                               *)
(***************************************************************************)
EXTENDS Naturals, FiniteSets

CONSTANTS
  Requests, Replicas,
  At,        \* Requests -> the replica that serves it
  Body,      \* Requests -> hash of its body
  StoreAt, LockAt,   \* Replicas -> place of the store and of the lock
  Waits,
  MaxErrors, MaxExpiries, MaxLockErrors, MaxCrashes,
  None

Places == {StoreAt[p] : p \in Replicas} \cup {LockAt[p] : p \in Replicas}

ASSUME IdempotencyAssumption ==
  /\ At \in [Requests -> Replicas]
  /\ Waits \in BOOLEAN
  /\ MaxErrors \in Nat /\ MaxExpiries \in Nat /\ MaxLockErrors \in Nat /\ MaxCrashes \in Nat
  /\ None \notin Requests /\ "error" \notin Requests /\ "mismatch" \notin Requests

VARIABLES
  store,   \* places -> the request whose response is cached under the key, or None
  lock,    \* places -> the request that holds the key, or None
  ph,      \* Requests -> where its goroutine is
  on,      \* Requests -> the holder whose channel it waits for
  holds,   \* requests that acquired the lock and have not closed its channel
  reply,   \* Requests -> its response
  execs,   \* requests whose write is durable
  errors, expiries, lockErrors, crashes   \* faults spent

faultVars == <<errors, expiries, lockErrors, crashes>>
vars == <<store, lock, ph, on, holds, reply, execs, errors, expiries, lockErrors,
          crashes>>

Phases == {"new", "missed", "waiting", "recheck", "locked", "running", "committed",
           "releasing", "closing", "done", "gone"}

\* A response is an error, a 422, or the 2xx response of the execution it names.
Replies == {None, "error", "mismatch"} \cup Requests

Init ==
  /\ store = [x \in Places |-> None]
  /\ lock = [x \in Places |-> None]
  /\ ph = [r \in Requests |-> "new"]
  /\ on = [r \in Requests |-> None]
  /\ holds = {}
  /\ reply = [r \in Requests |-> None]
  /\ execs = {}
  /\ errors = 0 /\ expiries = 0 /\ lockErrors = 0 /\ crashes = 0

Cached(r) == store[StoreAt[At[r]]]
Holder(r) == lock[LockAt[At[r]]]

Goto(r, x) == ph' = [ph EXCEPT ![r] = x]

\* The middleware returns; its deferred release runs if it acquired the lock.
Leave(r) == Goto(r, IF r \in holds THEN "releasing" ELSE "done")

-----------------------------------------------------------------------------
(* The cache *)

\* Mutant: the body hash of the entry is not compared.
ReplayAny(r) == reply' = [reply EXCEPT ![r] = Cached(r)]

Replay(r) == reply' = [reply EXCEPT ![r] = IF Body[Cached(r)] = Body[r] THEN Cached(r)
                                                                   ELSE "mismatch"]

\* replayCached, then what the middleware does after a miss.
Lookup(r, from, miss) ==
  /\ ph[r] = from
  /\ \/ Cached(r) # None /\ Replay(r) /\ Leave(r)
     \/ Cached(r) = None /\ Goto(r, miss) /\ UNCHANGED reply
  /\ UNCHANGED <<store, lock, on, holds, execs, faultVars>>

FirstLookup(r) == Lookup(r, "new", "missed")

\* acquired = false: after a miss the request runs the pipeline without the lock.
Recheck(r) == Lookup(r, "recheck", "running")

\* Mutant: no second look once the lock is acquired.
LockedUnchecked(r) ==
  /\ ph[r] = "locked"
  /\ Goto(r, "running")
  /\ UNCHANGED <<store, lock, on, holds, reply, execs, faultVars>>

LockedLookup(r) == Lookup(r, "locked", "running")

-----------------------------------------------------------------------------
(* The lock *)

\* LoadOrStore, or SETNX.
Acquire(r) ==
  /\ ph[r] = "missed"
  /\ \/ /\ Holder(r) = None
        /\ lock' = [lock EXCEPT ![LockAt[At[r]]] = r]
        /\ holds' = holds \cup {r}
        /\ Goto(r, "locked")
        /\ UNCHANGED on
     \/ /\ Holder(r) # None
        /\ on' = [on EXCEPT ![r] = Holder(r)]
        /\ Goto(r, IF Waits THEN "waiting" ELSE "recheck")
        /\ UNCHANGED <<lock, holds>>
  /\ UNCHANGED <<store, reply, execs, faultVars>>

\* The holder has closed its channel.
Woken(r) ==
  /\ ph[r] = "waiting"
  /\ on[r] \notin holds
  /\ Goto(r, "recheck")
  /\ UNCHANGED <<store, lock, on, holds, reply, execs, faultVars>>

\* An error of Acquire fails open.
LockError(r) ==
  /\ lockErrors < MaxLockErrors
  /\ ph[r] \in {"missed", "waiting"}
  /\ Goto(r, "running")
  /\ lockErrors' = lockErrors + 1
  /\ UNCHANGED <<store, lock, on, holds, reply, execs, errors, expiries, crashes>>

\* release: Delete, then close.  Callers may arrive in between.
Delete(r) ==
  /\ ph[r] = "releasing"
  /\ lock' = [lock EXCEPT ![LockAt[At[r]]] = None]
  /\ Goto(r, "closing")
  /\ UNCHANGED <<store, on, holds, reply, execs, faultVars>>

Close(r) ==
  /\ ph[r] = "closing"
  /\ holds' = holds \ {r}
  /\ Goto(r, "done")
  /\ UNCHANGED <<store, lock, on, reply, execs, faultVars>>

-----------------------------------------------------------------------------
(* The rest of the pipeline *)

\* The write of the operation becomes durable.
Execute(r) ==
  /\ ph[r] = "running"
  /\ execs' = execs \cup {r}
  /\ Goto(r, "committed")
  /\ UNCHANGED <<store, lock, on, holds, reply, faultVars>>

\* A 2xx response.  It is cached only by the request that holds the lock.
Respond(r) ==
  /\ ph[r] = "committed"
  /\ reply' = [reply EXCEPT ![r] = r]
  /\ store' = IF r \in holds THEN [store EXCEPT ![StoreAt[At[r]]] = r] ELSE store
  /\ Leave(r)
  /\ UNCHANGED <<lock, on, holds, execs, faultVars>>

\* Mutant: the error path returns without the deferred release.
FailHolding(r) ==
  /\ errors < MaxErrors
  /\ ph[r] \in {"running", "committed"}
  /\ reply' = [reply EXCEPT ![r] = "error"]
  /\ errors' = errors + 1
  /\ Goto(r, "done")
  /\ UNCHANGED <<store, lock, on, holds, execs, expiries, lockErrors, crashes>>

\* Mutant: the status of the response is not looked at before it is cached.
FailCached(r) ==
  /\ errors < MaxErrors
  /\ ph[r] \in {"running", "committed"}
  /\ reply' = [reply EXCEPT ![r] = "error"]
  /\ store' = IF r \in holds THEN [store EXCEPT ![StoreAt[At[r]]] = r] ELSE store
  /\ errors' = errors + 1
  /\ Leave(r)
  /\ UNCHANGED <<lock, on, holds, execs, expiries, lockErrors, crashes>>

Fail(r) ==
  /\ errors < MaxErrors
  /\ ph[r] \in {"running", "committed"}
  /\ reply' = [reply EXCEPT ![r] = "error"]
  /\ errors' = errors + 1
  /\ Leave(r)
  /\ UNCHANGED <<store, lock, on, holds, execs, expiries, lockErrors, crashes>>

-----------------------------------------------------------------------------
(* Time and crashes *)

Expire(x) ==
  /\ expiries < MaxExpiries
  /\ store[x] # None
  /\ store' = [store EXCEPT ![x] = None]
  /\ expiries' = expiries + 1
  /\ UNCHANGED <<lock, ph, on, holds, reply, execs, errors, lockErrors, crashes>>

\* A replica dies with its goroutines and whatever it keeps in its own memory.
Crash(p) ==
  /\ crashes < MaxCrashes
  /\ ph' = [r \in Requests |-> IF At[r] = p /\ ph[r] \notin {"new", "done"} THEN "gone"
                                                                     ELSE ph[r]]
  /\ holds' = {r \in holds : At[r] # p}
  /\ store' = [x \in Places |-> IF x = p THEN None ELSE store[x]]
  /\ lock' = [x \in Places |-> IF x = p THEN None ELSE lock[x]]
  /\ crashes' = crashes + 1
  /\ UNCHANGED <<on, reply, execs, errors, expiries, lockErrors>>

-----------------------------------------------------------------------------
Step(r) ==
  \/ FirstLookup(r) \/ Acquire(r) \/ Woken(r) \/ Recheck(r) \/ LockedLookup(r)
  \/ Execute(r) \/ Respond(r) \/ Delete(r) \/ Close(r)

Next ==
  \/ \E r \in Requests : Step(r) \/ LockError(r) \/ Fail(r)
  \/ \E x \in Places : Expire(x)
  \/ \E p \in Replicas : Crash(p)

Spec == Init /\ [][Next]_vars

\* Goroutines are scheduled and the pipeline returns, one way or the other.
FairSpec == Spec /\ \A r \in Requests : WF_vars((Step(r) /\ ph[r] # "new") \/ Fail(r))

-----------------------------------------------------------------------------
(* Properties *)

TypeOK ==
  /\ store \in [Places -> Requests \cup {None}]
  /\ lock \in [Places -> Requests \cup {None}]
  /\ ph \in [Requests -> Phases]
  /\ on \in [Requests -> Requests \cup {None}]
  /\ holds \subseteq Requests /\ execs \subseteq Requests
  /\ reply \in [Requests -> Replies]
  /\ errors \in 0 .. MaxErrors /\ expiries \in 0 .. MaxExpiries
  /\ lockErrors \in 0 .. MaxLockErrors /\ crashes \in 0 .. MaxCrashes

\* No request is answered with the response to a different body, whatever races,
\* expires or dies.
AnswerIsForBody ==
  \A r \in Requests : reply[r] \in Requests => Body[reply[r]] = Body[r]

\* A success that is cached or replayed is that of a durable write.
AnswerIsDurable ==
  /\ \A r \in Requests : reply[r] \in Requests => reply[r] \in execs
  /\ \A x \in Places : store[x] # None => store[x] \in execs

Quiet == errors = 0 /\ expiries = 0 /\ lockErrors = 0 /\ crashes = 0

\* The lock makes its callers wait, and requests it serialises look into one store.
Serialised == /\ Waits
              /\ \A p, q \in Replicas : LockAt[p] = LockAt[q] => StoreAt[p] = StoreAt[q]

SameLock(r, s) == LockAt[At[r]] = LockAt[At[s]]

\* While nothing fails, expires or dies, one key is one operation wherever one lock
\* reaches: its write happens once, however many requests race, and whatever
\* other replicas do to the store.
OneExecution == Serialised /\ Quiet => \A r, s \in execs : SameLock(r, s) => r = s

\* Every request that arrives is answered, or its replica died: nobody waits for a
\* channel that is never closed.
EveryoneAnswered ==
  \A r \in Requests : (ph[r] \notin {"new", "done", "gone"}) ~> (ph[r] \in {"done", "gone"})

-----------------------------------------------------------------------------
(* The inductive invariant behind the safety properties. *)

\* Only a request whose write is durable has something to cache.
CommittedInv == \A r \in Requests : ph[r] = "committed" => r \in execs

InLock == {"locked", "running", "committed", "releasing"}

\* In a serialised, quiet system the lock table names exactly the requests between
\* Acquire and Delete, and only they run the pipeline.
LockInv ==
  \A r \in Requests :
    /\ ph[r] # "gone"
    /\ r \in holds <=> ph[r] \in InLock \cup {"closing"}
    /\ ph[r] \in InLock => Holder(r) = r
    /\ Holder(r) # None => ph[Holder(r)] \in InLock /\ SameLock(Holder(r), r)

\* There the lock is given up, and waiters look again, only once an entry is in the
\* store, and nobody runs again what the lock's requests
\* have written.
StoreInv ==
  /\ \A r \in Requests :
       /\ ph[r] \in {"recheck", "releasing", "closing"} => Cached(r) # None
       /\ ph[r] = "waiting" => \/ on[r] \in holds /\ SameLock(on[r], r)
                               \/ Cached(r) # None
       /\ ph[r] = "running" => \A s \in execs : ~SameLock(r, s)
  /\ \A r \in execs : ph[r] = "committed" \/ Cached(r) # None

IInv ==
  /\ TypeOK /\ AnswerIsForBody /\ AnswerIsDurable /\ CommittedInv
  /\ Serialised /\ Quiet => LockInv /\ StoreInv /\ OneExecution

=============================================================================
