------------------------- MODULE Idempotency_proofs -------------------------
(* Theorems about Idempotency, for any number of requests and replicas, any *)
(* Locker and any fault budget.                                             *)
EXTENDS Idempotency, TLAPS

USE IdempotencyAssumption

-----------------------------------------------------------------------------
(* Type correctness *)

\* Every request's store and lock are places.
LEMMA PlacesOf == \A r \in Requests : StoreAt[At[r]] \in Places /\ LockAt[At[r]] \in Places
  BY DEF Places

\* The initial state is in its types.
LEMMA InitType == Init => TypeOK
  BY DEF Init, TypeOK, Phases, Replies

\* Every step keeps the variables in their types.
LEMMA TypeStep == ASSUME TypeOK, [Next]_vars
                  PROVE  TypeOK'
  <1> USE PlacesOf DEF TypeOK, faultVars
  <1>1. ASSUME NEW r \in Requests, FirstLookup(r)
        PROVE  TypeOK'
    BY <1>1 DEF FirstLookup, Lookup, Replay, Cached, Leave, Goto, Phases, Replies
  <1>2. ASSUME NEW r \in Requests, Acquire(r)
        PROVE  TypeOK'
    BY <1>2 DEF Acquire, Holder, Goto, Phases
  <1>3. ASSUME NEW r \in Requests, Woken(r)
        PROVE  TypeOK'
    BY <1>3 DEF Woken, Goto, Phases
  <1>4. ASSUME NEW r \in Requests, Recheck(r)
        PROVE  TypeOK'
    BY <1>4 DEF Recheck, Lookup, Replay, Cached, Leave, Goto, Phases, Replies
  <1>5. ASSUME NEW r \in Requests, LockedLookup(r)
        PROVE  TypeOK'
    BY <1>5 DEF LockedLookup, Lookup, Replay, Cached, Leave, Goto, Phases, Replies
  <1>6. ASSUME NEW r \in Requests, Execute(r)
        PROVE  TypeOK'
    BY <1>6 DEF Execute, Goto, Phases
  <1>7. ASSUME NEW r \in Requests, Respond(r)
        PROVE  TypeOK'
    BY <1>7 DEF Respond, Leave, Goto, Phases, Replies
  <1>8. ASSUME NEW r \in Requests, Delete(r)
        PROVE  TypeOK'
    BY <1>8 DEF Delete, Goto, Phases
  <1>9. ASSUME NEW r \in Requests, Close(r)
        PROVE  TypeOK'
    BY <1>9 DEF Close, Goto, Phases
  <1>10. ASSUME NEW r \in Requests, LockError(r)
         PROVE  TypeOK'
    BY <1>10 DEF LockError, Goto, Phases
  <1>11. ASSUME NEW r \in Requests, Fail(r)
         PROVE  TypeOK'
    BY <1>11 DEF Fail, Leave, Goto, Phases, Replies
  <1>12. ASSUME NEW x \in Places, Expire(x)
         PROVE  TypeOK'
    BY <1>12 DEF Expire
  <1>13. ASSUME NEW p \in Replicas, Crash(p)
         PROVE  TypeOK'
    BY <1>13 DEF Crash, Phases
  <1>14. CASE UNCHANGED vars
    BY <1>14 DEF vars
  <1> QED
    BY <1>1, <1>2, <1>3, <1>4, <1>5, <1>6, <1>7, <1>8, <1>9, <1>10, <1>11, <1>12, <1>13,
       <1>14 DEF Next, Step

\* Every variable stays in its type.
THEOREM TypeCorrect == Spec => []TypeOK
  BY InitType, TypeStep, PTL DEF Spec

-----------------------------------------------------------------------------
(* Answers *)

\* No reply is forged, and only durable writes are answered or cached.
Answers == AnswerIsForBody /\ AnswerIsDurable /\ CommittedInv

\* No reply, no entry, no phase "committed": nothing to answer for.
LEMMA InitAnswers == Init => Answers
  BY DEF Init, Answers, AnswerIsForBody, AnswerIsDurable, CommittedInv

\* A look-up that hits replays the entry only to a request with its body.
LEMMA LookupAnswers ==
  ASSUME TypeOK, Answers, NEW r \in Requests, NEW from \in Phases, NEW miss \in Phases,
         miss # "committed", Lookup(r, from, miss)
  PROVE  Answers'
  <1> USE PlacesOf DEF TypeOK, Answers, Lookup, Goto, faultVars
  <1>1. CASE Cached(r) # None /\ Replay(r) /\ Leave(r)
    <2>1. Cached(r) \in Requests /\ Cached(r) \in execs
      BY <1>1 DEF Cached, AnswerIsDurable
    <2>2. reply'[r] \in Requests => reply'[r] = Cached(r) /\ Body[Cached(r)] = Body[r]
      BY <1>1 DEF Replay
    <2>3. \A s \in Requests \ {r} : reply'[s] = reply[s]
      BY <1>1 DEF Replay
    <2>4. AnswerIsForBody' /\ AnswerIsDurable'
      BY <2>1, <2>2, <2>3 DEF AnswerIsForBody, AnswerIsDurable
    <2>5. CommittedInv'
      BY <1>1 DEF Leave, CommittedInv
    <2> QED BY <2>4, <2>5
  <1>2. CASE Cached(r) = None /\ Goto(r, miss) /\ UNCHANGED reply
    BY <1>2 DEF AnswerIsForBody, AnswerIsDurable, CommittedInv
  <1> QED BY <1>1, <1>2 DEF Lookup

\* Every step preserves it.
LEMMA AnswersStep == ASSUME TypeOK, Answers, [Next]_vars
                     PROVE  Answers'
  <1>1. ASSUME NEW r \in Requests, FirstLookup(r) \/ Recheck(r) \/ LockedLookup(r)
        PROVE  Answers'
    <2>1. {"new", "missed", "recheck", "running", "locked"} \subseteq Phases
      BY DEF Phases
    <2> QED BY <1>1, <2>1, LookupAnswers DEF FirstLookup, Recheck, LockedLookup
  <1> USE PlacesOf DEF TypeOK, Answers, AnswerIsForBody, AnswerIsDurable, CommittedInv, Goto,
                       Leave, faultVars
  <1>2. ASSUME NEW r \in Requests, Acquire(r)
        PROVE  Answers'
    BY <1>2 DEF Acquire
  <1>3. ASSUME NEW r \in Requests, Woken(r) \/ Delete(r) \/ Close(r) \/ LockError(r)
        PROVE  Answers'
    BY <1>3 DEF Woken, Delete, Close, LockError
  <1>4. ASSUME NEW r \in Requests, Execute(r)
        PROVE  Answers'
    BY <1>4 DEF Execute
  <1>5. ASSUME NEW r \in Requests, Respond(r)
        PROVE  Answers'
    <2>1. r \in execs /\ execs' = execs
      BY <1>5 DEF Respond
    <2>2. /\ \A s \in Requests : reply'[s] = IF s = r THEN r ELSE reply[s]
          /\ \A x \in Places : store'[x] \in {r, store[x]}
          /\ \A s \in Requests : ph'[s] = "committed" => ph[s] = "committed"
      BY <1>5 DEF Respond
    <2> QED BY <2>1, <2>2
  <1>6. ASSUME NEW r \in Requests, Fail(r)
        PROVE  Answers'
    <2>1. /\ \A s \in Requests : reply'[s] = IF s = r THEN "error" ELSE reply[s]
          /\ store' = store /\ execs' = execs
          /\ \A s \in Requests : ph'[s] = "committed" => ph[s] = "committed"
      BY <1>6 DEF Fail
    <2> QED BY <2>1
  <1>7. ASSUME NEW x \in Places, Expire(x)
        PROVE  Answers'
    BY <1>7 DEF Expire
  <1>8. ASSUME NEW p \in Replicas, Crash(p)
        PROVE  Answers'
    BY <1>8 DEF Crash
  <1>9. CASE UNCHANGED vars
    BY <1>9 DEF vars
  <1> QED
    BY <1>1, <1>2, <1>3, <1>4, <1>5, <1>6, <1>7, <1>8, <1>9 DEF Next, Step

\* No request is ever answered with the response to another body.
THEOREM RightBody == Spec => []AnswerIsForBody
  <1>1. TypeOK /\ Answers /\ [Next]_vars => (TypeOK /\ Answers)'
    BY TypeStep, AnswersStep
  <1>2. Init => TypeOK /\ Answers
    BY InitType, InitAnswers
  <1>3. Answers => AnswerIsForBody
    BY DEF Answers
  <1> QED BY <1>1, <1>2, <1>3, PTL DEF Spec

\* No success is ever answered or cached that is not that of a durable write.
THEOREM DurableAnswers == Spec => []AnswerIsDurable
  <1>1. TypeOK /\ Answers /\ [Next]_vars => (TypeOK /\ Answers)'
    BY TypeStep, AnswersStep
  <1>2. Init => TypeOK /\ Answers
    BY InitType, InitAnswers
  <1>3. Answers => AnswerIsDurable
    BY DEF Answers
  <1> QED BY <1>1, <1>2, <1>3, PTL DEF Spec

-----------------------------------------------------------------------------
(* One write per lock *)

\* A step into a quiet state starts in one, and is not a fault.
LEMMA QuietSteps ==
  ASSUME TypeOK, [Next]_vars, Quiet'
  PROVE  Quiet /\ ((\E r \in Requests : Step(r)) \/ UNCHANGED vars)
  <1>1. ASSUME NEW r \in Requests, LockError(r) \/ Fail(r)
        PROVE  FALSE
    BY <1>1 DEF LockError, Fail, Quiet, TypeOK
  <1>2. ASSUME NEW x \in Places, Expire(x)
        PROVE  FALSE
    BY <1>2 DEF Expire, Quiet, TypeOK
  <1>3. ASSUME NEW p \in Replicas, Crash(p)
        PROVE  FALSE
    BY <1>3 DEF Crash, Quiet, TypeOK
  <1>4. (\E r \in Requests : Step(r)) \/ UNCHANGED vars
    BY <1>1, <1>2, <1>3 DEF Next
  <1>5. UNCHANGED faultVars
    BY <1>4 DEF vars, faultVars, Step, FirstLookup, Recheck, LockedLookup, Lookup, Acquire,
                Woken, Execute, Respond, Delete, Close
  <1> QED BY <1>4, <1>5 DEF Quiet, faultVars

\* What a look-up does to the phases.
LEMMA LookupPhase ==
  ASSUME TypeOK, NEW r \in Requests, NEW from, NEW miss, Lookup(r, from, miss)
  PROVE  /\ ph[r] = from
         /\ \/ Cached(r) = None /\ ph' = [ph EXCEPT ![r] = miss]
            \/ Cached(r) # None /\ r \in holds /\ ph' = [ph EXCEPT ![r] = "releasing"]
            \/ Cached(r) # None /\ r \notin holds /\ ph' = [ph EXCEPT ![r] = "done"]
         /\ UNCHANGED <<store, lock, on, holds, execs>>
  BY DEF Lookup, Leave, Goto, faultVars

\* Holder in the next state.
LEMMA HolderNext ==
  /\ lock' = lock => \A s \in Requests : Holder(s)' = Holder(s)
  /\ TypeOK => \A s \in Requests : Holder(s) \in Requests \cup {None}
  BY PlacesOf DEF Holder, TypeOK

\* A request that moves on between Acquire and Delete, or outside, leaves the lock
\* table right.
LEMMA LockFrame ==
  ASSUME TypeOK, LockInv, NEW r \in Requests, NEW x, x # "gone",
         ph' = [ph EXCEPT ![r] = x], lock' = lock, holds' = holds,
         x \in InLock <=> ph[r] \in InLock,
         x = "closing" <=> ph[r] = "closing"
  PROVE  LockInv'
  <1>1. /\ ph'[r] = x
        /\ \A s \in Requests \ {r} : ph'[s] = ph[s]
    BY DEF TypeOK
  <1>2. ASSUME NEW s \in Requests
        PROVE  /\ ph'[s] # "gone"
               /\ ph'[s] \in InLock <=> ph[s] \in InLock
               /\ ph'[s] = "closing" <=> ph[s] = "closing"
    BY <1>1 DEF LockInv
  <1>3. ASSUME NEW s \in Requests
        PROVE  /\ s \in holds <=> ph'[s] \in InLock \cup {"closing"}
               /\ ph'[s] \in InLock => Holder(s) = s
               /\ Holder(s) # None => ph'[Holder(s)] \in InLock /\ SameLock(Holder(s), s)
    BY <1>2, HolderNext DEF LockInv
  <1> QED BY <1>2, <1>3, HolderNext DEF LockInv

\* The lock table is right after every quiet step of a serialised system.
LEMMA LockStep ==
  ASSUME TypeOK, LockInv, NEW r \in Requests, Step(r),
         ph[r] = "recheck" => Cached(r) # None
  PROVE  LockInv'
  <1>1. CASE FirstLookup(r)
    <2>1. ph[r] = "new" /\ r \notin holds /\ UNCHANGED <<lock, holds>>
      BY <1>1, LookupPhase DEF FirstLookup, LockInv, InLock
    <2>2. CASE ph' = [ph EXCEPT ![r] = "missed"]
      BY <2>1, <2>2, LockFrame DEF InLock
    <2>3. CASE ph' = [ph EXCEPT ![r] = "done"]
      BY <2>1, <2>3, LockFrame DEF InLock
    <2> QED BY <1>1, <2>1, <2>2, <2>3, LookupPhase DEF FirstLookup
  <1>2. CASE Recheck(r)
    <2>1. /\ ph[r] = "recheck" /\ r \notin holds /\ UNCHANGED <<lock, holds>>
          /\ ph' = [ph EXCEPT ![r] = "done"]
      BY <1>2, LookupPhase DEF Recheck, LockInv, InLock
    <2> QED BY <2>1, LockFrame DEF InLock
  <1>3. CASE LockedLookup(r)
    <2>1. ph[r] = "locked" /\ r \in holds /\ UNCHANGED <<lock, holds>>
      BY <1>3, LookupPhase DEF LockedLookup, LockInv, InLock
    <2>2. CASE ph' = [ph EXCEPT ![r] = "running"]
      BY <2>1, <2>2, LockFrame DEF InLock
    <2>3. CASE ph' = [ph EXCEPT ![r] = "releasing"]
      BY <2>1, <2>3, LockFrame DEF InLock
    <2> QED BY <1>3, <2>1, <2>2, <2>3, LookupPhase DEF LockedLookup
  <1>4. CASE Woken(r)
    BY <1>4, LockFrame DEF Woken, Goto, InLock
  <1>5. CASE Execute(r)
    BY <1>5, LockFrame DEF Execute, Goto, InLock
  <1>6. CASE Respond(r)
    <2>1. ph[r] = "committed" /\ r \in holds
      BY <1>6 DEF Respond, LockInv, InLock
    <2>2. ph' = [ph EXCEPT ![r] = "releasing"] /\ UNCHANGED <<lock, holds>>
      BY <1>6, <2>1 DEF Respond, Leave, Goto
    <2> QED BY <2>1, <2>2, LockFrame DEF InLock
  <1>7. CASE Acquire(r)
    <2>1. CASE Holder(r) # None
      <3>1. \E x \in {"waiting", "recheck"} : ph' = [ph EXCEPT ![r] = x]
        BY <1>7, <2>1 DEF Acquire, Goto
      <3>2. ph[r] = "missed" /\ UNCHANGED <<lock, holds>>
        BY <1>7, <2>1 DEF Acquire
      <3> QED BY <3>1, <3>2, LockFrame DEF InLock
    <2>2. CASE Holder(r) = None
      <3>1. /\ ph[r] = "missed" /\ ph' = [ph EXCEPT ![r] = "locked"]
            /\ lock' = [lock EXCEPT ![LockAt[At[r]]] = r]
            /\ holds' = holds \cup {r}
        BY <1>7, <2>2 DEF Acquire, Goto
      <3>2. ASSUME NEW s \in Requests
            PROVE  Holder(s)' = IF SameLock(r, s) THEN r ELSE Holder(s)
        BY <3>1, PlacesOf DEF Holder, SameLock, TypeOK
      <3>3. ASSUME NEW s \in Requests, SameLock(r, s)
            PROVE  Holder(s) = None /\ ph[s] \notin InLock
        <4>1. Holder(s) = None
          BY <2>2, <3>3 DEF Holder, SameLock
        <4> QED BY <4>1 DEF LockInv
      <3>4. ph'[r] = "locked" /\ \A s \in Requests \ {r} : ph'[s] = ph[s]
        BY <3>1 DEF TypeOK
      <3>5. ASSUME NEW s \in Requests
            PROVE  /\ ph'[s] # "gone"
                   /\ s \in holds' <=> ph'[s] \in InLock \cup {"closing"}
                   /\ ph'[s] \in InLock => Holder(s)' = s
        BY <3>1, <3>2, <3>3, <3>4 DEF LockInv, InLock, SameLock
      <3>6. ASSUME NEW s \in Requests, Holder(s)' # None
            PROVE  ph'[Holder(s)'] \in InLock /\ SameLock(Holder(s)', s)
        <4>1. CASE SameLock(r, s)
          BY <3>2, <3>4, <4>1 DEF InLock
        <4>2. CASE ~SameLock(r, s)
          <5>1. Holder(s)' = Holder(s) /\ Holder(s) \in Requests
                /\ ph[Holder(s)] \in InLock /\ SameLock(Holder(s), s)
            BY <3>2, <3>6, <4>2, HolderNext DEF LockInv
          <5>2. Holder(s) # r
            BY <3>1, <5>1 DEF InLock
          <5> QED BY <3>4, <5>1, <5>2
        <4> QED BY <4>1, <4>2
      <3> QED BY <3>5, <3>6 DEF LockInv
    <2> QED BY <2>1, <2>2
  <1>8. CASE Delete(r)
    <2>1. /\ ph[r] = "releasing" /\ ph' = [ph EXCEPT ![r] = "closing"]
          /\ lock' = [lock EXCEPT ![LockAt[At[r]]] = None]
          /\ holds' = holds
      BY <1>8 DEF Delete, Goto
    <2>2. ASSUME NEW s \in Requests
          PROVE  Holder(s)' = IF SameLock(r, s) THEN None ELSE Holder(s)
      BY <2>1, PlacesOf DEF Holder, SameLock, TypeOK
    <2>3. ASSUME NEW s \in Requests, SameLock(r, s), ph[s] \in InLock
          PROVE  s = r
      <3>1. Holder(s) = s /\ Holder(r) = r
        BY <2>1, <2>3 DEF LockInv, InLock
      <3> QED BY <3>1, <2>3 DEF Holder, SameLock
    <2>4. ph'[r] = "closing" /\ \A s \in Requests \ {r} : ph'[s] = ph[s]
      BY <2>1 DEF TypeOK
    <2>5. ASSUME NEW s \in Requests
          PROVE  /\ ph'[s] # "gone"
                 /\ s \in holds' <=> ph'[s] \in InLock \cup {"closing"}
                 /\ ph'[s] \in InLock => Holder(s)' = s
      BY <2>1, <2>2, <2>3, <2>4 DEF LockInv, InLock
    <2>6. ASSUME NEW s \in Requests, Holder(s)' # None
          PROVE  ph'[Holder(s)'] \in InLock /\ SameLock(Holder(s)', s)
      <3>1. ~SameLock(r, s) /\ Holder(s)' = Holder(s) /\ Holder(s) \in Requests
        BY <2>2, <2>6, HolderNext
      <3>2. ph[Holder(s)] \in InLock /\ SameLock(Holder(s), s)
        BY <2>6, <3>1 DEF LockInv
      <3>3. Holder(s) # r
        BY <3>1, <3>2
      <3> QED BY <2>4, <3>1, <3>2, <3>3
    <2> QED BY <2>5, <2>6 DEF LockInv
  <1>9. CASE Close(r)
    <2>1. /\ ph[r] = "closing" /\ ph' = [ph EXCEPT ![r] = "done"]
          /\ lock' = lock /\ holds' = holds \ {r}
      BY <1>9 DEF Close, Goto
    <2>2. ph'[r] = "done" /\ \A s \in Requests \ {r} : ph'[s] = ph[s]
      BY <2>1 DEF TypeOK
    <2>3. ASSUME NEW s \in Requests
          PROVE  /\ ph'[s] # "gone"
                 /\ s \in holds' <=> ph'[s] \in InLock \cup {"closing"}
                 /\ ph'[s] \in InLock => Holder(s) = s
                 /\ Holder(s) # None => ph'[Holder(s)] \in InLock /\ SameLock(Holder(s), s)
      BY <2>1, <2>2, HolderNext DEF LockInv, InLock
    <2> QED BY <2>1, <2>3, HolderNext DEF LockInv
  <1> QED BY <1>1, <1>2, <1>3, <1>4, <1>5, <1>6, <1>7, <1>8, <1>9 DEF Step

\* Two requests that one lock serialises are not between Acquire and Delete together.
LEMMA OneInLock ==
  ASSUME LockInv, NEW r \in Requests, NEW s \in Requests, SameLock(r, s),
         ph[r] \in InLock, ph[s] \in InLock
  PROVE  r = s
  <1>1. Holder(r) = r /\ Holder(s) = s
    BY DEF LockInv
  <1> QED BY <1>1 DEF Holder, SameLock

\* Requests that share a lock look into one store.
LEMMA OneStore ==
  ASSUME Serialised, NEW r \in Requests, NEW s \in Requests, SameLock(r, s)
  PROVE  StoreAt[At[r]] = StoreAt[At[s]] /\ Cached(r) = Cached(s)
  BY DEF Serialised, SameLock, Cached

\* A request that moves on without touching store, channels or writes.
LEMMA StoreFrame ==
  ASSUME TypeOK, StoreInv, NEW r \in Requests, NEW x,
         ph' = [ph EXCEPT ![r] = x], UNCHANGED <<store, execs, on>>,
         holds \subseteq holds',
         x \in {"recheck", "releasing", "closing"} => Cached(r) # None,
         x # "waiting", ph[r] # "committed",
         x = "running" => \A s \in execs : ~SameLock(r, s)
  PROVE  StoreInv'
  <1>1. /\ ph'[r] = x
        /\ \A s \in Requests \ {r} : ph'[s] = ph[s]
    BY DEF TypeOK
  <1>2. \A s \in Requests : Cached(s)' = Cached(s)
    BY DEF Cached
  <1>3. ASSUME NEW s \in Requests
        PROVE  /\ ph'[s] \in {"recheck", "releasing", "closing"} => Cached(s) # None
               /\ ph'[s] = "waiting" => \/ on[s] \in holds' /\ SameLock(on[s], s)
                                        \/ Cached(s) # None
               /\ ph'[s] = "running" => \A t \in execs : ~SameLock(s, t)
    BY <1>1 DEF StoreInv
  <1>4. ASSUME NEW s \in execs
        PROVE  ph'[s] = "committed" \/ Cached(s) # None
    BY <1>1 DEF StoreInv, TypeOK
  <1>5. execs \subseteq Requests
    BY DEF TypeOK
  <1> QED BY <1>2, <1>3, <1>4, <1>5 DEF StoreInv, SameLock

\* Entries precede releases, and writes are not repeated, after every quiet step of
\* a serialised system.
LEMMA StoreStep ==
  ASSUME TypeOK, Serialised, LockInv, StoreInv, OneExecution, Quiet,
         NEW r \in Requests, Step(r)
  PROVE  StoreInv' /\ OneExecution'
  <1>1. CASE FirstLookup(r)
    <2>1. /\ ph[r] = "new" /\ r \notin holds
          /\ UNCHANGED <<store, lock, on, holds, execs>>
      BY <1>1, LookupPhase DEF FirstLookup, LockInv, InLock
    <2>2. \E x \in {"missed", "done"} : ph' = [ph EXCEPT ![r] = x]
      BY <1>1, <2>1, LookupPhase DEF FirstLookup
    <2>3. StoreInv'
      BY <2>1, <2>2, StoreFrame
    <2> QED BY <2>1, <2>3 DEF OneExecution, Quiet, SameLock
  <1>2. CASE Recheck(r)
    <2>1. /\ ph[r] = "recheck" /\ r \notin holds
          /\ UNCHANGED <<store, lock, on, holds, execs>>
      BY <1>2, LookupPhase DEF Recheck, LockInv, InLock
    <2>2. ph' = [ph EXCEPT ![r] = "done"]
      BY <1>2, <2>1, LookupPhase DEF Recheck, StoreInv
    <2>3. StoreInv'
      BY <2>1, <2>2, StoreFrame
    <2> QED BY <2>1, <2>3 DEF OneExecution, Quiet, SameLock
  <1>3. CASE LockedLookup(r)
    <2>1. /\ ph[r] = "locked" /\ r \in holds
          /\ UNCHANGED <<store, lock, on, holds, execs>>
      BY <1>3, LookupPhase DEF LockedLookup, LockInv, InLock
    <2>2. ASSUME Cached(r) = None
          PROVE  StoreInv'
      <3>1. ph' = [ph EXCEPT ![r] = "running"]
        BY <1>3, <2>2, LookupPhase DEF LockedLookup
      <3>2. ASSUME NEW s \in execs, SameLock(r, s)
            PROVE  FALSE
        <4>1. s \in Requests
          BY DEF TypeOK
        <4>2. Cached(s) = None
          BY <2>2, <3>2, <4>1, OneStore
        <4>3. ph[s] = "committed"
          BY <4>1, <4>2 DEF StoreInv
        <4>4. r = s
          BY <2>1, <3>2, <4>1, <4>3, OneInLock DEF InLock
        <4> QED BY <2>1, <4>3, <4>4
      <3>3. \A s \in execs : ~SameLock(r, s)
        BY <3>2
      <3>4. ph[r] # "committed" /\ UNCHANGED <<store, execs, on>> /\ holds \subseteq holds'
        BY <2>1
      <3> QED BY <3>1, <3>3, <3>4, StoreFrame
    <2>3. ASSUME Cached(r) # None
          PROVE  StoreInv'
      <3>1. ph' = [ph EXCEPT ![r] = "releasing"]
        BY <1>3, <2>1, <2>3, LookupPhase DEF LockedLookup
      <3>2. ph[r] # "committed" /\ UNCHANGED <<store, execs, on>> /\ holds \subseteq holds'
        BY <2>1
      <3> QED BY <2>3, <3>1, <3>2, StoreFrame
    <2>4. StoreInv'
      BY <2>2, <2>3
    <2> QED BY <2>1, <2>4 DEF OneExecution, Quiet, SameLock
  <1>4. CASE Acquire(r)
    <2>1. ph[r] = "missed" /\ UNCHANGED <<store, execs>>
      BY <1>4 DEF Acquire
    <2>2. ASSUME Holder(r) = None
          PROVE  StoreInv'
      <3>1. /\ ph' = [ph EXCEPT ![r] = "locked"] /\ on' = on
            /\ holds' = holds \cup {r}
        BY <1>4, <2>2 DEF Acquire, Goto
      <3>2. ph[r] # "committed" /\ UNCHANGED <<store, execs, on>> /\ holds \subseteq holds'
        BY <2>1, <3>1
      <3> QED BY <3>1, <3>2, StoreFrame
    <2>3. ASSUME Holder(r) # None
          PROVE  StoreInv'
      <3>1. /\ ph' = [ph EXCEPT ![r] = "waiting"] /\ holds' = holds
            /\ on' = [on EXCEPT ![r] = Holder(r)]
        BY <1>4, <2>3 DEF Acquire, Goto, Serialised
      <3>2. Holder(r) \in holds /\ SameLock(Holder(r), r)
        <4>1. Holder(r) \in Requests /\ ph[Holder(r)] \in InLock /\ SameLock(Holder(r), r)
          BY <2>3, HolderNext DEF LockInv
        <4> QED BY <4>1 DEF LockInv
      <3>3. /\ ph'[r] = "waiting" /\ on'[r] = Holder(r)
            /\ \A s \in Requests \ {r} : ph'[s] = ph[s] /\ on'[s] = on[s]
        BY <3>1 DEF TypeOK
      <3>4. \A s \in Requests : Cached(s)' = Cached(s)
        BY <2>1 DEF Cached
      <3>5. ASSUME NEW s \in Requests
            PROVE  /\ ph'[s] \in {"recheck", "releasing", "closing"} => Cached(s) # None
                   /\ ph'[s] = "waiting" => \/ on'[s] \in holds /\ SameLock(on'[s], s)
                                            \/ Cached(s) # None
                   /\ ph'[s] = "running" => \A t \in execs : ~SameLock(s, t)
        BY <3>2, <3>3 DEF StoreInv
      <3>6. ASSUME NEW s \in execs
            PROVE  s \in Requests /\ (ph'[s] = "committed" \/ Cached(s) # None)
        BY <2>1, <3>3 DEF StoreInv, TypeOK
      <3>7. /\ \A s \in Requests :
                  /\ ph'[s] \in {"recheck", "releasing", "closing"} => Cached(s)' # None
                  /\ ph'[s] = "waiting" => \/ on'[s] \in holds' /\ SameLock(on'[s], s)
                                           \/ Cached(s)' # None
                  /\ ph'[s] = "running" => \A t \in execs' : ~SameLock(s, t)
            /\ \A s \in execs' : ph'[s] = "committed" \/ Cached(s)' # None
        BY <2>1, <3>1, <3>4, <3>5, <3>6
      <3> QED BY <3>7 DEF StoreInv, SameLock
    <2>4. StoreInv'
      BY <2>2, <2>3
    <2> QED BY <2>1, <2>4 DEF OneExecution, Quiet, SameLock
  <1>5. CASE Woken(r)
    <2>1. /\ ph[r] = "waiting" /\ on[r] \notin holds /\ ph' = [ph EXCEPT ![r] = "recheck"]
          /\ UNCHANGED <<store, on, holds, execs>>
      BY <1>5 DEF Woken, Goto
    <2>2. Cached(r) # None
      BY <2>1 DEF StoreInv
    <2>3. StoreInv'
      BY <2>1, <2>2, StoreFrame
    <2> QED BY <2>1, <2>3 DEF OneExecution, Quiet, SameLock
  <1>6. CASE Execute(r)
    <2>1. /\ ph[r] = "running" /\ ph' = [ph EXCEPT ![r] = "committed"]
          /\ execs' = execs \cup {r} /\ UNCHANGED <<store, on, holds>>
      BY <1>6 DEF Execute, Goto
    <2>2. \A s \in execs : ~SameLock(r, s) /\ ~SameLock(s, r)
      BY <2>1 DEF StoreInv, SameLock
    <2>3. /\ ph'[r] = "committed" /\ \A s \in Requests \ {r} : ph'[s] = ph[s]
          /\ \A s \in Requests : Cached(s)' = Cached(s)
      BY <2>1 DEF TypeOK, Cached
    <2>4. ASSUME NEW s \in Requests
          PROVE  /\ ph'[s] \in {"recheck", "releasing", "closing"} => Cached(s) # None
                 /\ ph'[s] = "waiting" => \/ on[s] \in holds /\ SameLock(on[s], s)
                                          \/ Cached(s) # None
                 /\ ph'[s] = "running" => \A t \in execs : ~SameLock(s, t)
      BY <2>3 DEF StoreInv
    <2>5. ASSUME NEW s \in Requests, ph'[s] = "running"
          PROVE  ~SameLock(s, r)
      <3>1. s # r /\ ph[s] = "running"
        BY <2>3, <2>5
      <3> QED BY <2>1, <3>1, OneInLock DEF InLock
    <2>6. ASSUME NEW s \in execs'
          PROVE  s \in Requests /\ (ph'[s] = "committed" \/ Cached(s) # None)
      BY <2>1, <2>3 DEF StoreInv, TypeOK
    <2>7. StoreInv'
      BY <2>1, <2>3, <2>4, <2>5, <2>6 DEF StoreInv, SameLock
    <2>8. \A s, t \in execs' : SameLock(s, t) => s = t
      BY <2>1, <2>2 DEF OneExecution
    <2> QED BY <2>7, <2>8 DEF OneExecution, SameLock
  <1>7. CASE Respond(r)
    <2>1. ph[r] = "committed" /\ r \in holds /\ UNCHANGED <<on, holds, execs>>
      BY <1>7 DEF Respond, LockInv, InLock
    <2>2. /\ ph' = [ph EXCEPT ![r] = "releasing"]
          /\ store' = [store EXCEPT ![StoreAt[At[r]]] = r]
      BY <1>7, <2>1 DEF Respond, Leave, Goto
    <2>3. /\ ph'[r] = "releasing" /\ \A s \in Requests \ {r} : ph'[s] = ph[s]
          /\ Cached(r)' # None
          /\ \A s \in Requests : Cached(s) # None => Cached(s)' # None
      BY <2>2, PlacesOf DEF TypeOK, Cached
    <2>4. ASSUME NEW s \in Requests
          PROVE  /\ ph'[s] \in {"recheck", "releasing", "closing"} => Cached(s)' # None
                 /\ ph'[s] = "waiting" => \/ on[s] \in holds /\ SameLock(on[s], s)
                                          \/ Cached(s)' # None
                 /\ ph'[s] = "running" => \A t \in execs : ~SameLock(s, t)
      BY <2>3 DEF StoreInv
    <2>5. ASSUME NEW s \in execs
          PROVE  s \in Requests /\ (ph'[s] = "committed" \/ Cached(s)' # None)
      BY <2>3 DEF StoreInv, TypeOK
    <2>6. StoreInv'
      BY <2>1, <2>4, <2>5 DEF StoreInv, SameLock
    <2> QED BY <2>1, <2>6 DEF OneExecution, Quiet, SameLock
  <1>8. CASE Delete(r)
    <2>1. /\ ph[r] = "releasing" /\ ph' = [ph EXCEPT ![r] = "closing"]
          /\ UNCHANGED <<store, on, holds, execs>>
      BY <1>8 DEF Delete, Goto
    <2>2. Cached(r) # None
      BY <2>1 DEF StoreInv
    <2>3. StoreInv'
      BY <2>1, <2>2, StoreFrame
    <2> QED BY <2>1, <2>3 DEF OneExecution, Quiet, SameLock
  <1>9. CASE Close(r)
    <2>1. /\ ph[r] = "closing" /\ ph' = [ph EXCEPT ![r] = "done"]
          /\ holds' = holds \ {r} /\ UNCHANGED <<store, on, execs>>
      BY <1>9 DEF Close, Goto
    <2>2. Cached(r) # None
      BY <2>1 DEF StoreInv
    <2>3. /\ ph'[r] = "done" /\ \A s \in Requests \ {r} : ph'[s] = ph[s]
          /\ \A s \in Requests : Cached(s)' = Cached(s)
      BY <2>1 DEF TypeOK, Cached
    <2>4. ASSUME NEW s \in Requests
          PROVE  /\ ph'[s] \in {"recheck", "releasing", "closing"} => Cached(s) # None
                 /\ ph'[s] = "running" => \A t \in execs : ~SameLock(s, t)
      BY <2>3 DEF StoreInv
    <2>5. ASSUME NEW s \in Requests, ph'[s] = "waiting"
          PROVE  (on[s] \in holds' /\ SameLock(on[s], s)) \/ Cached(s) # None
      <3>1. (on[s] \in holds /\ SameLock(on[s], s)) \/ Cached(s) # None
        BY <2>3, <2>5 DEF StoreInv
      <3>2. CASE on[s] = r /\ SameLock(on[s], s)
        BY <2>2, <3>2, OneStore
      <3> QED BY <2>1, <3>1, <3>2
    <2>6. ASSUME NEW s \in execs
          PROVE  s \in Requests /\ (ph'[s] = "committed" \/ Cached(s) # None)
      BY <2>1, <2>3 DEF StoreInv, TypeOK
    <2>7. StoreInv'
      BY <2>1, <2>3, <2>4, <2>5, <2>6 DEF StoreInv, SameLock
    <2> QED BY <2>1, <2>7 DEF OneExecution, Quiet, SameLock
  <1> QED BY <1>1, <1>2, <1>3, <1>4, <1>5, <1>6, <1>7, <1>8, <1>9 DEF Step

-----------------------------------------------------------------------------
(* The inductive invariant *)

\* The initial state satisfies it.
LEMMA InitInvariant == Init => IInv
  <1>1. Init => AnswerIsForBody /\ AnswerIsDurable /\ CommittedInv
    BY InitAnswers DEF Answers
  <1>2. Init => LockInv
    BY PlacesOf DEF Init, LockInv, InLock, Holder
  <1>3. Init => StoreInv /\ OneExecution
    BY DEF Init, StoreInv, OneExecution
  <1> QED BY <1>1, <1>2, <1>3, InitType DEF IInv

\* Every step preserves it.
LEMMA InvariantStep == ASSUME IInv, [Next]_vars
                       PROVE  IInv'
  <1>1. TypeOK' /\ Answers'
    BY TypeStep, AnswersStep DEF IInv, Answers
  <1>2. ASSUME Serialised, Quiet'
        PROVE  LockInv' /\ StoreInv' /\ OneExecution'
    <2>1. Quiet /\ LockInv /\ StoreInv /\ OneExecution
      BY <1>2, QuietSteps DEF IInv
    <2>2. ASSUME NEW r \in Requests, Step(r)
          PROVE  LockInv' /\ StoreInv' /\ OneExecution'
      <3>1. ph[r] = "recheck" => Cached(r) # None
        BY <2>1 DEF StoreInv
      <3> QED BY <1>2, <2>1, <2>2, <3>1, LockStep, StoreStep DEF IInv
    <2>3. CASE UNCHANGED vars
      BY <2>1, <2>3 DEF vars, LockInv, StoreInv, OneExecution, Holder, Cached, SameLock, Quiet
    <2> QED BY <1>2, <2>2, <2>3, QuietSteps DEF IInv
  <1>3. Serialised' <=> Serialised
    BY DEF Serialised
  <1> QED BY <1>1, <1>2, <1>3 DEF IInv, Answers

\* It holds always.
THEOREM Invariant == Spec => []IInv
  BY InitInvariant, InvariantStep, PTL DEF Spec

\* Where one lock serialises requests that look into one store, and while nothing
\* fails, expires or dies, they write once.
THEOREM OneWrite == Spec => []OneExecution
  <1>1. IInv => OneExecution
    BY DEF IInv, OneExecution
  <1> QED BY <1>1, Invariant, PTL
=============================================================================
