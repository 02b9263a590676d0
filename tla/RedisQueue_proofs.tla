------------------------- MODULE RedisQueue_proofs --------------------------
(***************************************************************************)
(* Proofs about RedisQueue, for any number of jobs, stream entries,        *)
(* processes and goroutines.                                               *)
(*                                                                         *)
(* The inductive invariant is IInv.  Its first half (FiledInv, OutcomeInv, *)
(* NoneForgotten) survives entries reclaimed from live workers; the other  *)
(* half, AloneInv, is about the executions before one is.  Steps of one    *)
(* kind share a lemma: GoesOn for what a goroutine decides in memory,      *)
(* Taken and NoneTaken for the look-up in the pending map, LetGo for       *)
(* goroutines that end, Acked for XACK, Relabelled for an entry that       *)
(* changes hands or ages, Arrives for a copy that is added.                *)
(***************************************************************************)
EXTENDS RedisQueue, TLAPS

\* What a process does between two Redis commands: a goroutine that works on a
\* job goes on, with a start counted or its outcome decided.
LEMMA GoesOn ==
  ASSUME IInv, NEW s \in Slots, Works(s),
         NEW ph \in {"handling", "succeeded", "failed", "dying"},
         slot' = [slot EXCEPT ![s] = [slot[s] EXCEPT !.ph = ph]],
         UNCHANGED <<redisVars, pending, faultVars, submitted, dropped>>,
         settled \subseteq settled' /\ settled' \subseteq Jobs,
         ph \in {"succeeded", "dying"} => slot[s].job \in settled',
         ph = "failed" => slot[s].att < MaxRetry[slot[s].job],
         starts' \in [Jobs -> Nat],
         \A k \in Jobs : k # slot[s].job => starts'[k] = starts[k],
         \/ starts' = starts
         \/ slot[s].ph = "claimed" /\ starts'[slot[s].job] <= starts[slot[s].job] + 1
  PROVE  IInv'
<1> DEFINE j == slot[s].job
<1>0. TypeOK /\ FiledInv /\ OutcomeInv /\ NoneForgotten /\ AloneInv
  BY DEF IInv
<1>1. /\ j \in Jobs
      /\ msg' = msg /\ delayed' = delayed /\ pending' = pending /\ faults' = faults
      /\ stale' = stale /\ submitted' = submitted /\ dropped' = dropped
  BY <1>0 DEF TypeOK, Works, redisVars, faultVars
<1>2. /\ \A t \in Slots : slot'[t] \in Task
      /\ \A t \in Slots : /\ slot'[t].job = slot[t].job /\ slot'[t].att = slot[t].att
                          /\ slot'[t].unh = slot[t].unh /\ slot'[t].entry = slot[t].entry
      /\ slot'[s].ph = ph
      /\ \A t \in Slots : t # s => slot'[t].ph = slot[t].ph
  BY <1>0 DEF TypeOK, Task
<1>3. \A t \in Slots : /\ Works(t)' = Works(t) /\ Ends(t)' = Ends(t) /\ Busy(t)' = Busy(t)
                       /\ Filed(t)' = Filed(t) /\ Mine(t)' = Mine(t)
  BY <1>1, <1>2 DEF Works, Ends, Busy, Filed, Mine
<1>4. TypeOK'
  BY <1>0, <1>1, <1>2 DEF TypeOK
<1>5. FiledInv'
  BY <1>0, <1>1, <1>2 DEF FiledInv
<1>6. OutcomeInv'
  BY <1>0, <1>1, <1>2 DEF OutcomeInv
<1>7. NoneForgotten'
  BY <1>0, <1>1, <1>2 DEF NoneForgotten, InStream, IsDelayed, Returning, Works
<1>8. ASSUME stale' = 0 PROVE HoldsInv' /\ OneRunInv' /\ OnePlaceInv' /\ BudgetInv'
  <2>0. HoldsInv /\ OneRunInv /\ OnePlaceInv /\ BudgetInv
    BY <1>0, <1>1, <1>8 DEF AloneInv
  <2>1. HoldsInv'  BY <2>0, <1>1, <1>2, <1>3 DEF HoldsInv
  <2>2. OneRunInv'  BY <2>0, <1>1, <1>2, <1>3 DEF OneRunInv
  <2>3. OnePlaceInv'  BY <2>0, <1>1, <1>2 DEF OnePlaceInv, Listed
  <2>4. BudgetInv'
    <3>1. Busy(s)  BY DEF Works, Busy
    <3>2. PICK m \in Msgs : /\ Listed(m) /\ msg[m].job = j
                            /\ slot[s].att = msg[m].att + 1
      BY <2>0 DEF HoldsInv, Listed
    <3>3. \A c \in delayed : c.job \in Jobs /\ c.job # j
      BY <1>0, <2>0, <3>2 DEF OnePlaceInv, TypeOK, Copy
    <3>4. \A n \in Msgs : Listed(n) => msg[n].job \in Jobs /\ (n = m \/ msg[n].job # j)
      BY <1>0, <2>0, <3>2 DEF OnePlaceInv, TypeOK, Listed
    <3>5. \A t \in Slots : Busy(t) => slot[t].job \in Jobs /\ (t = s \/ slot[t].job # j)
      BY <1>0, <2>0, <3>1 DEF OneRunInv, TypeOK, Busy
    <3>6. slot[s].ph = "claimed" => starts[j] < slot[s].att + faults
      BY <2>0 DEF BudgetInv
    <3>7. \A c \in delayed' : Spent(c.job, c.att)'
      BY <1>1, <2>0, <3>3 DEF BudgetInv, Spent
    <3>8. \A n \in Msgs : Listed(n)' =>
            /\ msg'[n].att < MaxRetry[msg'[n].job]
            /\ starts'[msg'[n].job] <= msg'[n].att + faults' + 1
            /\ (\A t \in Slots : Busy(t)' => slot'[t].job # msg'[n].job)
                 => starts'[msg'[n].job] <= msg'[n].att + faults'
      <4>1. starts'[j] <= msg[m].att + faults + 1
        <5>1. starts[j] <= msg[m].att + faults + 1  BY <2>0, <3>2 DEF BudgetInv
        <5>2. QED  BY <1>0, <1>1, <3>2, <3>6, <5>1 DEF TypeOK, Entry
      <4>2. QED  BY <4>1, <1>1, <1>2, <1>3, <2>0, <3>1, <3>2, <3>4 DEF BudgetInv, Listed
    <3>9. \A t \in Slots :
            /\ slot'[t].ph = "claimed" => starts'[slot'[t].job] < slot'[t].att + faults'
            /\ slot'[t].ph = "failed" => slot'[t].att < MaxRetry[slot'[t].job]
            /\ slot'[t].ph \in {"nacking", "returning"} => Spent(slot[t].job, slot[t].att)'
      BY <1>1, <1>2, <2>0, <3>5 DEF BudgetInv, Spent, Busy
    <3>10. \A k \in Jobs \ submitted' : starts'[k] = 0
      <4>1. j \in submitted  BY <2>0, <3>2 DEF OnePlaceInv
      <4>2. QED  BY <1>1, <2>0, <4>1 DEF BudgetInv
    <3>11. QED  BY <3>7, <3>8, <3>9, <3>10 DEF BudgetInv, Listed
  <2>5. QED  BY <2>1, <2>2, <2>3, <2>4
<1>9. QED  BY <1>4, <1>5, <1>6, <1>7, <1>8 DEF IInv, AloneInv

LEMMA StartHandlerSound ==
  ASSUME IInv, NEW s \in Slots, StartHandler(s) PROVE IInv'
<1>1. TypeOK  BY DEF IInv
<1>2. Works(s) /\ slot[s].job \in Jobs  BY <1>1 DEF StartHandler, Works, TypeOK
<1>3. /\ starts' \in [Jobs -> Nat]
      /\ \A k \in Jobs : k # slot[s].job => starts'[k] = starts[k]
      /\ starts'[slot[s].job] <= starts[slot[s].job] + 1
  BY <1>1, <1>2, RedisAssumption DEF StartHandler, TypeOK, MaxStarts
<1>4. settled \subseteq settled' /\ settled' \subseteq Jobs
  BY <1>1 DEF StartHandler, TypeOK
<1>5. QED  BY <1>2, <1>3, <1>4, GoesOn DEF StartHandler, Goto

LEMMA HandlerSucceedsSound ==
  ASSUME IInv, NEW s \in Slots, HandlerSucceeds(s) PROVE IInv'
<1>1. TypeOK  BY DEF IInv
<1>2. Works(s) /\ slot[s].job \in Jobs  BY <1>1 DEF HandlerSucceeds, Works, TypeOK
<1>3. /\ starts' = starts /\ starts \in [Jobs -> Nat]
      /\ settled \subseteq settled' /\ settled' \subseteq Jobs
  BY <1>1, <1>2 DEF HandlerSucceeds, TypeOK
<1>4. QED  BY <1>2, <1>3, GoesOn DEF HandlerSucceeds, Goto

LEMMA HandlerFailsSound ==
  ASSUME IInv, NEW s \in Slots, HandlerFails(s) PROVE IInv'
<1>1. TypeOK  BY DEF IInv
<1>2. Works(s) /\ slot[s].job \in Jobs  BY <1>1 DEF HandlerFails, Works, TypeOK
<1>3. /\ starts' = starts /\ starts \in [Jobs -> Nat]
      /\ settled \subseteq settled' /\ settled' \subseteq Jobs
  BY <1>1, <1>2 DEF HandlerFails, TypeOK
<1>4. CASE slot[s].att < MaxRetry[slot[s].job] /\ Goto(s, "failed")
  BY <1>2, <1>3, <1>4, GoesOn DEF HandlerFails, Goto
<1>5. CASE Goto(s, "dying") /\ settled' = settled \cup {slot[s].job}
  BY <1>2, <1>3, <1>5, GoesOn DEF HandlerFails, Goto
<1>6. QED  BY <1>4, <1>5 DEF HandlerFails

LEMMA GiveUpUnhandledSound ==
  ASSUME IInv, NEW s \in Slots, GiveUpUnhandled(s) PROVE IInv'
<1>1. TypeOK  BY DEF IInv
<1>2. Works(s) /\ slot[s].job \in Jobs  BY <1>1 DEF GiveUpUnhandled, Works, TypeOK
<1>3. /\ starts' = starts /\ starts \in [Jobs -> Nat]
      /\ settled \subseteq settled' /\ settled' \subseteq Jobs
  BY <1>1, <1>2 DEF GiveUpUnhandled, TypeOK
<1>4. QED  BY <1>2, <1>3, GoesOn DEF GiveUpUnhandled, Goto

\* A goroutine takes the entry of its job off the pending map.
LEMMA Taken ==
  ASSUME IInv, NEW s \in Slots, Works(s), Take(s), Filed(s).m \in Msgs,
         NEW new \in Task, slot' = [slot EXCEPT ![s] = new],
         new.job = slot[s].job, new.entry = Filed(s).m,
         new.ph \in {"acking", "nacking"},
         new.ph = "acking" => slot[s].job \in settled,
         stale = 0 /\ new.ph = "nacking" => Spent(slot[s].job, new.att),
         UNCHANGED <<redisVars, faultVars, submitted, historyVars>>
  PROVE  IInv'
<1> DEFINE j == slot[s].job
<1> DEFINE p == ProcOf[s]
<1>0. TypeOK /\ FiledInv /\ OutcomeInv /\ NoneForgotten /\ AloneInv
  BY DEF IInv
<1>1. /\ j \in Jobs /\ p \in Procs
      /\ msg' = msg /\ delayed' = delayed /\ faults' = faults
      /\ stale' = stale /\ submitted' = submitted /\ starts' = starts
      /\ settled' = settled /\ dropped' = dropped
  BY <1>0, RedisAssumption DEF TypeOK, Works, redisVars, faultVars, historyVars
<1>2. /\ slot' \in [Slots -> Task]
      /\ slot'[s] = new
      /\ \A t \in Slots : t # s => slot'[t] = slot[t]
  BY <1>0 DEF TypeOK
<1>3. /\ pending' \in [Procs -> [Jobs -> Filing]]
      /\ pending'[p][j] = Nothing
      /\ \A x \in Procs, k \in Jobs : x # p \/ k # j => pending'[x][k] = pending[x][k]
  BY <1>0, <1>1 DEF TypeOK, Take, Filing, Nothing
<1>4. Nothing.m = NoMsg /\ NoMsg \notin Msgs  BY RedisAssumption DEF Nothing
<1>5. TypeOK'  BY <1>0, <1>1, <1>2, <1>3 DEF TypeOK
<1>6. FiledInv'
  <2>1. msg[Filed(s).m].st = "free" \/ msg[Filed(s).m].job = j
    BY <1>0, <1>1 DEF FiledInv, Filed
  <2>2. QED  BY <1>0, <1>1, <1>2, <1>3, <1>4, <2>1 DEF FiledInv
<1>7. OutcomeInv'  BY <1>0, <1>1, <1>2 DEF OutcomeInv
<1>8. NoneForgotten'
  <2>1. \A k \in Jobs : Returning(k) => Returning(k)'
    BY <1>1, <1>2 DEF Returning, Works
  <2>2. QED  BY <1>0, <1>1, <2>1 DEF NoneForgotten, TypeOK, InStream, IsDelayed
<1>9. ASSUME stale' = 0 PROVE HoldsInv' /\ OneRunInv' /\ OnePlaceInv' /\ BudgetInv'
  <2>0. HoldsInv /\ OneRunInv /\ OnePlaceInv /\ BudgetInv
    BY <1>0, <1>1, <1>9 DEF AloneInv
  <2>1. \A t \in Slots : Busy(t)' = Busy(t) /\ slot'[t].job = slot[t].job
    BY <1>2 DEF Busy, Works
  <2>2. OneRunInv'  BY <2>0, <2>1 DEF OneRunInv
  <2>3. \A t \in Slots : t # s /\ (Works(t) \/ Ends(t)) => slot[t].job # j /\ slot[t].job \in Jobs
    BY <1>0, <2>0 DEF OneRunInv, Busy, Works, Ends, TypeOK
  <2>4. \A t \in Slots : t # s /\ (Works(t) \/ Ends(t))' =>
          /\ Works(t) \/ Ends(t)
          /\ Mine(t)' = Mine(t) /\ slot'[t] = slot[t] /\ Works(t)' = Works(t)
          /\ Works(t) => Filed(t)' = Filed(t)
    BY <1>1, <1>2, <1>3, <2>3, RedisAssumption DEF Works, Ends, Mine, Filed
  <2>5. Ends(s)' /\ ~Works(s)' /\ Mine(s)' = Mine(s)
    BY <1>2 DEF Works, Ends, Mine
  <2>6. HoldsInv'  BY <1>1, <1>2, <2>0, <2>4, <2>5 DEF HoldsInv
  <2>7. OnePlaceInv'  BY <1>1, <1>2, <2>0 DEF OnePlaceInv, Listed
  <2>8. BudgetInv'
    <3>1. Spent(j, new.att) \/ new.ph = "acking"  BY <1>1, <1>9
    <3>2. QED  BY <1>1, <1>2, <2>0, <2>1, <3>1 DEF BudgetInv, Spent, Listed
  <2>9. QED  BY <2>2, <2>6, <2>7, <2>8
<1>10. QED  BY <1>5, <1>6, <1>7, <1>8, <1>9 DEF IInv, AloneInv

\* A goroutine finds no entry of its job: only after one of a live worker
\* went idle.
LEMMA NoneTaken ==
  ASSUME IInv, NEW s \in Slots, Works(s), Take(s), Filed(s).m = NoMsg,
         NEW new \in Task, slot' = [slot EXCEPT ![s] = new],
         new.ph \in {"idle", "returning"}, new.entry = NoMsg,
         new.ph = "returning" => new.job = slot[s].job,
         UNCHANGED <<redisVars, faultVars, submitted, historyVars>>
  PROVE  IInv'
<1> DEFINE j == slot[s].job
<1> DEFINE p == ProcOf[s]
<1>0. TypeOK /\ FiledInv /\ OutcomeInv /\ NoneForgotten /\ AloneInv
  BY DEF IInv
<1>1. /\ j \in Jobs /\ p \in Procs
      /\ msg' = msg /\ delayed' = delayed /\ faults' = faults
      /\ stale' = stale /\ submitted' = submitted /\ starts' = starts
      /\ settled' = settled /\ dropped' = dropped
  BY <1>0, RedisAssumption DEF TypeOK, Works, redisVars, faultVars, historyVars
<1>2. /\ slot' \in [Slots -> Task]
      /\ slot'[s] = new
      /\ \A t \in Slots : t # s => slot'[t] = slot[t]
  BY <1>0 DEF TypeOK
<1>3. /\ pending' \in [Procs -> [Jobs -> Filing]]
      /\ pending'[p][j] = Nothing
      /\ \A x \in Procs, k \in Jobs : x # p \/ k # j => pending'[x][k] = pending[x][k]
  BY <1>0, <1>1 DEF TypeOK, Take, Filing, Nothing
<1>4. Nothing.m = NoMsg /\ NoMsg \notin Msgs  BY RedisAssumption DEF Nothing
<1>5. TypeOK'  BY <1>0, <1>1, <1>2, <1>3 DEF TypeOK
<1>6. FiledInv'  BY <1>0, <1>1, <1>2, <1>3, <1>4 DEF FiledInv
<1>7. OutcomeInv'  BY <1>0, <1>1, <1>2 DEF OutcomeInv
<1>8. NoneForgotten'
  <2>1. \A k \in Jobs : Returning(k) => Returning(k)'
    BY <1>1, <1>2 DEF Returning, Works
  <2>2. QED  BY <1>0, <1>1, <2>1 DEF NoneForgotten, TypeOK, InStream, IsDelayed
<1>9. stale # 0
  BY <1>0, <1>4 DEF AloneInv, HoldsInv, Mine
<1>10. QED  BY <1>1, <1>5, <1>6, <1>7, <1>8, <1>9 DEF IInv, AloneInv

LEMMA SettleSound ==
  ASSUME IInv, NEW s \in Slots, Settle(s) PROVE IInv'
<1>0. TypeOK /\ OutcomeInv  BY DEF IInv
<1>1. /\ Works(s) /\ slot[s].job \in Jobs /\ slot[s].job \in settled
      /\ Filed(s) \in Filing /\ slot[s] \in Task
  BY <1>0, RedisAssumption DEF Settle, Works, TypeOK, OutcomeInv, Filed
<1>2. CASE Filed(s).m = NoMsg
  <2>1. Idle \in Task /\ Idle.ph = "idle" /\ Idle.entry = NoMsg  BY DEF Idle, Task
  <2>2. QED  BY <1>1, <1>2, <2>1, NoneTaken DEF Settle, Release
<1>3. CASE Filed(s).m # NoMsg
  <2> DEFINE new == [slot[s] EXCEPT !.ph = "acking", !.entry = Filed(s).m]
  <2>1. /\ new \in Task /\ new.job = slot[s].job /\ new.entry = Filed(s).m
        /\ new.ph = "acking" /\ Filed(s).m \in Msgs
    BY <1>1, <1>3 DEF Task, Filing
  <2>2. slot' = [slot EXCEPT ![s] = new]  BY <1>3 DEF Settle
  <2>3. QED  BY <1>1, <2>1, <2>2, Taken DEF Settle
<1>4. QED  BY <1>2, <1>3

LEMMA NackSound ==
  ASSUME IInv, NEW s \in Slots, Nack(s) PROVE IInv'
<1>0. TypeOK /\ OutcomeInv /\ AloneInv  BY DEF IInv
<1>1. /\ Works(s) /\ slot[s].job \in Jobs
      /\ Filed(s) \in Filing /\ slot[s] \in Task
  BY <1>0, RedisAssumption DEF Nack, Works, TypeOK, Filed
<1>2. CASE Filed(s).m = NoMsg
  <2>1. Idle \in Task /\ Idle.ph = "idle" /\ Idle.entry = NoMsg  BY DEF Idle, Task
  <2>2. QED  BY <1>1, <1>2, <2>1, NoneTaken DEF Nack, Release
<1>3. CASE Filed(s).m # NoMsg
  <2> DEFINE new == [ph |-> "nacking", job |-> slot[s].job, att |-> Filed(s).att,
                     unh |-> Filed(s).unh, entry |-> Filed(s).m]
  <2>1. /\ new \in Task /\ new.job = slot[s].job /\ new.entry = Filed(s).m
        /\ new.ph = "nacking" /\ new.att = Filed(s).att /\ Filed(s).m \in Msgs
    BY <1>1, <1>3 DEF Task, Filing
  <2>2. slot' = [slot EXCEPT ![s] = new]  BY <1>3 DEF Nack
  <2>3. stale = 0 => Spent(slot[s].job, Filed(s).att)
    <3>1. SUFFICES ASSUME stale = 0 PROVE Spent(slot[s].job, Filed(s).att)
      OBVIOUS
    <3>2. HoldsInv /\ BudgetInv  BY <1>0, <3>1 DEF AloneInv
    <3>3. /\ Mine(s) \in Msgs /\ Listed(Mine(s)) /\ msg[Mine(s)].job = slot[s].job
          /\ Filed(s).att = slot[s].att /\ slot[s].att = msg[Mine(s)].att + 1
      BY <1>1, <3>2 DEF HoldsInv, Listed
    <3>4. /\ starts[slot[s].job] <= msg[Mine(s)].att + faults + 1
          /\ slot[s].att < MaxRetry[slot[s].job]
      BY <3>2, <3>3 DEF BudgetInv, Nack
    <3>5. /\ faults \in Nat /\ msg[Mine(s)].att \in Nat /\ starts[slot[s].job] \in Nat
      BY <1>0, <1>1, <3>3 DEF TypeOK, Entry
    <3>6. QED  BY <3>3, <3>4, <3>5 DEF Spent
  <2>4. QED  BY <1>1, <2>1, <2>2, <2>3, Taken DEF Nack
<1>4. QED  BY <1>2, <1>3

LEMMA RequeueUnhandledSound ==
  ASSUME IInv, NEW s \in Slots, RequeueUnhandled(s) PROVE IInv'
<1>0. TypeOK /\ OutcomeInv /\ AloneInv  BY DEF IInv
<1>1. /\ Works(s) /\ slot[s].job \in Jobs
      /\ Filed(s) \in Filing /\ slot[s] \in Task /\ slot[s].att > 0
      /\ slot[s].ph = "claimed"
  BY <1>0, RedisAssumption DEF RequeueUnhandled, Works, TypeOK, Filed, OutcomeInv
<1> DEFINE new == [ph |-> IF Filed(s).m = NoMsg THEN "returning" ELSE "nacking",
                   job |-> slot[s].job, att |-> slot[s].att - 1,
                   unh |-> slot[s].unh + 1, entry |-> Filed(s).m]
<1>2. /\ new \in Task /\ new.job = slot[s].job /\ new.entry = Filed(s).m
      /\ new.att = slot[s].att - 1
      /\ new.ph = IF Filed(s).m = NoMsg THEN "returning" ELSE "nacking"
  BY <1>1 DEF Task, Filing
<1>3. slot' = [slot EXCEPT ![s] = new]  BY DEF RequeueUnhandled
<1>4. CASE Filed(s).m = NoMsg
  BY <1>1, <1>2, <1>3, <1>4, NoneTaken DEF RequeueUnhandled
<1>5. CASE Filed(s).m # NoMsg
  <2>1. Filed(s).m \in Msgs  BY <1>1, <1>5 DEF Filing
  <2>2. stale = 0 => Spent(slot[s].job, new.att)
    <3>1. SUFFICES ASSUME stale = 0 PROVE Spent(slot[s].job, slot[s].att - 1)
      BY <1>2
    <3>2. HoldsInv /\ BudgetInv  BY <1>0, <3>1 DEF AloneInv
    <3>3. /\ Mine(s) \in Msgs /\ Listed(Mine(s)) /\ msg[Mine(s)].job = slot[s].job
          /\ slot[s].att = msg[Mine(s)].att + 1
      BY <1>1, <3>2 DEF HoldsInv, Listed
    <3>4. /\ msg[Mine(s)].att < MaxRetry[slot[s].job]
          /\ starts[slot[s].job] < slot[s].att + faults
      BY <1>1, <3>2, <3>3 DEF BudgetInv
    <3>5. /\ faults \in Nat /\ msg[Mine(s)].att \in Nat /\ starts[slot[s].job] \in Nat
      BY <1>0, <1>1, <3>3 DEF TypeOK, Entry
    <3>6. QED  BY <3>3, <3>4, <3>5 DEF Spent
  <2>3. QED  BY <1>1, <1>2, <1>3, <1>5, <2>1, <2>2, Taken DEF RequeueUnhandled
<1>6. QED  BY <1>4, <1>5

\* Goroutines end without a further command, their processes with them or not.
LEMMA LetGo ==
  ASSUME IInv, NEW S \in SUBSET Slots,
         slot' = [t \in Slots |-> IF t \in S THEN Idle ELSE slot[t]],
         pending' \in [Procs -> [Jobs -> Filing]],
         \A x \in Procs, k \in Jobs : pending'[x][k] \in {pending[x][k], Nothing},
         \A t \in Slots \ S : pending'[ProcOf[t]] = pending[ProcOf[t]],
         \A t \in S : slot[t].ph = "returning" => slot[t].job \in dropped',
         dropped \subseteq dropped' /\ dropped' \subseteq Jobs,
         faults < MaxFaults, faults' = faults + 1,
         UNCHANGED <<redisVars, stale, submitted, starts, settled>>
  PROVE  IInv'
<1>0. TypeOK /\ FiledInv /\ OutcomeInv /\ NoneForgotten /\ AloneInv
  BY DEF IInv
<1>1. /\ msg' = msg /\ delayed' = delayed
      /\ stale' = stale /\ submitted' = submitted /\ starts' = starts /\ settled' = settled
  BY DEF redisVars
<1>2. /\ slot' \in [Slots -> Task]
      /\ \A t \in S : slot'[t] = Idle
      /\ \A t \in Slots : t \notin S => slot'[t] = slot[t]
  <2>1. Idle \in Task  BY DEF Idle, Task
  <2>2. QED  BY <1>0, <2>1 DEF TypeOK
<1>3. /\ Idle.ph = "idle" /\ Idle.entry = NoMsg /\ Nothing.m = NoMsg /\ NoMsg \notin Msgs
  BY RedisAssumption DEF Idle, Nothing
<1>4. TypeOK'
  <2>1. faults' \in 0 .. MaxFaults  BY <1>0, RedisAssumption DEF TypeOK
  <2>2. QED  BY <1>0, <1>1, <1>2, <1>3, <2>1 DEF TypeOK
<1>5. FiledInv'
  <2>1. \A x \in Procs, k \in Jobs : pending'[x][k].m \in Msgs => pending'[x][k] = pending[x][k]
    BY <1>3
  <2>2. QED  BY <1>0, <1>1, <1>2, <1>3, <2>1 DEF FiledInv
<1>6. OutcomeInv'  BY <1>0, <1>1, <1>2, <1>3 DEF OutcomeInv
<1>7. NoneForgotten'
  <2>1. \A k \in Jobs : Returning(k) => Returning(k)' \/ k \in dropped'
    BY <1>2 DEF Returning
  <2>2. QED  BY <1>0, <1>1, <2>1 DEF NoneForgotten, TypeOK, InStream, IsDelayed
<1>8. ASSUME stale' = 0 PROVE HoldsInv' /\ OneRunInv' /\ OnePlaceInv' /\ BudgetInv'
  <2>0. HoldsInv /\ OneRunInv /\ OnePlaceInv /\ BudgetInv
    BY <1>0, <1>1, <1>8 DEF AloneInv
  <2>1. \A t \in Slots : Busy(t)' => t \notin S /\ Busy(t) /\ slot'[t] = slot[t]
    BY <1>2, <1>3 DEF Busy
  <2>2. OneRunInv'  BY <2>0, <2>1 DEF OneRunInv
  <2>3. \A t \in Slots : (Works(t) \/ Ends(t))' =>
          /\ t \notin S /\ slot'[t] = slot[t] /\ Works(t)' = Works(t)
          /\ Works(t) \/ Ends(t)
          /\ Mine(t)' = Mine(t) /\ Filed(t)' = Filed(t)
    BY <1>2, <1>3 DEF Works, Ends, Mine, Filed
  <2>4. HoldsInv'  BY <1>1, <2>0, <2>3 DEF HoldsInv
  <2>5. OnePlaceInv'  BY <1>1, <2>0, <1>2, <1>3 DEF OnePlaceInv, Listed
  <2>6. BudgetInv'
    <3>1. /\ faults \in Nat /\ starts \in [Jobs -> Nat] /\ MaxRetry \in [Jobs -> Nat]
          /\ \A c \in delayed : c.job \in Jobs /\ c.att \in Nat
          /\ \A m \in Msgs : msg[m].att \in Nat /\ (Listed(m) => msg[m].job \in Jobs)
          /\ \A t \in Slots : slot[t].att \in Nat /\ (Busy(t) => slot[t].job \in Jobs)
      BY <1>0, RedisAssumption DEF TypeOK, Copy, Entry, Task, Listed, Busy
    <3>2. \A c \in delayed' : Spent(c.job, c.att)'
      BY <1>1, <2>0, <3>1 DEF BudgetInv, Spent
    <3>3. \A m \in Msgs : Listed(m)' =>
            /\ msg'[m].att < MaxRetry[msg'[m].job]
            /\ starts'[msg'[m].job] <= msg'[m].att + faults'
      BY <1>1, <2>0, <3>1 DEF BudgetInv, Listed
    <3>4. \A t \in Slots :
            /\ slot'[t].ph = "claimed" => starts'[slot'[t].job] < slot'[t].att + faults'
            /\ slot'[t].ph = "failed" => slot'[t].att < MaxRetry[slot'[t].job]
            /\ slot'[t].ph \in {"nacking", "returning"} => Spent(slot[t].job, slot[t].att)'
      BY <1>1, <2>0, <2>1, <3>1 DEF BudgetInv, Spent, Busy
    <3>5. \A m \in Msgs : msg'[m].att \in Nat /\ (Listed(m)' => msg'[m].job \in Jobs)
      BY <1>1, <3>1 DEF Listed
    <3>6. \A k \in Jobs \ submitted' : starts'[k] = 0  BY <1>1, <2>0 DEF BudgetInv
    <3>7. QED  BY <1>1, <3>1, <3>2, <3>3, <3>4, <3>5, <3>6 DEF BudgetInv
  <2>7. QED  BY <2>2, <2>4, <2>5, <2>6
<1>9. QED  BY <1>4, <1>5, <1>6, <1>7, <1>8 DEF IInv, AloneInv

\* An entry is acknowledged; its goroutine ends or goes on to put the job back.
LEMMA Acked ==
  ASSUME IInv, NEW s \in Slots, Ends(s), XAck(slot[s].entry),
         NEW new \in Task, slot' = [slot EXCEPT ![s] = new], new.entry = NoMsg,
         \/ new.ph = "idle" /\ slot[s].job \in settled \cup dropped'
         \/ /\ new.ph = "returning" /\ slot[s].ph = "nacking"
            /\ new.job = slot[s].job /\ new.att = slot[s].att,
         dropped \subseteq dropped' /\ dropped' \subseteq Jobs,
         faults' \in faults .. MaxFaults,
         UNCHANGED <<delayed, pending, stale, submitted, starts, settled>>
  PROVE  IInv'
<1> DEFINE j == slot[s].job
<1> DEFINE e == slot[s].entry
<1>0. TypeOK /\ FiledInv /\ OutcomeInv /\ NoneForgotten /\ AloneInv
  BY DEF IInv
<1>1. j \in Jobs /\ e \in Msgs /\ NoMsg \notin Msgs
  BY <1>0, RedisAssumption DEF TypeOK, Ends, OutcomeInv
<1>2. /\ slot' \in [Slots -> Task]
      /\ slot'[s] = new
      /\ \A t \in Slots : t # s => slot'[t] = slot[t]
  BY <1>0 DEF TypeOK
<1>3. /\ msg' \in [Msgs -> Entry]
      /\ \A m \in Msgs : m # e => msg'[m] = msg[m]
      /\ msg'[e] = IF Delivered(e) THEN Blank ELSE msg[e]
      /\ Blank.st = "free"
  BY <1>0, <1>1 DEF TypeOK, XAck, Blank, Entry
<1>4. TypeOK'
  <2>1. faults' \in 0 .. MaxFaults  BY <1>0, RedisAssumption DEF TypeOK
  <2>2. \A m \in Msgs : msg'[m].st # "free" => msg'[m].job \in Jobs
    BY <1>0, <1>3 DEF TypeOK
  <2>3. \A t \in Slots : slot'[t].ph # "idle" => slot'[t].job \in Jobs
    BY <1>0, <1>1, <1>2 DEF TypeOK
  <2>4. QED  BY <1>0, <1>2, <1>3, <2>1, <2>2, <2>3 DEF TypeOK
<1>5. FiledInv'
  <2>1. \A m \in Msgs, k \in Jobs : msg[m].st = "free" \/ msg[m].job = k
                                     => msg'[m].st = "free" \/ msg'[m].job = k
    BY <1>3
  <2>2. \A p \in Procs, k \in Jobs :
          pending[p][k].m \in Msgs => \/ msg'[pending[p][k].m].st = "free"
                                      \/ msg'[pending[p][k].m].job = k
    BY <1>0, <2>1 DEF FiledInv
  <2>3. \A t \in Slots :
          slot'[t].entry \in Msgs => \/ msg'[slot'[t].entry].st = "free"
                                     \/ msg'[slot'[t].entry].job = slot'[t].job
    BY <1>0, <1>1, <1>2, <1>3 DEF FiledInv
  <2>4. QED  BY <2>2, <2>3 DEF FiledInv
<1>6. OutcomeInv'  BY <1>0, <1>2 DEF OutcomeInv
<1>7. NoneForgotten'
  <2>1. msg[e].st = "free" \/ msg[e].job = j  BY <1>0, <1>1 DEF FiledInv
  <2>2. \A k \in Jobs : InStream(k) /\ k # j => InStream(k)'
    BY <1>3, <2>1 DEF InStream
  <2>3. \A k \in Jobs : Returning(k) => Returning(k)'
    BY <1>2 DEF Returning, Ends
  <2>4. j \in settled' \cup dropped' \/ Returning(j)'
    BY <1>2 DEF Returning
  <2>5. QED  BY <1>0, <2>2, <2>3, <2>4 DEF NoneForgotten, TypeOK, IsDelayed
<1>8. ASSUME stale' = 0 PROVE HoldsInv' /\ OneRunInv' /\ OnePlaceInv' /\ BudgetInv'
  <2>0. HoldsInv /\ OneRunInv /\ OnePlaceInv /\ BudgetInv
    BY <1>0, <1>8 DEF AloneInv
  <2>1. \A t \in Slots : Busy(t)' => Busy(t) /\ slot'[t].job = slot[t].job
    BY <1>2 DEF Busy, Ends
  <2>2. OneRunInv'  BY <2>0, <2>1 DEF OneRunInv
  <2>3. msg[e].st = "pending" /\ msg[e].job = j /\ Listed(e)
    BY <2>0 DEF HoldsInv, Mine, Works, Ends, Listed
  <2>4. \A m \in Msgs : Listed(m)' => m # e /\ Listed(m) /\ msg'[m] = msg[m] /\ msg[m].job # j
    <3>1. msg'[e].st = "free"  BY <1>3, <2>3 DEF Delivered
    <3>2. QED  BY <1>1, <1>3, <2>0, <2>3, <3>1 DEF OnePlaceInv, Listed
  <2>5. \A t \in Slots : (Works(t) \/ Ends(t))' =>
          /\ t # s /\ slot'[t] = slot[t] /\ Works(t)' = Works(t)
          /\ Works(t) \/ Ends(t)
          /\ Mine(t)' = Mine(t) /\ Filed(t)' = Filed(t)
    BY <1>2 DEF Works, Ends, Mine, Filed
  <2>6. \A t \in Slots : t # s /\ (Works(t) \/ Ends(t)) => Mine(t) # e
    BY <2>0, <2>3 DEF HoldsInv, OneRunInv, Busy, Works, Ends
  <2>7. HoldsInv'  BY <1>3, <2>0, <2>5, <2>6 DEF HoldsInv
  <2>8. \A c \in delayed : c.job # j  BY <1>1, <2>0, <2>3 DEF OnePlaceInv
  <2>9. j \in submitted  BY <1>1, <2>0, <2>3 DEF OnePlaceInv
  <2>10. OnePlaceInv'
    <3>1. \A t \in Slots : slot'[t].ph = "returning" =>
            slot'[t].job = slot[t].job /\ (t = s \/ slot[t].ph = "returning")
      BY <1>2
    <3>2. QED  BY <1>1, <2>0, <2>4, <2>8, <2>9, <3>1 DEF OnePlaceInv
  <2>11. BudgetInv'
    <3>1. /\ faults \in Nat /\ faults' \in Nat /\ faults <= faults'
          /\ starts \in [Jobs -> Nat] /\ MaxRetry \in [Jobs -> Nat]
          /\ \A c \in delayed : c.job \in Jobs /\ c.att \in Nat
          /\ \A m \in Msgs : msg[m].att \in Nat /\ (Listed(m) => msg[m].job \in Jobs)
          /\ \A t \in Slots : slot[t].att \in Nat /\ (Busy(t) => slot[t].job \in Jobs)
      BY <1>0, RedisAssumption DEF TypeOK, Copy, Entry, Task, Listed, Busy
    <3>2. \A c \in delayed' : Spent(c.job, c.att)'
      BY <2>0, <3>1 DEF BudgetInv, Spent
    <3>3. \A m \in Msgs : Listed(m)' =>
            /\ msg'[m].att < MaxRetry[msg'[m].job]
            /\ starts'[msg'[m].job] <= msg'[m].att + faults' + 1
            /\ (\A t \in Slots : Busy(t)' => slot'[t].job # msg'[m].job)
                 => starts'[msg'[m].job] <= msg'[m].att + faults'
      <4>1. \A m \in Msgs : Listed(m)' /\ (\A t \in Slots : Busy(t)' => slot'[t].job # msg'[m].job)
              => (\A t \in Slots : Busy(t) => slot[t].job # msg[m].job)
        BY <1>2, <2>4 DEF Busy
      <4>2. QED  BY <2>0, <2>4, <3>1, <4>1 DEF BudgetInv
    <3>4. \A t \in Slots :
            /\ slot'[t].ph = "claimed" => starts'[slot'[t].job] < slot'[t].att + faults'
            /\ slot'[t].ph = "failed" => slot'[t].att < MaxRetry[slot'[t].job]
            /\ slot'[t].ph \in {"nacking", "returning"} => Spent(slot[t].job, slot[t].att)'
      <4>1. \A t \in Slots : slot'[t].ph \in {"claimed", "failed"} =>
               slot'[t] = slot[t] /\ slot[t].job \in Jobs
        BY <1>2, <3>1 DEF Busy
      <4>2. \A t \in Slots : slot'[t].ph \in {"nacking", "returning"} =>
               /\ slot[t].ph \in {"nacking", "returning"} /\ slot[t].job \in Jobs
               /\ slot'[t].job = slot[t].job /\ slot'[t].att = slot[t].att
        BY <1>2, <3>1 DEF Busy
      <4>3. QED  BY <2>0, <3>1, <4>1, <4>2 DEF BudgetInv, Spent
    <3>5. \A k \in Jobs \ submitted' : starts'[k] = 0  BY <2>0 DEF BudgetInv
    <3>6. QED  BY <3>2, <3>3, <3>4, <3>5 DEF BudgetInv
  <2>12. QED  BY <2>2, <2>7, <2>10, <2>11
<1>9. QED  BY <1>4, <1>5, <1>6, <1>7, <1>8 DEF IInv, AloneInv

LEMMA AckEntrySound ==
  ASSUME IInv, NEW s \in Slots, AckEntry(s) PROVE IInv'
<1>1. TypeOK /\ OutcomeInv  BY DEF IInv
<1>2. Idle \in Task /\ Idle.ph = "idle" /\ Idle.entry = NoMsg  BY DEF Idle, Task
<1>3. /\ Ends(s) /\ slot[s].job \in settled
      /\ faults' \in faults .. MaxFaults /\ dropped' = dropped /\ dropped \subseteq Jobs
  BY <1>1, RedisAssumption DEF AckEntry, Ends, OutcomeInv, TypeOK, faultVars, historyVars
<1>4. QED  BY <1>2, <1>3, Acked DEF AckEntry, Release, faultVars, historyVars

LEMMA AckFirstSound ==
  ASSUME IInv, NEW s \in Slots, AckFirst(s) PROVE IInv'
<1>1. TypeOK  BY DEF IInv
<1> DEFINE new == [slot[s] EXCEPT !.ph = "returning", !.entry = NoMsg]
<1>2. /\ new \in Task /\ new.ph = "returning" /\ new.entry = NoMsg
      /\ new.job = slot[s].job /\ new.att = slot[s].att
  BY <1>1 DEF TypeOK, Task
<1>3. /\ Ends(s) /\ slot[s].ph = "nacking"
      /\ faults' \in faults .. MaxFaults /\ dropped' = dropped /\ dropped \subseteq Jobs
  BY <1>1, RedisAssumption DEF AckFirst, Ends, TypeOK, faultVars, historyVars
<1>4. slot' = [slot EXCEPT ![s] = new]  BY DEF AckFirst
<1>5. QED  BY <1>2, <1>3, <1>4, Acked DEF AckFirst, faultVars, historyVars

LEMMA CommandFailsSound ==
  ASSUME IInv, NEW s \in Slots, CommandFails(s) PROVE IInv'
<1>1. TypeOK /\ OutcomeInv  BY DEF IInv
<1>2. Idle \in Task /\ Idle.ph = "idle" /\ Idle.entry = NoMsg  BY DEF Idle, Task
<1>3. /\ slot[s].ph # "idle" /\ slot[s].job \in Jobs /\ dropped \subseteq Jobs
      /\ faults < MaxFaults /\ faults' = faults + 1 /\ faults' \in faults .. MaxFaults
      /\ UNCHANGED <<delayed, pending, stale, submitted, starts, settled>>
      /\ slot' = [slot EXCEPT ![s] = Idle]
  BY <1>1, RedisAssumption DEF CommandFails, TypeOK, Release
<1>4. CASE /\ slot[s].ph \in {"acking", "nacking"} /\ XAck(slot[s].entry)
           /\ dropped' = IF slot[s].ph = "nacking" THEN dropped \cup {slot[s].job}
                                                   ELSE dropped
  <2>1. /\ Ends(s) /\ slot[s].job \in settled \cup dropped'
        /\ dropped \subseteq dropped' /\ dropped' \subseteq Jobs
    BY <1>1, <1>3, <1>4 DEF OutcomeInv, Ends
  <2>2. QED  BY <1>2, <1>3, <1>4, <2>1, Acked
<1>5. CASE /\ msg' = msg
           /\ \/ slot[s].ph \in {"acking", "nacking"} /\ dropped' = dropped
              \/ slot[s].ph = "returning" /\ dropped' = dropped \cup {slot[s].job}
  <2>1. /\ dropped \subseteq dropped' /\ dropped' \subseteq Jobs
        /\ slot[s].ph = "returning" => slot[s].job \in dropped'
    BY <1>3, <1>5
  <2>2. slot' = [t \in Slots |-> IF t \in {s} THEN Idle ELSE slot[t]]
    BY <1>1, <1>3 DEF TypeOK
  <2>3. /\ pending' \in [Procs -> [Jobs -> Filing]]
        /\ \A x \in Procs, k \in Jobs : pending'[x][k] \in {pending[x][k], Nothing}
        /\ \A t \in Slots \ {s} : pending'[ProcOf[t]] = pending[ProcOf[t]]
    BY <1>1, <1>3 DEF TypeOK
  <2>4. UNCHANGED <<redisVars, stale, submitted, starts, settled>>
    BY <1>3, <1>5 DEF redisVars
  <2>5. \A t \in {s} : slot[t].ph = "returning" => slot[t].job \in dropped'
    BY <2>1
  <2>6. QED  BY <1>3, <2>1, <2>2, <2>3, <2>4, <2>5, LetGo
<1>6. QED  BY <1>4, <1>5 DEF CommandFails

LEMMA CrashSound ==
  ASSUME IInv, NEW p \in Procs, Crash(p) PROVE IInv'
<1>1. TypeOK  BY DEF IInv
<1> DEFINE S == {t \in Slots : ProcOf[t] = p}
<1>2. slot' = [t \in Slots |-> IF t \in S THEN Idle ELSE slot[t]]  BY DEF Crash
<1>3. NoFilings \in [Jobs -> Filing] /\ \A k \in Jobs : NoFilings[k] = Nothing
  BY DEF NoFilings, Nothing, Filing
<1>4. /\ pending' \in [Procs -> [Jobs -> Filing]]
      /\ pending'[p] = NoFilings
      /\ \A x \in Procs : x # p => pending'[x] = pending[x]
  BY <1>1, <1>3 DEF Crash, TypeOK
<1>5. /\ \A x \in Procs, k \in Jobs : pending'[x][k] \in {pending[x][k], Nothing}
      /\ \A t \in Slots \ S : pending'[ProcOf[t]] = pending[ProcOf[t]]
  BY <1>3, <1>4, RedisAssumption
<1>6. /\ \A t \in S : slot[t].ph = "returning" => slot[t].job \in dropped'
      /\ dropped \subseteq dropped' /\ dropped' \subseteq Jobs
  BY <1>1 DEF Crash, TypeOK
<1>7. /\ faults < MaxFaults /\ faults' = faults + 1
      /\ UNCHANGED <<redisVars, stale, submitted, starts, settled>>
  BY DEF Crash
<1>8. QED  BY <1>2, <1>4, <1>5, <1>6, <1>7, LetGo

\* An entry is delivered, renewed, or has been idle: it stays where it is, and
\* nobody works on one that is found idle.
LEMMA Relabelled ==
  ASSUME IInv, NEW e \in Msgs, NEW st \in {"pending", "idle"}, Listed(e),
         msg' = [msg EXCEPT ![e] = [msg[e] EXCEPT !.st = st]],
         faults' \in faults .. MaxFaults, stale' \in 0 .. MaxStale, stale <= stale',
         st = "idle" => stale' # 0 \/ ~Known(e),
         UNCHANGED <<delayed, pending, slot, submitted, historyVars>>
  PROVE  IInv'
<1>0. TypeOK /\ FiledInv /\ OutcomeInv /\ NoneForgotten /\ AloneInv
  BY DEF IInv
<1>1. /\ delayed' = delayed /\ pending' = pending /\ slot' = slot
      /\ submitted' = submitted /\ starts' = starts /\ settled' = settled /\ dropped' = dropped
  BY DEF historyVars
<1>2. /\ msg' \in [Msgs -> Entry]
      /\ \A m \in Msgs : /\ msg'[m].job = msg[m].job /\ msg'[m].att = msg[m].att
                         /\ Listed(m)' = Listed(m)
                         /\ m # e => msg'[m] = msg[m]
      /\ msg'[e].st = st
  BY <1>0 DEF TypeOK, Entry, Listed
<1>3. TypeOK'
  <2>1. faults' \in 0 .. MaxFaults  BY <1>0, RedisAssumption DEF TypeOK
  <2>2. QED  BY <1>0, <1>1, <1>2, <2>1 DEF TypeOK, Listed
<1>4. FiledInv'  BY <1>0, <1>1, <1>2 DEF FiledInv, Listed
<1>5. OutcomeInv'  BY <1>0, <1>1 DEF OutcomeInv
<1>6. NoneForgotten'
  <2>1. \A k \in Jobs : InStream(k) => InStream(k)'
    BY <1>2 DEF InStream, Listed
  <2>2. QED  BY <1>0, <1>1, <2>1 DEF NoneForgotten, TypeOK, IsDelayed, Returning
<1>7. ASSUME stale' = 0 PROVE HoldsInv' /\ OneRunInv' /\ OnePlaceInv' /\ BudgetInv'
  <2>0. HoldsInv /\ OneRunInv /\ OnePlaceInv /\ BudgetInv
    BY <1>0, <1>7 DEF AloneInv, TypeOK
  <2>1. \A t \in Slots : /\ Works(t)' = Works(t) /\ Ends(t)' = Ends(t) /\ Busy(t)' = Busy(t)
                         /\ Filed(t)' = Filed(t) /\ Mine(t)' = Mine(t)
    BY <1>1 DEF Works, Ends, Busy, Filed, Mine
  <2>2. OneRunInv'  BY <1>1, <2>0, <2>1 DEF OneRunInv
  <2>3. \A t \in Slots : Works(t) \/ Ends(t) => Mine(t) # e \/ st = "pending"
    <3>1. \A t \in Slots : Works(t) => slot[t].job \in Jobs /\ ProcOf[t] \in Procs
      BY <1>0, RedisAssumption DEF Works, TypeOK
    <3>2. \A t \in Slots : Works(t) /\ Mine(t) = e => Known(e)
      BY <3>1 DEF Mine, Filed, Known
    <3>3. \A t \in Slots : Ends(t) /\ Mine(t) = e => Known(e)
      BY DEF Mine, Known, Works, Ends
    <3>4. QED  BY <1>7, <3>2, <3>3
  <2>4. HoldsInv'  BY <1>1, <1>2, <2>0, <2>1, <2>3 DEF HoldsInv
  <2>5. OnePlaceInv'  BY <1>1, <1>2, <2>0 DEF OnePlaceInv
  <2>6. BudgetInv'
    <3>1. /\ faults \in Nat /\ faults' \in Nat /\ faults <= faults'
          /\ starts \in [Jobs -> Nat] /\ MaxRetry \in [Jobs -> Nat]
          /\ \A c \in delayed : c.job \in Jobs /\ c.att \in Nat
          /\ \A m \in Msgs : msg[m].att \in Nat /\ (Listed(m) => msg[m].job \in Jobs)
          /\ \A t \in Slots : slot[t].att \in Nat /\ (Busy(t) => slot[t].job \in Jobs)
      BY <1>0, RedisAssumption DEF TypeOK, Copy, Entry, Task, Listed, Busy
    <3>2. \A c \in delayed' : Spent(c.job, c.att)'
      BY <1>1, <2>0, <3>1 DEF BudgetInv, Spent
    <3>3. \A m \in Msgs : Listed(m)' =>
            /\ msg'[m].att < MaxRetry[msg'[m].job]
            /\ starts'[msg'[m].job] <= msg'[m].att + faults' + 1
            /\ (\A t \in Slots : Busy(t)' => slot'[t].job # msg'[m].job)
                 => starts'[msg'[m].job] <= msg'[m].att + faults'
      BY <1>1, <1>2, <2>0, <2>1, <3>1 DEF BudgetInv
    <3>4. \A t \in Slots :
            /\ slot'[t].ph = "claimed" => starts'[slot'[t].job] < slot'[t].att + faults'
            /\ slot'[t].ph = "failed" => slot'[t].att < MaxRetry[slot'[t].job]
            /\ slot'[t].ph \in {"nacking", "returning"} => Spent(slot[t].job, slot[t].att)'
      BY <1>1, <2>0, <3>1 DEF BudgetInv, Spent, Busy
    <3>5. \A k \in Jobs \ submitted' : starts'[k] = 0  BY <1>1, <2>0 DEF BudgetInv
    <3>6. QED  BY <3>2, <3>3, <3>4, <3>5 DEF BudgetInv
  <2>7. QED  BY <2>2, <2>4, <2>5, <2>6
<1>8. QED  BY <1>3, <1>4, <1>5, <1>6, <1>7 DEF IInv, AloneInv

LEMMA DequeueLostSound ==
  ASSUME IInv, NEW p \in Procs, NEW m \in Msgs, DequeueLost(p, m) PROVE IInv'
<1>1. TypeOK  BY DEF IInv
<1>2. /\ Listed(m) /\ faults' \in faults .. MaxFaults
      /\ stale' \in 0 .. MaxStale /\ stale <= stale'
  BY <1>1, RedisAssumption DEF DequeueLost, Claimable, Listed, TypeOK
<1>3. QED  BY <1>2, Relabelled DEF DequeueLost, Claimed

LEMMA RenewSound ==
  ASSUME IInv, NEW s \in Slots, Renew(s) PROVE IInv'
<1> DEFINE m == pending[ProcOf[s]][slot[s].job].m
<1>1. TypeOK  BY DEF IInv
<1>2. slot[s].job \in Jobs /\ ProcOf[s] \in Procs  BY <1>1, RedisAssumption DEF Renew, TypeOK
<1>3. m \in Msgs /\ Listed(m)  BY <1>1, <1>2 DEF Renew, TypeOK, Filing, Listed
<1>4. /\ faults' \in faults .. MaxFaults /\ stale' \in 0 .. MaxStale /\ stale <= stale'
  BY <1>1, RedisAssumption DEF Renew, TypeOK, faultVars
<1>5. QED  BY <1>3, <1>4, Relabelled DEF Renew, Claimed

LEMMA OrphanIdleSound ==
  ASSUME IInv, NEW m \in Msgs, OrphanIdle(m) PROVE IInv'
<1>1. TypeOK  BY DEF IInv
<1>2. /\ Listed(m) /\ faults' \in faults .. MaxFaults
      /\ stale' \in 0 .. MaxStale /\ stale <= stale'
  BY <1>1, RedisAssumption DEF OrphanIdle, GoesIdle, Listed, TypeOK, faultVars
<1>3. QED  BY <1>2, Relabelled DEF OrphanIdle, GoesIdle

LEMMA LiveIdleSound ==
  ASSUME IInv, NEW m \in Msgs, LiveIdle(m) PROVE IInv'
<1>1. TypeOK  BY DEF IInv
<1>2. /\ Listed(m) /\ faults' \in faults .. MaxFaults
      /\ stale' \in 0 .. MaxStale /\ stale <= stale' /\ stale' # 0
  BY <1>1, RedisAssumption DEF LiveIdle, GoesIdle, Listed, TypeOK
<1>3. QED  BY <1>2, Relabelled DEF LiveIdle, GoesIdle

LEMMA DropUndecodableSound ==
  ASSUME IInv, NEW p \in Procs, NEW e \in Msgs, DropUndecodable(p, e) PROVE IInv'
<1>0. TypeOK /\ FiledInv /\ OutcomeInv /\ NoneForgotten /\ AloneInv
  BY DEF IInv
<1>1. /\ delayed' = delayed /\ pending' = pending /\ slot' = slot /\ faults' = faults
      /\ stale' = stale /\ submitted' = submitted /\ starts' = starts
      /\ settled' = settled /\ dropped' = dropped
      /\ msg[e].st \in {"unread", "idle"} /\ msg[e].job \in WithBackoff
  BY DEF DropUndecodable, Claimable, faultVars, historyVars
<1>2. /\ msg' \in [Msgs -> Entry]
      /\ \A m \in Msgs : m # e => msg'[m] = msg[m]
      /\ msg'[e] = Blank /\ Blank.st = "free"
  BY <1>0 DEF TypeOK, Entry, Blank, DropUndecodable
<1>3. TypeOK'
  <2>1. \A m \in Msgs : msg'[m].st # "free" => msg'[m].job \in Jobs
    BY <1>0, <1>2 DEF TypeOK
  <2>2. QED  BY <1>0, <1>1, <1>2, <2>1 DEF TypeOK
<1>4. FiledInv'
  <2>1. \A m \in Msgs, k \in Jobs : msg[m].st = "free" \/ msg[m].job = k
                                     => msg'[m].st = "free" \/ msg'[m].job = k
    BY <1>2
  <2>2. \A m \in Msgs, t \in Slots : msg[m].st = "free" \/ msg[m].job = slot[t].job
                                     => msg'[m].st = "free" \/ msg'[m].job = slot[t].job
    BY <1>2
  <2>3. QED  BY <1>0, <1>1, <2>1, <2>2 DEF FiledInv
<1>5. OutcomeInv'  BY <1>0, <1>1 DEF OutcomeInv
<1>6. NoneForgotten'
  <2>1. \A k \in Jobs : InStream(k) /\ k \notin WithBackoff => InStream(k)'
    BY <1>1, <1>2 DEF InStream
  <2>2. QED  BY <1>0, <1>1, <2>1 DEF NoneForgotten, TypeOK, IsDelayed, Returning
<1>7. ASSUME stale' = 0 PROVE HoldsInv' /\ OneRunInv' /\ OnePlaceInv' /\ BudgetInv'
  <2>0. HoldsInv /\ OneRunInv /\ OnePlaceInv /\ BudgetInv
    BY <1>0, <1>1, <1>7 DEF AloneInv
  <2>1. \A t \in Slots : /\ Works(t)' = Works(t) /\ Ends(t)' = Ends(t) /\ Busy(t)' = Busy(t)
                         /\ Filed(t)' = Filed(t) /\ Mine(t)' = Mine(t)
    BY <1>1 DEF Works, Ends, Busy, Filed, Mine
  <2>2. OneRunInv'  BY <1>1, <2>0, <2>1 DEF OneRunInv
  <2>3. \A t \in Slots : Works(t) \/ Ends(t) => Mine(t) # e
    BY <1>1, <2>0 DEF HoldsInv
  <2>4. HoldsInv'  BY <1>1, <1>2, <2>0, <2>1, <2>3 DEF HoldsInv
  <2>5. \A m \in Msgs : Listed(m)' => Listed(m) /\ msg'[m] = msg[m]
    BY <1>2 DEF Listed
  <2>6. OnePlaceInv'  BY <1>1, <2>0, <2>5 DEF OnePlaceInv
  <2>7. BudgetInv'
    <3>1. \A m \in Msgs : Listed(m)' =>
            /\ msg'[m].att < MaxRetry[msg'[m].job]
            /\ starts'[msg'[m].job] <= msg'[m].att + faults' + 1
            /\ (\A t \in Slots : Busy(t)' => slot'[t].job # msg'[m].job)
                 => starts'[msg'[m].job] <= msg'[m].att + faults'
      BY <1>1, <2>0, <2>1, <2>5 DEF BudgetInv
    <3>2. QED  BY <1>1, <2>0, <3>1 DEF BudgetInv, Spent
  <2>8. QED  BY <2>2, <2>4, <2>6, <2>7
<1>8. QED  BY <1>3, <1>4, <1>5, <1>6, <1>7 DEF IInv, AloneInv

LEMMA DequeueSound ==
  ASSUME IInv, NEW p \in Procs, NEW e \in Msgs, Dequeue(p, e) PROVE IInv'
<1> DEFINE j == msg[e].job
<1> DEFINE f == [m |-> e, att |-> msg[e].att + 1, unh |-> msg[e].unh]
<1> DEFINE new == [ph |-> "claimed", job |-> j, att |-> msg[e].att + 1,
                   unh |-> msg[e].unh, entry |-> NoMsg]
<1>0. TypeOK /\ FiledInv /\ OutcomeInv /\ NoneForgotten /\ AloneInv
  BY DEF IInv
<1>1. /\ delayed' = delayed /\ faults' = faults
      /\ stale' = stale /\ submitted' = submitted /\ starts' = starts
      /\ settled' = settled /\ dropped' = dropped
      /\ msg[e].st \in {"unread", "idle"} /\ Listed(e)
      /\ j \in Jobs /\ msg[e] \in Entry /\ NoMsg \notin Msgs
  BY <1>0, RedisAssumption DEF Dequeue, Claimable, faultVars, historyVars, TypeOK, Listed
<1>2. PICK s \in Slots : /\ ProcOf[s] = p /\ slot[s].ph = "idle"
                         /\ slot' = [slot EXCEPT ![s] = new]
  <2>1. PICK s \in Free(p) : s = CHOOSE t \in Free(p) : TRUE  BY DEF Dequeue
  <2>2. QED  BY <2>1 DEF Dequeue, Free
<1>3. /\ slot' \in [Slots -> Task]
      /\ slot'[s] = new /\ new.entry = NoMsg /\ new.job = j /\ new.ph = "claimed"
      /\ new.att = msg[e].att + 1
      /\ \A t \in Slots : t # s => slot'[t] = slot[t]
  <2>1. new \in Task  BY <1>1 DEF Task, Entry
  <2>2. QED  BY <1>0, <1>2, <2>1 DEF TypeOK
<1>4. /\ pending' \in [Procs -> [Jobs -> Filing]]
      /\ pending'[p][j] = f /\ f.m = e /\ f.att = msg[e].att + 1
      /\ \A x \in Procs, k \in Jobs : x # p \/ k # j => pending'[x][k] = pending[x][k]
  <2>1. f \in Filing  BY <1>1 DEF Filing, Entry
  <2>2. QED  BY <1>0, <1>1, <2>1 DEF Dequeue, TypeOK
<1>5. /\ msg' \in [Msgs -> Entry]
      /\ \A m \in Msgs : /\ msg'[m].job = msg[m].job /\ msg'[m].att = msg[m].att
                         /\ Listed(m)' = Listed(m)
                         /\ m # e => msg'[m] = msg[m]
      /\ msg'[e].st = "pending"
  BY <1>0, <1>1 DEF TypeOK, Entry, Listed, Dequeue, Claimed
<1>6. TypeOK'
  <2>1. \A m \in Msgs : msg'[m].st # "free" => msg'[m].job \in Jobs
    <3>1. \A m \in Msgs : (msg'[m].st # "free") = (msg[m].st # "free")
      BY <1>5 DEF Listed
    <3>2. \A m \in Msgs : msg[m].st # "free" => msg[m].job \in Jobs
      BY <1>0 DEF TypeOK
    <3>3. QED  BY <1>5, <3>1, <3>2
  <2>2. \A t \in Slots : slot'[t].ph # "idle" => slot'[t].job \in Jobs
    <3>1. \A t \in Slots : slot[t].ph # "idle" => slot[t].job \in Jobs
      BY <1>0 DEF TypeOK
    <3>2. QED  BY <1>1, <1>3, <3>1
  <2>3. QED  BY <1>0, <1>1, <1>3, <1>4, <1>5, <2>1, <2>2 DEF TypeOK
<1>7. FiledInv'
  <2>1. \A x \in Procs, k \in Jobs :
          pending'[x][k].m \in Msgs => \/ msg'[pending'[x][k].m].st = "free"
                                       \/ msg'[pending'[x][k].m].job = k
    BY <1>0, <1>1, <1>4, <1>5 DEF FiledInv, Listed
  <2>2. \A t \in Slots :
          slot'[t].entry \in Msgs => \/ msg'[slot'[t].entry].st = "free"
                                     \/ msg'[slot'[t].entry].job = slot'[t].job
    BY <1>0, <1>1, <1>3, <1>5 DEF FiledInv, Listed
  <2>3. QED  BY <2>1, <2>2 DEF FiledInv
<1>8. OutcomeInv'  BY <1>0, <1>1, <1>3 DEF OutcomeInv, Entry
<1>9. NoneForgotten'
  <2>1. \A k \in Jobs : InStream(k) => InStream(k)'  BY <1>5 DEF InStream, Listed
  <2>2. \A k \in Jobs : Returning(k) => Returning(k)'  BY <1>2, <1>3 DEF Returning
  <2>3. QED  BY <1>0, <1>1, <2>1, <2>2 DEF NoneForgotten, TypeOK, IsDelayed
<1>10. ASSUME stale' = 0 PROVE HoldsInv' /\ OneRunInv' /\ OnePlaceInv' /\ BudgetInv'
  <2>0. HoldsInv /\ OneRunInv /\ OnePlaceInv /\ BudgetInv
    BY <1>0, <1>1, <1>10 DEF AloneInv
  <2>1. \A t \in Slots : Busy(t) => slot[t].job # j /\ slot[t].job \in Jobs
    <3>1. \A t \in Slots : Works(t) \/ Ends(t) => slot[t].job # j
      BY <1>1, <2>0 DEF HoldsInv, OnePlaceInv, Listed
    <3>2. \A t \in Slots : slot[t].ph = "returning" => slot[t].job # j
      BY <1>1, <2>0 DEF OnePlaceInv
    <3>3. \A t \in Slots : Busy(t) => Works(t) \/ Ends(t) \/ slot[t].ph = "returning"
      BY <1>0 DEF TypeOK, Task, Busy, Works, Ends
    <3>4. QED  BY <1>0, <3>1, <3>2, <3>3 DEF TypeOK, Busy
  <2>2. \A t \in Slots : t # s => slot'[t] = slot[t] /\ Busy(t)' = Busy(t)
    <3>1. \A t \in Slots : t # s => slot'[t] = slot[t]  BY <1>3
    <3>2. QED  BY <3>1 DEF Busy
  <2>3. OneRunInv'  BY <1>3, <2>0, <2>1, <2>2 DEF OneRunInv
  <2>4. \A t \in Slots : t # s /\ (Works(t) \/ Ends(t))' =>
          /\ Works(t) \/ Ends(t)
          /\ Mine(t)' = Mine(t) /\ slot'[t] = slot[t] /\ Works(t)' = Works(t)
          /\ Works(t) => Filed(t)' = Filed(t)
          /\ Mine(t) # e
    <3>1. \A t \in Slots : t # s /\ (Works(t) \/ Ends(t))' =>
            Busy(t) /\ (Works(t) \/ Ends(t)) /\ slot'[t] = slot[t] /\ Works(t)' = Works(t)
      BY <1>3 DEF Works, Ends, Busy
    <3>2. \A t \in Slots : t # s /\ Works(t) => Filed(t)' = Filed(t)
      BY <1>3, <1>4, <2>1, RedisAssumption DEF Filed, Works, Busy
    <3>3. \A t \in Slots : Works(t) \/ Ends(t) => Mine(t) # e
      BY <1>1, <2>0 DEF HoldsInv
    <3>4. QED  BY <3>1, <3>2, <3>3 DEF Mine
  <2>5. Works(s)' /\ Filed(s)' = f /\ Mine(s)' = e
    BY <1>2, <1>3, <1>4 DEF Works, Mine, Filed
  <2>6. HoldsInv'
    <3>1. \A t \in Slots : t # s /\ (Works(t) \/ Ends(t))' =>
            (/\ Mine(t) \in Msgs
             /\ msg[Mine(t)].st = "pending" /\ msg[Mine(t)].job = slot[t].job
             /\ Works(t) => /\ Filed(t).att = slot[t].att
                            /\ slot[t].att = msg[Mine(t)].att + 1)'
      BY <1>5, <2>0, <2>4 DEF HoldsInv
    <3>2. (/\ Mine(s) \in Msgs
           /\ msg[Mine(s)].st = "pending" /\ msg[Mine(s)].job = slot[s].job
           /\ Works(s) => /\ Filed(s).att = slot[s].att
                          /\ slot[s].att = msg[Mine(s)].att + 1)'
      BY <1>3, <1>4, <1>5, <2>5
    <3>3. QED  BY <3>1, <3>2 DEF HoldsInv
  <2>7. OnePlaceInv'  BY <1>1, <1>2, <1>3, <1>5, <2>0 DEF OnePlaceInv
  <2>8. BudgetInv'
    <3>1. /\ faults \in Nat /\ starts \in [Jobs -> Nat] /\ msg[e].att \in Nat
      BY <1>0, <1>1 DEF TypeOK, Entry
    <3>2. starts[j] <= msg[e].att + faults
      BY <1>1, <2>0, <2>1 DEF BudgetInv
    <3>3. starts'[new.job] < new.att + faults'  BY <1>1, <1>3, <3>1, <3>2
    <3>4. \A m \in Msgs : (\A t \in Slots : Busy(t)' => slot'[t].job # msg'[m].job)
                             => (\A t \in Slots : Busy(t) => slot[t].job # msg[m].job)
      BY <1>2, <1>3, <1>5 DEF Busy
    <3>5. \A m \in Msgs : Listed(m)' =>
            /\ msg'[m].att < MaxRetry[msg'[m].job]
            /\ starts'[msg'[m].job] <= msg'[m].att + faults' + 1
            /\ (\A t \in Slots : Busy(t)' => slot'[t].job # msg'[m].job)
                 => starts'[msg'[m].job] <= msg'[m].att + faults'
      BY <1>1, <1>5, <2>0, <3>4 DEF BudgetInv
    <3>6. QED  BY <1>1, <1>3, <2>0, <3>3, <3>5 DEF BudgetInv, Spent
  <2>9. QED  BY <2>3, <2>6, <2>7, <2>8
<1>11. QED  BY <1>6, <1>7, <1>8, <1>9, <1>10 DEF IInv, AloneInv

\* A copy of a job arrives in the stream or among the delayed: from the set D
\* it leaves, from the goroutines S that put it back, or submitted for the
\* first time.
LEMMA Arrives ==
  ASSUME IInv, NEW c \in Copy, NEW D \in SUBSET delayed, NEW S \in SUBSET Slots,
         (delayed' = D /\ XAdd(c)) \/ (delayed' = D \cup {c} /\ msg' = msg),
         slot' = [t \in Slots |-> IF t \in S THEN Idle ELSE slot[t]],
         \A d \in delayed \ D : d.job = c.job,
         \A t \in S : slot[t].ph = "returning" /\ slot[t].job = c.job,
         submitted' \in {submitted, submitted \cup {c.job}},
         stale = 0 => /\ c.job \in submitted'
                      /\ \A m \in Msgs : Listed(m) => msg[m].job # c.job
                      /\ \A d \in D : d.job # c.job
                      /\ \A t \in Slots \ S : Busy(t) => slot[t].job # c.job
                      /\ Spent(c.job, c.att),
         UNCHANGED <<pending, faultVars, historyVars>>
  PROVE  IInv'
<1> DEFINE Added(m) == Listed(m)' /\ ~Listed(m)
<1>0. TypeOK /\ FiledInv /\ OutcomeInv /\ NoneForgotten /\ AloneInv
  BY DEF IInv
<1>1. /\ pending' = pending /\ faults' = faults /\ stale' = stale
      /\ starts' = starts /\ settled' = settled /\ dropped' = dropped
      /\ c.job \in Jobs /\ c.att \in Nat /\ D \subseteq delayed
      /\ delayed' \subseteq D \cup {c}
  BY DEF faultVars, historyVars, Copy
<1>2. /\ slot' \in [Slots -> Task]
      /\ \A t \in S : slot'[t] = Idle
      /\ \A t \in Slots : t \notin S => slot'[t] = slot[t]
      /\ Idle.ph = "idle" /\ Idle.entry = NoMsg /\ NoMsg \notin Msgs
  <2>1. Idle \in Task /\ Idle.ph = "idle" /\ Idle.entry = NoMsg  BY DEF Idle, Task
  <2>2. QED  BY <1>0, <2>1, RedisAssumption DEF TypeOK
<1>3. /\ msg' \in [Msgs -> Entry]
      /\ \A m \in Msgs : Listed(m) => msg'[m] = msg[m]
      /\ \A m \in Msgs : Added(m) => /\ msg'[m].job = c.job /\ msg'[m].att = c.att
                                     /\ ~Known(m) /\ delayed' = D
      /\ \A m, n \in Msgs : Added(m) /\ Added(n) => m = n
      /\ InStream(c.job)' \/ IsDelayed(c.job)'
  <2>1. CASE delayed' = D /\ XAdd(c)
    <3> DEFINE new == [st |-> "unread", job |-> c.job, att |-> c.att, unh |-> c.unh]
    <3>1. PICK e \in Unused : e = CHOOSE m \in Unused : TRUE  BY <2>1 DEF XAdd
    <3>2. /\ e \in Msgs /\ msg[e].st = "free" /\ ~Known(e)
          /\ msg' = [msg EXCEPT ![e] = new]
      BY <2>1, <3>1 DEF XAdd, Unused
    <3>3. new \in Entry /\ new.job = c.job /\ new.att = c.att /\ new.st = "unread"
      BY DEF Entry, Copy
    <3>4. /\ msg' \in [Msgs -> Entry] /\ msg'[e] = new
          /\ \A m \in Msgs : m # e => msg'[m] = msg[m]
      BY <1>0, <3>2, <3>3 DEF TypeOK
    <3>5. \A m \in Msgs : Added(m) => m = e  BY <3>4 DEF Listed
    <3>6. InStream(c.job)'  BY <3>2, <3>3, <3>4 DEF InStream
    <3>7. QED  BY <2>1, <3>2, <3>3, <3>4, <3>5, <3>6 DEF Listed
  <2>2. CASE delayed' = D \cup {c} /\ msg' = msg
    <3>1. \A m \in Msgs : ~Added(m)  BY <2>2 DEF Listed
    <3>2. IsDelayed(c.job)'  BY <2>2 DEF IsDelayed
    <3>3. QED  BY <1>0, <2>2, <3>1, <3>2 DEF TypeOK
  <2>3. QED  BY <2>1, <2>2
<1>4. TypeOK'
  <2>1. \A m \in Msgs : msg'[m].st # "free" => msg'[m].job \in Jobs
    <3>1. \A m \in Msgs : Listed(m) => msg[m].job \in Jobs  BY <1>0 DEF TypeOK, Listed
    <3>2. \A m \in Msgs : Listed(m)' => msg'[m].job \in Jobs  BY <1>1, <1>3, <3>1
    <3>3. QED  BY <3>2 DEF Listed
  <2>2. \A t \in Slots : slot'[t].ph # "idle" => slot'[t].job \in Jobs
    BY <1>0, <1>2 DEF TypeOK
  <2>3. delayed' \subseteq Copy /\ submitted' \subseteq Jobs
    BY <1>0, <1>1 DEF TypeOK
  <2>4. QED  BY <1>0, <1>1, <1>2, <1>3, <2>1, <2>2, <2>3 DEF TypeOK
<1>5. FiledInv'
  <2>1. \A m \in Msgs : Known(m) => msg'[m].st = "free" \/ (Listed(m) /\ msg'[m] = msg[m])
    BY <1>3 DEF Listed
  <2>2. \A x \in Procs, k \in Jobs :
          pending[x][k].m \in Msgs => \/ msg'[pending[x][k].m].st = "free"
                                      \/ msg'[pending[x][k].m].job = k
    BY <1>0, <2>1 DEF FiledInv, Known, Listed
  <2>3. \A t \in Slots :
          slot[t].entry \in Msgs => \/ msg'[slot[t].entry].st = "free"
                                    \/ msg'[slot[t].entry].job = slot[t].job
    BY <1>0, <2>1 DEF FiledInv, Known, Listed
  <2>4. \A t \in Slots :
          slot'[t].entry \in Msgs => \/ msg'[slot'[t].entry].st = "free"
                                     \/ msg'[slot'[t].entry].job = slot'[t].job
    BY <1>2, <2>3
  <2>5. QED  BY <1>1, <2>2, <2>4 DEF FiledInv
<1>6. OutcomeInv'  BY <1>0, <1>1, <1>2 DEF OutcomeInv
<1>7. NoneForgotten'
  <2>1. \A k \in Jobs : InStream(k) => InStream(k)'
    BY <1>3 DEF InStream, Listed
  <2>2. \A k \in Jobs : IsDelayed(k) => IsDelayed(k)' \/ k = c.job
    BY DEF IsDelayed
  <2>3. \A k \in Jobs : Returning(k) => Returning(k)' \/ k = c.job
    BY <1>2 DEF Returning
  <2>4. QED  BY <1>0, <1>1, <1>3, <2>1, <2>2, <2>3 DEF NoneForgotten, TypeOK
<1>8. ASSUME stale' = 0 PROVE HoldsInv' /\ OneRunInv' /\ OnePlaceInv' /\ BudgetInv'
  <2>0. /\ HoldsInv /\ OneRunInv /\ OnePlaceInv /\ BudgetInv
        /\ c.job \in submitted'
        /\ \A m \in Msgs : Listed(m) => msg[m].job # c.job
        /\ \A d \in D : d.job # c.job
        /\ \A t \in Slots \ S : Busy(t) => slot[t].job # c.job
        /\ Spent(c.job, c.att)
    BY <1>0, <1>1, <1>8 DEF AloneInv
  <2>1. \A t \in Slots : Busy(t)' => t \notin S /\ Busy(t) /\ slot'[t] = slot[t]
    BY <1>2 DEF Busy
  <2>2. OneRunInv'  BY <2>0, <2>1 DEF OneRunInv
  <2>3. \A t \in Slots : (Works(t) \/ Ends(t))' =>
          /\ slot'[t] = slot[t] /\ Works(t)' = Works(t)
          /\ Works(t) \/ Ends(t)
          /\ Mine(t)' = Mine(t) /\ Filed(t)' = Filed(t)
    BY <1>1, <1>2 DEF Works, Ends, Mine, Filed
  <2>4. \A t \in Slots : Works(t) \/ Ends(t) => Mine(t) \in Msgs /\ Listed(Mine(t))
    BY <2>0 DEF HoldsInv, Listed
  <2>5. HoldsInv'  BY <1>3, <2>0, <2>3, <2>4 DEF HoldsInv
  <2>6. \A m \in Msgs : Listed(m)' => Listed(m) \/ Added(m)
    OBVIOUS
  <2>7. OnePlaceInv'
    <3>1. \A t \in Slots : slot'[t].ph = "returning" =>
            slot'[t] = slot[t] /\ slot[t].job # c.job
      BY <1>2, <2>0 DEF Busy
    <3>2. \A m, n \in Msgs : Listed(m)' /\ Listed(n)' /\ msg'[m].job = msg'[n].job => m = n
      BY <1>3, <2>0, <2>6 DEF OnePlaceInv
    <3>3. \A x, y \in delayed' : x.job = y.job => x = y
      BY <1>1, <2>0 DEF OnePlaceInv
    <3>4. \A m \in Msgs : Listed(m)' =>
            /\ msg'[m].job \in submitted'
            /\ \A x \in delayed' : x.job # msg'[m].job
            /\ \A t \in Slots : slot'[t].ph = "returning" => slot'[t].job # msg'[m].job
      BY <1>1, <1>3, <2>0, <2>6, <3>1 DEF OnePlaceInv
    <3>5. \A x \in delayed' :
            /\ x.job \in submitted'
            /\ \A t \in Slots : slot'[t].ph = "returning" => slot'[t].job # x.job
      BY <1>1, <2>0, <3>1 DEF OnePlaceInv
    <3>6. \A t \in Slots : slot'[t].ph = "returning" => slot'[t].job \in submitted'
      BY <2>0, <3>1 DEF OnePlaceInv
    <3>7. QED  BY <3>2, <3>3, <3>4, <3>5, <3>6 DEF OnePlaceInv
  <2>8. BudgetInv'
    <3>1. /\ faults \in Nat /\ starts \in [Jobs -> Nat] /\ MaxRetry \in [Jobs -> Nat]
      BY <1>0, RedisAssumption DEF TypeOK
    <3>2. \A x \in delayed' : Spent(x.job, x.att)'
      BY <1>1, <2>0 DEF BudgetInv, Spent
    <3>3. \A m \in Msgs : Listed(m)' =>
            /\ msg'[m].att < MaxRetry[msg'[m].job]
            /\ starts'[msg'[m].job] <= msg'[m].att + faults' + 1
            /\ (\A t \in Slots : Busy(t)' => slot'[t].job # msg'[m].job)
                 => starts'[msg'[m].job] <= msg'[m].att + faults'
      <4>1. \A m \in Msgs : Added(m) =>
              /\ msg'[m].att < MaxRetry[msg'[m].job]
              /\ starts'[msg'[m].job] <= msg'[m].att + faults'
              /\ starts'[msg'[m].job] <= msg'[m].att + faults' + 1
        BY <1>1, <1>3, <2>0, <3>1 DEF Spent
      <4>2. \A m \in Msgs : Listed(m) /\ (\A t \in Slots : Busy(t)' => slot'[t].job # msg'[m].job)
              => (\A t \in Slots : Busy(t) => slot[t].job # msg[m].job)
        BY <1>2, <1>3, <2>0 DEF Busy
      <4>3. QED  BY <1>1, <1>3, <2>0, <2>6, <4>1, <4>2 DEF BudgetInv
    <3>4. \A t \in Slots :
            /\ slot'[t].ph = "claimed" => starts'[slot'[t].job] < slot'[t].att + faults'
            /\ slot'[t].ph = "failed" => slot'[t].att < MaxRetry[slot'[t].job]
            /\ slot'[t].ph \in {"nacking", "returning"} => Spent(slot[t].job, slot[t].att)'
      BY <1>1, <1>2, <2>0 DEF BudgetInv, Spent
    <3>5. \A t \in Slots : slot'[t].ph \in {"nacking", "returning"} => slot'[t] = slot[t]
      BY <1>2
    <3>6. \A k \in Jobs \ submitted' : starts'[k] = 0  BY <1>1, <2>0 DEF BudgetInv
    <3>7. QED  BY <3>2, <3>3, <3>4, <3>5, <3>6 DEF BudgetInv
  <2>9. QED  BY <2>2, <2>5, <2>7, <2>8
<1>9. QED  BY <1>4, <1>5, <1>6, <1>7, <1>8 DEF IInv, AloneInv

\* As long as no live worker's entry has gone idle, whoever is busy with a job
\* holds its entry or is about to put it back.
LEMMA BusyWhere ==
  ASSUME IInv, stale = 0, NEW t \in Slots, Busy(t)
  PROVE  /\ slot[t].job \in submitted
         /\ \/ slot[t].ph = "returning"
            \/ \E m \in Msgs : Delivered(m) /\ Listed(m) /\ msg[m].job = slot[t].job
<1>0. TypeOK /\ HoldsInv /\ OnePlaceInv  BY DEF IInv, AloneInv
<1>1. slot[t].ph = "returning" \/ Works(t) \/ Ends(t)
  BY <1>0 DEF TypeOK, Task, Busy, Works, Ends
<1>2. CASE slot[t].ph = "returning"  BY <1>0, <1>2 DEF OnePlaceInv
<1>3. CASE Works(t) \/ Ends(t)
  <2>1. /\ Mine(t) \in Msgs /\ Delivered(Mine(t)) /\ Listed(Mine(t))
        /\ msg[Mine(t)].job = slot[t].job
    BY <1>0, <1>3 DEF HoldsInv, Delivered, Listed
  <2>2. slot[t].job \in submitted  BY <1>0, <2>1 DEF OnePlaceInv
  <2>3. QED  BY <2>1, <2>2
<1>4. QED  BY <1>1, <1>2, <1>3

LEMMA SubmitSound ==
  ASSUME IInv, NEW j \in Jobs, Submit(j) PROVE IInv'
<1>0. TypeOK /\ AloneInv  BY DEF IInv
<1> DEFINE c == [job |-> j, att |-> 0, unh |-> 0]
<1>1. c \in Copy /\ c.job = j /\ c.att = 0  BY DEF Copy
<1>2. (delayed' = delayed /\ XAdd(c)) \/ (delayed' = delayed \cup {c} /\ msg' = msg)
  <2>1. Put([job |-> j, att |-> 0, unh |-> 0])  BY DEF Submit
  <2>2. QED  BY <2>1 DEF Put
<1> DEFINE S == {}
<1>3. /\ S \in SUBSET Slots
      /\ slot' = [t \in Slots |-> IF t \in S THEN Idle ELSE slot[t]]
      /\ \A t \in S : slot[t].ph = "returning" /\ slot[t].job = c.job
  BY <1>0 DEF Submit, TypeOK
<1>4. ASSUME stale = 0
      PROVE  /\ \A m \in Msgs : Listed(m) => msg[m].job # c.job
             /\ \A d \in delayed : d.job # c.job
             /\ \A t \in Slots \ S : Busy(t) => slot[t].job # c.job
             /\ Spent(c.job, c.att)
  <2>1. OnePlaceInv /\ BudgetInv /\ j \notin submitted
    BY <1>0, <1>4 DEF AloneInv, Submit
  <2>2. /\ \A m \in Msgs : Listed(m) => msg[m].job # c.job
        /\ \A d \in delayed : d.job # c.job
    BY <1>1, <2>1 DEF OnePlaceInv
  <2>3. \A t \in Slots : Busy(t) => slot[t].job # c.job
    BY <1>1, <1>4, <2>1, BusyWhere
  <2>4. Spent(c.job, c.att)
    BY <1>0, <1>1, <2>1, RedisAssumption DEF BudgetInv, Spent, TypeOK
  <2>5. QED  BY <2>2, <2>3, <2>4
<1>5. /\ UNCHANGED <<pending, faultVars, historyVars>>
      /\ submitted' = submitted \cup {c.job} /\ c.job \in submitted'
  BY <1>1 DEF Submit
<1> HIDE DEF c, S
<1>6. delayed \in SUBSET delayed /\ \A d \in delayed \ delayed : d.job = c.job
  OBVIOUS
<1>7. QED  BY <1>1, <1>2, <1>3, <1>4, <1>5, <1>6, Arrives

LEMMA PromoteSound ==
  ASSUME IInv, NEW c \in delayed, Promote(c) PROVE IInv'
<1>0. TypeOK /\ AloneInv  BY DEF IInv
<1> DEFINE D == delayed \ {c}
<1>1. c \in Copy /\ D \in SUBSET delayed /\ \A d \in delayed \ D : d.job = c.job  BY <1>0 DEF TypeOK
<1> DEFINE S == {}
<1>2. /\ S \in SUBSET Slots
      /\ slot' = [t \in Slots |-> IF t \in S THEN Idle ELSE slot[t]]
      /\ \A t \in S : slot[t].ph = "returning" /\ slot[t].job = c.job
  BY <1>0 DEF Promote, TypeOK
<1>3. ASSUME stale = 0
      PROVE  /\ \A m \in Msgs : Listed(m) => msg[m].job # c.job
             /\ \A d \in D : d.job # c.job
             /\ \A t \in Slots \ S : Busy(t) => slot[t].job # c.job
             /\ Spent(c.job, c.att)
             /\ c.job \in submitted
  <2>1. OnePlaceInv /\ BudgetInv  BY <1>0, <1>3 DEF AloneInv
  <2>2. /\ \A m \in Msgs : Listed(m) => msg[m].job # c.job
        /\ \A d \in D : d.job # c.job
    BY <2>1 DEF OnePlaceInv
  <2>3. \A t \in Slots : Busy(t) => slot[t].job # c.job
    BY <1>3, <2>1, <2>2, BusyWhere DEF OnePlaceInv
  <2>4. QED  BY <2>1, <2>2, <2>3 DEF BudgetInv, OnePlaceInv
<1>4. /\ UNCHANGED <<pending, faultVars, historyVars>>
      /\ submitted' = submitted /\ submitted' \in {submitted, submitted \cup {c.job}}
  BY DEF Promote
<1>5. (delayed' = D /\ XAdd(c)) \/ (delayed' = D \cup {c} /\ msg' = msg)
  BY DEF Promote
<1> HIDE DEF D, S
<1>6. QED  BY <1>1, <1>2, <1>3, <1>4, <1>5, Arrives

LEMMA EnqueueAgainSound ==
  ASSUME IInv, NEW s \in Slots, EnqueueAgain(s) PROVE IInv'
<1>0. TypeOK /\ AloneInv  BY DEF IInv
<1> DEFINE j == slot[s].job
<1> DEFINE c == Stored(j, slot[s].att, slot[s].unh)
<1>1. /\ j \in Jobs /\ slot[s] \in Task /\ slot[s].ph = "returning"
      /\ slot[s].att \in Nat /\ MaxRetry[j] \in Nat
  BY <1>0, RedisAssumption DEF EnqueueAgain, TypeOK, Task
<1>2. /\ c \in Copy /\ c.job = j
      /\ slot[s].att < MaxRetry[j] => c.att = slot[s].att
  BY <1>1 DEF Stored, Copy, Task
<1>3. (delayed' = delayed /\ XAdd(c)) \/ (delayed' = delayed \cup {c} /\ msg' = msg)
  <2>1. Put(c)  BY DEF EnqueueAgain
  <2>2. QED  BY <2>1 DEF Put
<1> DEFINE S == {s}
<1>4. /\ S \in SUBSET Slots
      /\ slot' = [t \in Slots |-> IF t \in S THEN Idle ELSE slot[t]]
      /\ \A t \in S : slot[t].ph = "returning" /\ slot[t].job = c.job
  BY <1>0, <1>1, <1>2 DEF EnqueueAgain, Release, TypeOK
<1>5. ASSUME stale = 0
      PROVE  /\ \A m \in Msgs : Listed(m) => msg[m].job # c.job
             /\ \A d \in delayed : d.job # c.job
             /\ \A t \in Slots \ S : Busy(t) => slot[t].job # c.job
             /\ Spent(c.job, c.att)
             /\ c.job \in submitted
  <2>1. OneRunInv /\ OnePlaceInv /\ BudgetInv  BY <1>0, <1>5 DEF AloneInv
  <2>2. /\ \A m \in Msgs : Listed(m) => msg[m].job # c.job
        /\ \A d \in delayed : d.job # c.job
        /\ c.job \in submitted
    BY <1>1, <1>2, <2>1 DEF OnePlaceInv
  <2>3. \A t \in Slots \ S : Busy(t) => slot[t].job # c.job
    BY <1>1, <1>2, <2>1 DEF OneRunInv, Busy
  <2>4. Spent(c.job, c.att)
    <3>1. Spent(j, slot[s].att)  BY <1>1, <2>1 DEF BudgetInv
    <3>2. c.att = slot[s].att  BY <1>2, <3>1 DEF Spent
    <3>3. QED  BY <1>2, <3>1, <3>2
  <2>5. QED  BY <2>2, <2>3, <2>4
<1>6. /\ UNCHANGED <<pending, faultVars, historyVars>>
      /\ submitted' = submitted /\ submitted' \in {submitted, submitted \cup {c.job}}
  BY DEF EnqueueAgain
<1> HIDE DEF c, S
<1>7. delayed \in SUBSET delayed /\ \A d \in delayed \ delayed : d.job = c.job
  OBVIOUS
<1>8. QED  BY <1>2, <1>3, <1>4, <1>5, <1>6, <1>7, Arrives

LEMMA InitInv == Init => IInv
<1> SUFFICES ASSUME Init PROVE IInv
  OBVIOUS
<1>1. /\ Blank \in Entry /\ Blank.st = "free"
      /\ Idle \in Task /\ Idle.ph = "idle" /\ Idle.entry = NoMsg
      /\ NoFilings \in [Jobs -> Filing] /\ \A j \in Jobs : NoFilings[j].m = NoMsg
      /\ NoMsg \notin Msgs
  BY RedisAssumption DEF Blank, Entry, Idle, Task, NoFilings, Nothing, Filing
<1>2. /\ \A m \in Msgs : msg[m] = Blank
      /\ \A s \in Slots : slot[s] = Idle
      /\ \A p \in Procs : pending[p] = NoFilings
  BY DEF Init
<1>3. TypeOK
  <2>1. /\ msg \in [Msgs -> Entry] /\ slot \in [Slots -> Task]
        /\ pending \in [Procs -> [Jobs -> Filing]]
        /\ starts \in [Jobs -> Nat]
    BY <1>1 DEF Init
  <2>2. faults \in 0 .. MaxFaults /\ stale \in 0 .. MaxStale
    BY RedisAssumption DEF Init
  <2>3. QED  BY <1>1, <1>2, <2>1, <2>2 DEF Init, TypeOK
<1>4. FiledInv /\ OutcomeInv  BY <1>1, <1>2 DEF FiledInv, OutcomeInv
<1>5. NoneForgotten  BY DEF Init, NoneForgotten
<1>6. HoldsInv /\ OneRunInv
  BY <1>1, <1>2 DEF HoldsInv, OneRunInv, Works, Ends, Busy
<1>7. OnePlaceInv /\ BudgetInv
  BY <1>1, <1>2 DEF Init, OnePlaceInv, BudgetInv, Listed
<1>8. QED  BY <1>3, <1>4, <1>5, <1>6, <1>7 DEF IInv, AloneInv

LEMMA StutterInv == IInv /\ UNCHANGED vars => IInv'
<1> SUFFICES ASSUME IInv, UNCHANGED vars PROVE IInv'
  OBVIOUS
<1>1. /\ msg' = msg /\ delayed' = delayed /\ pending' = pending /\ slot' = slot
      /\ faults' = faults /\ stale' = stale /\ submitted' = submitted
      /\ starts' = starts /\ settled' = settled /\ dropped' = dropped
  BY DEF vars
<1>2. TypeOK' /\ FiledInv' /\ OutcomeInv' /\ NoneForgotten'
  BY <1>1 DEF IInv, TypeOK, FiledInv, OutcomeInv, NoneForgotten, InStream, IsDelayed, Returning
<1>3. HoldsInv' = HoldsInv /\ OneRunInv' = OneRunInv /\ OnePlaceInv' = OnePlaceInv
  BY <1>1 DEF HoldsInv, OneRunInv, OnePlaceInv, Works, Ends, Busy, Filed, Mine, Listed
<1>4. BudgetInv' = BudgetInv
  BY <1>1 DEF BudgetInv, Spent, Busy, Listed
<1>5. QED  BY <1>1, <1>2, <1>3, <1>4 DEF IInv, AloneInv

LEMMA NextInv == IInv /\ [Next]_vars => IInv'
<1> SUFFICES ASSUME IInv, [Next]_vars PROVE IInv'
  OBVIOUS
<1>1. ASSUME NEW j \in Jobs, Submit(j) PROVE IInv'
  BY <1>1, SubmitSound
<1>2. ASSUME NEW c \in delayed, Promote(c) PROVE IInv'
  BY <1>2, PromoteSound
<1>3. ASSUME NEW m \in Msgs, MsgStep(m) PROVE IInv'
  BY <1>3, OrphanIdleSound, LiveIdleSound DEF MsgStep
<1>4. ASSUME NEW p \in Procs, ProcStep(p) PROVE IInv'
  BY <1>4, DequeueSound, DropUndecodableSound, DequeueLostSound, CrashSound DEF ProcStep
<1>5. ASSUME NEW s \in Slots, SlotStep(s) PROVE IInv'
  BY <1>5, StartHandlerSound, RenewSound, HandlerSucceedsSound, HandlerFailsSound,
     GiveUpUnhandledSound, SettleSound, NackSound, RequeueUnhandledSound,
     AckEntrySound, AckFirstSound, EnqueueAgainSound, CommandFailsSound DEF SlotStep
<1>6. CASE UNCHANGED vars  BY <1>6, StutterInv
<1>7. QED  BY <1>1, <1>2, <1>3, <1>4, <1>5, <1>6 DEF Next

\* The inductive invariant holds of every execution, with any number of jobs,
\* entries, processes and goroutines.
THEOREM Invariant == Spec => []IInv
<1>1. Init => IInv  BY InitInv
<1>2. IInv /\ [Next]_vars => IInv'  BY NextInv
<1>3. QED  BY <1>1, <1>2, PTL DEF Spec

\* No crash, lost reply, failed command, stale reclaim or mixed-up pending
\* entry makes the queue forget a job, except between the two commands of a
\* retry (queue.go:306-333) and for a job that does not decode (queue.go:279-282).
THEOREM NotForgotten == Spec => []NoneForgotten
<1>1. IInv => NoneForgotten  BY DEF IInv
<1>2. QED  BY <1>1, Invariant, PTL

\* Where a job can be that is not finished, and in whose hands.
Present(j) == InStream(j) \/ IsDelayed(j) \/ Returning(j) \/ j \in dropped
Held(j) == \E s \in Slots : Busy(s) /\ slot[s].job = j

LEMMA PresentIs ==
  ASSUME TypeOK, NEW j \in Jobs PROVE Waits(j) \/ IsOut(j) <=> Present(j)
<1>1. \A m \in Msgs : msg[m].st # "free" <=> Queued(m) \/ Delivered(m)
  BY DEF TypeOK, Entry, Queued, Delivered
<1>2. QED  BY <1>1 DEF Waits, IsOut, Present, InStream

LEMMA HeldIsPresent ==
  ASSUME IInv, stale = 0, NEW j \in Jobs, Held(j) PROVE Present(j)
<1>1. PICK s \in Slots : Busy(s) /\ slot[s].job = j  BY DEF Held
<1>2. QED  BY <1>1, BusyWhere DEF Present, InStream, Returning, Listed

\* A job appears in the stream, among the delayed, on its way back or among
\* the dropped only from one of these places, out of a goroutine's hands, or
\* submitted for the first time.
LEMMA MsgSource ==
  ASSUME IInv, NEW m \in Msgs, MsgStep(m), NEW j \in Jobs, Present(j)'
  PROVE  Present(j)
<1>1. /\ delayed' = delayed /\ slot' = slot /\ dropped' = dropped
      /\ msg[m].st = "pending" /\ msg' = [msg EXCEPT ![m] = [msg[m] EXCEPT !.st = "idle"]]
  BY DEF MsgStep, OrphanIdle, LiveIdle, GoesIdle, historyVars
<1>2. \A n \in Msgs : /\ msg'[n].job = msg[n].job
                      /\ msg'[n].st = "free" <=> msg[n].st = "free"
  BY <1>1 DEF IInv, TypeOK, Entry
<1>3. QED  BY <1>1, <1>2 DEF Present, InStream, IsDelayed, Returning

LEMMA ProcSource ==
  ASSUME IInv, NEW p \in Procs, ProcStep(p), NEW j \in Jobs, Present(j)'
  PROVE  Present(j)
<1>0. TypeOK  BY DEF IInv
<1>1. ASSUME NEW e \in Msgs, Dequeue(p, e) \/ DequeueLost(p, e) PROVE Present(j)
  <2>1. /\ delayed' = delayed /\ dropped' = dropped
        /\ Claimable(e) /\ msg' = [msg EXCEPT ![e] = [msg[e] EXCEPT !.st = "pending"]]
    BY <1>1 DEF Dequeue, DequeueLost, historyVars, Claimed
  <2>2. \A n \in Msgs : /\ msg'[n].job = msg[n].job
                        /\ msg'[n].st = "free" <=> msg[n].st = "free"
    BY <1>0, <2>1 DEF TypeOK, Entry, Claimable
  <2>3. \A s \in Slots : slot'[s].ph = "returning" => slot'[s] = slot[s]
    <3>1. CASE Dequeue(p, e)  BY <1>0, <3>1 DEF Dequeue, TypeOK
    <3>2. CASE DequeueLost(p, e)  BY <3>2 DEF DequeueLost
    <3>3. QED  BY <1>1, <3>1, <3>2
  <2>4. QED  BY <2>1, <2>2, <2>3 DEF Present, InStream, IsDelayed, Returning
<1>2. ASSUME NEW e \in Msgs, DropUndecodable(p, e) PROVE Present(j)
  <2>1. /\ delayed' = delayed /\ dropped' = dropped /\ slot' = slot
        /\ msg' = [msg EXCEPT ![e] = Blank] /\ Blank.st = "free"
    BY <1>2 DEF DropUndecodable, historyVars, Blank
  <2>2. \A n \in Msgs : msg'[n].st # "free" => msg'[n] = msg[n]
    BY <1>0, <2>1 DEF TypeOK
  <2>3. QED  BY <2>1, <2>2 DEF Present, InStream, IsDelayed, Returning
<1>3. CASE Crash(p)
  <2>1. /\ delayed' = delayed /\ msg' = msg
        /\ \A s \in Slots : slot'[s].ph = "returning" => slot'[s] = slot[s]
        /\ \A k \in dropped' : k \in dropped \/ Returning(k)
    BY <1>3 DEF Crash, redisVars, Idle, Returning
  <2>2. QED  BY <2>1 DEF Present, InStream, IsDelayed, Returning
<1>4. QED  BY <1>1, <1>2, <1>3 DEF ProcStep

LEMMA AddSource ==
  ASSUME IInv, NEW c, XAdd(c), NEW j \in Jobs, InStream(j)'
  PROVE  InStream(j) \/ j = c.job
<1>1. PICK e \in Unused : msg' = [msg EXCEPT ![e] =
               [st |-> "unread", job |-> c.job, att |-> c.att, unh |-> c.unh]]
  BY DEF XAdd
<1>2. \A n \in Msgs : msg'[n] = msg[n] \/ msg'[n].job = c.job
  BY <1>1 DEF IInv, TypeOK, Unused
<1>3. QED  BY <1>2 DEF InStream

LEMMA PutSource ==
  ASSUME IInv, NEW c, Put(c), NEW j \in Jobs, InStream(j)' \/ IsDelayed(j)'
  PROVE  InStream(j) \/ IsDelayed(j) \/ j = c.job
<1>1. CASE delayed' = delayed \cup {c} /\ msg' = msg
  BY <1>1 DEF InStream, IsDelayed
<1>2. CASE XAdd(c) /\ delayed' = delayed
  BY <1>2, AddSource DEF IsDelayed
<1>3. QED  BY <1>1, <1>2 DEF Put

LEMMA SlotSource ==
  ASSUME IInv, NEW s \in Slots, SlotStep(s), NEW j \in Jobs, Present(j)'
  PROVE  Present(j) \/ Held(j)
<1>0. TypeOK  BY DEF IInv
<1>1. CASE StartHandler(s) \/ HandlerSucceeds(s) \/ HandlerFails(s) \/ GiveUpUnhandled(s)
  <2>1. /\ delayed' = delayed /\ msg' = msg /\ dropped' = dropped
        /\ \E ph \in {"handling", "succeeded", "failed", "dying"} : Goto(s, ph)
    BY <1>1 DEF StartHandler, HandlerSucceeds, HandlerFails, GiveUpUnhandled, redisVars
  <2>2. \A t \in Slots : slot'[t].ph = "returning" => slot'[t] = slot[t]
    BY <1>0, <2>1 DEF Goto, TypeOK, Task
  <2>3. QED  BY <2>1, <2>2 DEF Present, InStream, IsDelayed, Returning
<1>2. CASE Renew(s)
  <2> DEFINE m == pending[ProcOf[s]][slot[s].job].m
  <2>1. /\ delayed' = delayed /\ slot' = slot /\ dropped' = dropped
        /\ msg[m].st = "idle" /\ msg' = [msg EXCEPT ![m] = [msg[m] EXCEPT !.st = "pending"]]
    BY <1>2 DEF Renew, historyVars, Claimed
  <2>2. \A n \in Msgs : /\ msg'[n].job = msg[n].job
                        /\ msg'[n].st = "free" <=> msg[n].st = "free"
    BY <1>0, <2>1 DEF TypeOK, Entry
  <2>3. QED  BY <2>1, <2>2 DEF Present, InStream, IsDelayed, Returning
<1>3. CASE Settle(s) \/ Nack(s) \/ RequeueUnhandled(s)
  <2>1. /\ delayed' = delayed /\ msg' = msg /\ dropped' = dropped
        /\ Busy(s)
        /\ \A t \in Slots : t # s => slot'[t] = slot[t]
        /\ slot'[s].ph # "idle" => slot'[s].job = slot[s].job
    <3>1. Idle.ph = "idle" /\ slot \in [Slots -> Task]  BY <1>0 DEF Idle, TypeOK
    <3>2. CASE Settle(s)
      BY <3>1, <3>2 DEF Settle, Release, redisVars, historyVars, Busy, Task
    <3>3. CASE Nack(s)
      BY <3>1, <3>3 DEF Nack, Release, redisVars, historyVars, Busy
    <3>4. CASE RequeueUnhandled(s)
      BY <3>1, <3>4 DEF RequeueUnhandled, redisVars, historyVars, Busy
    <3>5. QED  BY <1>3, <3>2, <3>3, <3>4
  <2>2. QED  BY <2>1 DEF Present, InStream, IsDelayed, Returning, Held
<1>4. CASE AckEntry(s) \/ AckFirst(s) \/ CommandFails(s)
  <2>1. /\ delayed' = delayed /\ Busy(s)
        /\ dropped' \subseteq dropped \cup {slot[s].job}
        /\ \A t \in Slots : t # s => slot'[t] = slot[t]
        /\ slot'[s].ph # "idle" => slot'[s].job = slot[s].job
    <3>1. Idle.ph = "idle" /\ slot \in [Slots -> Task]  BY <1>0 DEF Idle, TypeOK
    <3>2. CASE AckEntry(s)
      BY <3>1, <3>2 DEF AckEntry, Release, historyVars, Busy
    <3>3. CASE AckFirst(s)
      BY <3>1, <3>3 DEF AckFirst, historyVars, Busy, Task
    <3>4. CASE CommandFails(s)
      BY <3>1, <3>4 DEF CommandFails, Release, Busy
    <3>5. QED  BY <1>4, <3>2, <3>3, <3>4
  <2>2. \A n \in Msgs : msg'[n].st # "free" => msg'[n] = msg[n]
    <3>1. msg' = msg \/ XAck(slot[s].entry)
      BY <1>4 DEF AckEntry, AckFirst, CommandFails
    <3>2. Blank.st = "free"  BY DEF Blank
    <3>3. QED  BY <1>0, <3>1, <3>2 DEF XAck, TypeOK
  <2>3. QED  BY <2>1, <2>2 DEF Present, InStream, IsDelayed, Returning, Held
<1>5. CASE EnqueueAgain(s)
  <2> DEFINE c == Stored(slot[s].job, slot[s].att, slot[s].unh)
  <2>1. /\ Put(c) /\ c.job = slot[s].job /\ dropped' = dropped /\ Busy(s)
        /\ \A t \in Slots : slot'[t].ph = "returning" => slot'[t] = slot[t]
    BY <1>0, <1>5 DEF EnqueueAgain, Stored, historyVars, Release, Idle, Busy, TypeOK
  <2> HIDE DEF c
  <2>2. QED  BY <2>1, PutSource DEF Present, Returning, Held
<1>6. QED  BY <1>1, <1>2, <1>3, <1>4, <1>5 DEF SlotStep

LEMMA AddWaits ==
  ASSUME IInv, NEW c, Put(c) PROVE Waits(c.job)'
<1>1. CASE delayed' = delayed \cup {c}  BY <1>1 DEF Waits, IsDelayed
<1>2. CASE XAdd(c)
  <2>1. PICK e \in Unused : msg' = [msg EXCEPT ![e] =
                 [st |-> "unread", job |-> c.job, att |-> c.att, unh |-> c.unh]]
    BY <1>2 DEF XAdd
  <2>2. e \in Msgs /\ msg'[e].st = "unread" /\ msg'[e].job = c.job
    BY <2>1 DEF IInv, TypeOK, Unused
  <2>3. QED  BY <2>2 DEF Waits, Queued
<1>3. QED  BY <1>1, <1>2 DEF Put

LEMMA StaleGrows ==
  ASSUME IInv, Next, stale' = 0 PROVE stale = 0
<1>1. stale \in Nat  BY RedisAssumption DEF IInv, TypeOK
<1>2. ASSUME NEW m \in Msgs, MsgStep(m) PROVE stale' = stale \/ stale' = stale + 1
  BY <1>2 DEF MsgStep, OrphanIdle, LiveIdle, faultVars
<1>3. ASSUME NEW p \in Procs, ProcStep(p) PROVE stale' = stale
  BY <1>3 DEF ProcStep, Dequeue, DropUndecodable, DequeueLost, Crash, faultVars
<1>4. ASSUME NEW s \in Slots, SlotStep(s) PROVE stale' = stale
  BY <1>4 DEF SlotStep, StartHandler, Renew, HandlerSucceeds, HandlerFails, GiveUpUnhandled,
     Settle, Nack, RequeueUnhandled, AckEntry, AckFirst, EnqueueAgain, CommandFails, faultVars
<1>5. ASSUME NEW j \in Jobs, Submit(j) PROVE stale' = stale
  BY <1>5 DEF Submit, faultVars
<1>6. ASSUME NEW c \in delayed, Promote(c) PROVE stale' = stale
  BY <1>6 DEF Promote, faultVars
<1>7. QED  BY <1>1, <1>2, <1>3, <1>4, <1>5, <1>6 DEF Next

\* Who was not submitted waits when it is, and who finished stays away.
LEMMA Moves ==
  ASSUME IInv, IInv', Next, stale' = 0, NEW j \in Jobs
  PROVE  Life'[j] \in Lifecycle!After(Life[j])
<1>1. TypeOK /\ TypeOK' /\ stale = 0  BY StaleGrows DEF IInv
<1>2. /\ j \in submitted => j \in submitted'
      /\ j \in submitted' \ submitted => Waits(j)'
      /\ j \in submitted /\ Present(j)' => Present(j)
  <2>1. ASSUME NEW k \in Jobs, Submit(k)
        PROVE  /\ submitted' = submitted \cup {k} /\ k \notin submitted
               /\ Waits(k)' /\ (Present(j)' => Present(j) \/ j = k)
    <3> DEFINE c == [job |-> k, att |-> 0, unh |-> 0]
    <3>1. Put(c) /\ c.job = k  BY <2>1 DEF Submit
    <3>2. /\ submitted' = submitted \cup {k} /\ k \notin submitted
          /\ slot' = slot /\ dropped' = dropped
      BY <2>1 DEF Submit, historyVars
    <3> HIDE DEF c
    <3>3. Waits(c.job)'  BY <3>1, AddWaits
    <3>4. InStream(j)' \/ IsDelayed(j)' => InStream(j) \/ IsDelayed(j) \/ j = c.job
      BY <3>1, PutSource
    <3>5. Waits(k)'  BY <3>1, <3>3
    <3>6. QED  BY <3>1, <3>2, <3>4, <3>5 DEF Present, Returning
  <2>2. ASSUME NEW c \in delayed, Promote(c)
        PROVE  submitted' = submitted /\ (Present(j)' => Present(j))
    <3>1. /\ XAdd(c) /\ delayed' = delayed \ {c} /\ submitted' = submitted
          /\ slot' = slot /\ dropped' = dropped
      BY <2>2 DEF Promote, historyVars
    <3>2. InStream(j)' => InStream(j) \/ j = c.job  BY <3>1, AddSource
    <3>3. QED  BY <3>1, <3>2 DEF Present, IsDelayed, Returning
  <2>3. ASSUME NEW m \in Msgs, MsgStep(m)
        PROVE  submitted' = submitted /\ (Present(j)' => Present(j))
    BY <2>3, MsgSource DEF MsgStep, OrphanIdle, LiveIdle
  <2>4. ASSUME NEW p \in Procs, ProcStep(p)
        PROVE  submitted' = submitted /\ (Present(j)' => Present(j))
    BY <2>4, ProcSource DEF ProcStep, Dequeue, DropUndecodable, DequeueLost, Crash
  <2>5. ASSUME NEW s \in Slots, SlotStep(s)
        PROVE  submitted' = submitted /\ (Present(j)' => Present(j))
    <3>1. submitted' = submitted
      BY <2>5 DEF SlotStep, StartHandler, Renew, HandlerSucceeds, HandlerFails, GiveUpUnhandled,
         Settle, Nack, RequeueUnhandled, AckEntry, AckFirst, EnqueueAgain, CommandFails
    <3>2. QED  BY <1>1, <2>5, <3>1, SlotSource, HeldIsPresent
  <2>6. QED  BY <2>1, <2>2, <2>3, <2>4, <2>5 DEF Next
<1>3. Waits(j) \/ IsOut(j) <=> Present(j)  BY <1>1, PresentIs
<1>4. (Waits(j) \/ IsOut(j) <=> Present(j))'
  <2>1. \A m \in Msgs : msg'[m].st # "free" <=> Queued(m)' \/ Delivered(m)'
    BY <1>1 DEF TypeOK, Entry, Queued, Delivered
  <2>2. QED  BY <2>1 DEF Waits, IsOut, Present, InStream
<1>5. /\ Life[j] = IF j \notin submitted THEN "absent" ELSE IF Waits(j) THEN "waiting"
                   ELSE IF IsOut(j) THEN "active" ELSE "finished"
      /\ Life'[j] = IF j \notin submitted' THEN "absent" ELSE IF Waits(j)' THEN "waiting"
                    ELSE IF IsOut(j)' THEN "active" ELSE "finished"
  BY DEF Life
<1>6. QED  BY <1>2, <1>3, <1>4, <1>5 DEF Lifecycle!After

LEMMA StartIsStart ==
  ASSUME IInv, stale = 0, NEW s \in Slots, StartHandler(s)
  PROVE  Lifecycle!Start(slot[s].job) /\ slot[s].job \in Jobs
<1> DEFINE j == slot[s].job
<1>1. TypeOK /\ HoldsInv /\ OnePlaceInv /\ BudgetInv  BY DEF IInv, AloneInv
<1>2. j \in Jobs /\ slot[s].ph = "claimed" /\ Works(s)
  BY <1>1 DEF StartHandler, TypeOK, Works
<1>3. PICK m \in Msgs : /\ msg[m].st = "pending" /\ msg[m].job = j
                        /\ slot[s].att = msg[m].att + 1
  BY <1>1, <1>2 DEF HoldsInv
<1>4. Life[j] = "active"
  <2>1. j \in submitted  BY <1>1, <1>3 DEF OnePlaceInv, Listed
  <2>2. IsOut(j)  BY <1>3 DEF IsOut, Delivered
  <2>3. ~Waits(j)
    BY <1>1, <1>3 DEF OnePlaceInv, Listed, Waits, IsDelayed, Queued
  <2>4. QED  BY <1>2, <2>1, <2>2, <2>3 DEF Life
<1>5. starts[j] < MaxStarts(j)
  <2>1. starts[j] < slot[s].att + faults /\ msg[m].att < MaxRetry[j]
    BY <1>1, <1>2, <1>3 DEF BudgetInv, Listed
  <2>2. /\ starts[j] \in Nat /\ slot[s].att \in Nat /\ msg[m].att \in Nat
        /\ faults \in 0 .. MaxFaults /\ MaxRetry[j] \in Nat /\ MaxFaults \in Nat
    BY <1>1, <1>2, RedisAssumption DEF TypeOK, Task, Entry
  <2>3. QED  BY <1>3, <2>1, <2>2 DEF MaxStarts
<1>6. starts' = [starts EXCEPT ![j] = starts[j] + 1]
  <2>1. starts[j] \in Nat /\ MaxStarts(j) \in Nat
    BY <1>1, <1>2, RedisAssumption DEF TypeOK, MaxStarts
  <2>2. ~(starts[j] > MaxStarts(j))  BY <1>5, <2>1
  <2>3. QED  BY <2>2 DEF StartHandler
<1>7. Life' = Life
  <2>1. /\ msg' = msg /\ delayed' = delayed /\ submitted' = submitted /\ dropped' = dropped
    BY DEF StartHandler, redisVars
  <2>2. \A k \in Jobs : Returning(k)' = Returning(k)
    BY <1>1, <1>2 DEF StartHandler, Goto, Returning, TypeOK, Task
  <2>3. \A k \in Jobs : /\ Waits(k)' = Waits(k) /\ IsOut(k)' = IsOut(k)
    BY <2>1, <2>2 DEF Waits, IsOut, IsDelayed, Queued, Delivered
  <2>4. QED  BY <2>1, <2>3 DEF Life
<1>8. QED  BY <1>2, <1>4, <1>5, <1>6, <1>7 DEF Lifecycle!Start

\* Only StartHandler counts a start.
LEMMA OnlyStarts ==
  ASSUME Next, \A s \in Slots : ~StartHandler(s) PROVE starts' = starts
<1>1. ASSUME NEW s \in Slots, SlotStep(s) PROVE starts' = starts
  BY <1>1 DEF SlotStep, Renew, HandlerSucceeds, HandlerFails, GiveUpUnhandled, Settle, Nack,
     RequeueUnhandled, AckEntry, AckFirst, EnqueueAgain, CommandFails, historyVars
<1>2. ASSUME NEW p \in Procs, ProcStep(p) PROVE starts' = starts
  BY <1>2 DEF ProcStep, Dequeue, DropUndecodable, DequeueLost, Crash, historyVars
<1>3. ASSUME NEW m \in Msgs, MsgStep(m) PROVE starts' = starts
  BY <1>3 DEF MsgStep, OrphanIdle, LiveIdle, historyVars
<1>4. ASSUME NEW j \in Jobs, Submit(j) PROVE starts' = starts
  BY <1>4 DEF Submit, historyVars
<1>5. ASSUME NEW c \in delayed, Promote(c) PROVE starts' = starts
  BY <1>5 DEF Promote, historyVars
<1>6. QED  BY <1>1, <1>2, <1>3, <1>4, <1>5 DEF Next

\* As long as no entry of a live worker was reclaimed (queue.go:97-99), the
\* queue and its workers do what the jobs package promises, through crashes
\* and failed commands: a job runs once at a time, no oftener than its attempts
\* and the faults allow, and never again once it finished.
THEOREM Refinement == Spec => ImplementsLifecycle
<1>1. Init => Lifecycle!Init
  BY DEF Init, Lifecycle!Init, Life
<1>2. ASSUME IInv, IInv', [Next]_vars, stale' = 0
      PROVE  Lifecycle!Next \/ UNCHANGED <<Life, starts>>
  <2>1. CASE UNCHANGED vars
    <3>1. /\ msg' = msg /\ delayed' = delayed /\ slot' = slot /\ submitted' = submitted
          /\ starts' = starts /\ dropped' = dropped
      BY <2>1 DEF vars
    <3>2. \A k \in Jobs : /\ Waits(k)' = Waits(k) /\ IsOut(k)' = IsOut(k)
      BY <3>1 DEF Waits, IsOut, IsDelayed, Queued, Delivered, Returning
    <3>3. QED  BY <3>1, <3>2 DEF Life
  <2>2. ASSUME NEW s \in Slots, StartHandler(s), Next PROVE Lifecycle!Next
    BY <1>2, <2>2, StaleGrows, StartIsStart DEF Lifecycle!Next
  <2>3. CASE Next /\ \A s \in Slots : ~StartHandler(s)
    <3>1. \A j \in Jobs : Life'[j] \in Lifecycle!After(Life[j])  BY <1>2, <2>3, Moves
    <3>2. Lifecycle!Exclusive'  BY DEF Lifecycle!Exclusive
    <3>3. starts' = starts  BY <2>3, OnlyStarts
    <3>4. QED  BY <3>1, <3>2, <3>3 DEF Lifecycle!Next, Lifecycle!Move
  <2>4. QED  BY <1>2, <2>1, <2>2, <2>3
<1>3. IInv /\ IInv' /\ [Next]_vars
        => [stale' = 0 => Lifecycle!Next \/ UNCHANGED <<Life, starts>>]_vars
  BY <1>2
<1>4. QED  BY <1>1, <1>3, Invariant, PTL DEF Spec, ImplementsLifecycle

=============================================================================
