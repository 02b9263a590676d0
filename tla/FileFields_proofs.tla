------------------------- MODULE FileFields_proofs -------------------------
(***************************************************************************)
(* The inductive invariant of FileFields, for any records, requests and    *)
(* keys, and from it that no record names an object that is gone, and that *)
(* no object stays that nothing accounts for.                              *)
(*                                                                         *)
(* Nothing a request has done is taken back (Onward), so that what is      *)
(* re-used or taken off stays so (Monotone).  A step that writes no record *)
(* (Quiet) leaves the keys where they are; a write (Lands) is of keys that *)
(* the request brought, named loosely, or holds the record's version of.   *)
(***************************************************************************)
EXTENDS FileFields, TLAPS

\* What a request was sent with.
SameAsk(r) == /\ req'[r].ask = req[r].ask /\ req'[r].want = req[r].want
              /\ req'[r].etag = req[r].etag /\ req'[r].loose = req[r].loose
Alone(r) == \A s \in Requests \ {r} : req'[s] = req[s]

\* No step takes back what a request has done.
Onward(r) == /\ Sent(r) => req'[r].ph # "idle" /\ SameAsk(r)
             /\ req[r].wrote => req'[r].wrote
             /\ req[r].swept => req'[r].swept
             /\ req[r].wrote \/ req[r].swept => req'[r].old = req[r].old
             /\ req[r].ph \in {"done", "failed"} => req'[r] = req[r]

LEMMA Monotone ==
  ASSUME \A r \in Requests : PathInv(r) /\ Onward(r)
  PROVE  /\ \A k, x : Of(k, x) => Of(k, x)'
         /\ \A k : Reused(k) => Reused(k)'
         /\ \A k : Out(k) => Out(k)'
<1>1. \A r \in Requests : req[r].ph = "idle" => req[r].loose = {} /\ ~req[r].wrote /\ ~req[r].swept
  BY DEF PathInv, At
<1>2. \A k, x : Of(k, x) => Of(k, x)'
  BY DEF Of, Onward, SameAsk, Sent, Row
<1>3. \A k : Reused(k) => Reused(k)'
  BY <1>1 DEF Reused, Onward, SameAsk, Sent
<1>4. ASSUME NEW k, Out(k) PROVE Out(k)'
  <2>1. CASE Taken(k)
    <3>1. PICK r \in Requests : (req[r].wrote \/ req[r].swept) /\ k \in Dropped(r)
      BY <2>1 DEF Taken
    <3>2. Dropped(r)' = Dropped(r)
      BY <1>1, <3>1 DEF Dropped, Blind, Onward, SameAsk, Sent, Row, Ask
    <3> QED BY <3>1, <3>2 DEF Out, Taken, Onward
  <2>2. CASE Undone(k)
    BY <2>2 DEF Out, Undone, Onward, At
  <2>3. CASE Aborted(k)
    BY <2>3 DEF Out, Aborted, Onward, At, Ask
  <2> QED BY <1>4, <2>1, <2>2, <2>3 DEF Out
<1> QED BY <1>2, <1>3, <1>4

\* Objects go only once they are out, and what is newly held or wanted is stored or out.
LEMMA StoreKept ==
  ASSUME StoreInv, \A r \in Requests : PathInv(r) /\ Onward(r),
         \A k \in doomed' : k \in doomed \/ Out(k)',
         \A k \in stored : k \in stored' \/ Out(k)',
         \A x \in Rows : \A k \in row'[x].keys : k \in row[x].keys \/ k \in stored' \/ Out(k)',
         \A s \in Requests : \/ Supplied(s)'
                                \/ /\ req'[s].want = req[s].want
                                   /\ Brought(s)' => Brought(s) \/ Key[s] \in stored'
  PROVE  StoreInv'
<1>1. \A k : Out(k) => Out(k)'
  BY Monotone
<1>2. \A k \in doomed' : Out(k)'
  BY <1>1 DEF StoreInv
<1>3. \A x \in Rows : \A k \in row'[x].keys : k \in stored' \/ Out(k)'
  BY <1>1 DEF StoreInv
<1>4. ASSUME NEW s \in Requests PROVE Supplied(s)'
  <2>1. CASE Supplied(s)'
    BY <2>1
  <2>2. CASE req'[s].want = req[s].want /\ (Brought(s)' => Brought(s) \/ Key[s] \in stored')
    <3> SUFFICES ASSUME NEW k \in req'[s].want
                 PROVE  k \in stored' \/ Out(k)' \/ (k = Key[s] /\ ~Brought(s)')
      BY DEF Supplied
    <3>1. k \in stored \/ Out(k) \/ (k = Key[s] /\ ~Brought(s))
      BY <2>2 DEF StoreInv, Supplied
    <3> QED BY <1>1, <2>2, <3>1
  <2> QED BY <2>1, <2>2
<1> QED BY <1>2, <1>3, <1>4 DEF StoreInv

\* A request that no step of its own wrote for: it has read at most.
Kept(r) == /\ SameAsk(r) /\ req'[r].wrote = req[r].wrote
           /\ req'[r].ph = "idle" <=> req[r].ph = "idle"
           /\ req'[r].ph = "post" => req[r].ph = "post"
           /\ \/ req'[r].old = req[r].old
              \/ Sent(r) /\ ~req[r].wrote /\ req'[r].old = row[Row(r)].keys
Guards(r) == Holds(r) => /\ lock[Row(r)] = r
                         /\ Ask(r).match => req[r].etag = row[Row(r)].ver

\* Where no record is written, keys stay where they are.
LEMMA DataKept ==
  ASSUME TypeOK, HomeInv, \A s \in Requests : FreshInv(s) /\ ViewInv(s) /\ DropInv(s),
         row' = row, \A s \in Requests : Kept(s) /\ Guards(s)'
  PROVE  HomeInv' /\ \A s \in Requests : FreshInv(s)' /\ ViewInv(s)' /\ DropInv(s)'
<1>1. \A s \in Requests : Row(s) \in Rows
  BY DEF TypeOK, ReqType, AskType, Row
<1>2. \A k, x : Of(k, x)' <=> Of(k, x)
  BY DEF Of, Kept, SameAsk, Sent, Row
<1>3. \A k : Reused(k)' <=> Reused(k)
  BY DEF Reused, Kept, SameAsk
<1>4. HomeInv'
  <2>1. \A x \in Rows : \A k \in row'[x].keys : Of(k, x)' \/ Reused(k)'
    BY <1>2, <1>3 DEF HomeInv
  <2>2. ASSUME NEW s \in Requests, NEW k \in req'[s].old \cup req'[s].want, Sent(s)'
        PROVE  Of(k, Row(s))' \/ Reused(k)'
    <3>1. Sent(s) /\ Row(s)' = Row(s)
      BY <2>2 DEF Kept, SameAsk, Sent, Row
    <3>2. k \in req[s].old \cup req[s].want \/ k \in row[Row(s)].keys
      BY <2>2 DEF Kept, SameAsk
    <3>3. Of(k, Row(s)) \/ Reused(k)
      BY <1>1, <3>1, <3>2 DEF HomeInv
    <3> QED BY <1>2, <1>3, <3>1, <3>3 DEF Of, Row, Sent
  <2> QED BY <2>1, <2>2 DEF HomeInv
<1>5. ASSUME NEW s \in Requests PROVE FreshInv(s)'
  <2> SUFFICES ASSUME ~req'[s].wrote PROVE FreshInv(s)'
    BY DEF FreshInv
  <2>1. ~req[s].wrote /\ FreshInv(s)
    BY DEF Kept
  <2>2. At(s, "idle")' \/ At(s, "post")' \/ Uploads(Ask(s))' => ~Reused(Key[s])'
    <3>1. At(s, "idle")' \/ At(s, "post")' \/ Uploads(Ask(s))' => At(s, "idle") \/ At(s, "post") \/ Uploads(Ask(s))
      BY DEF Kept, SameAsk, At, Ask, Uploads
    <3> QED BY <1>3, <2>1, <3>1 DEF FreshInv
  <2>3. CASE Reused(Key[s])
    BY <1>3, <2>2, <2>3 DEF FreshInv
  <2>4. CASE ~Reused(Key[s])
    <3>1. /\ \A x \in Rows : Key[s] \notin row'[x].keys
          /\ \A t \in Requests : /\ Key[s] \notin req'[t].old
                                 /\ t # s => Key[s] \notin req'[t].want
      BY <1>1, <2>1, <2>4 DEF FreshInv, Kept, SameAsk
    <3> QED BY <2>2, <3>1 DEF FreshInv
  <2> QED BY <2>3, <2>4
<1>6. ASSUME NEW s \in Requests PROVE ViewInv(s)'
  <2>1. ViewInv(s) /\ Kept(s) /\ Guards(s)'
    OBVIOUS
  <2> QED BY <2>1 DEF ViewInv, Guards, Kept, SameAsk, Sent, Seen, Ask, Row
<1>7. ASSUME NEW s \in Requests PROVE DropInv(s)'
  <2>1. req[s].wrote => Dropped(s)' = Dropped(s)
    BY DEF Kept, SameAsk, Dropped, Blind, Ask, Row
  <2> QED BY <1>3, <2>1 DEF DropInv, Kept, SameAsk, Row
<1> QED BY <1>4, <1>5, <1>6, <1>7

\* A step of r that writes no record.
Quiet(r) ==
  /\ Alone(r) /\ SameAsk(r) /\ row' = row
  /\ req[r].ph \notin {"idle", "done", "failed"} /\ req'[r].ph \notin {"idle", "post"}
  /\ req'[r].wrote = req[r].wrote /\ (req[r].swept => req'[r].swept)
  /\ \/ req'[r].old = req[r].old
     \/ ~req[r].wrote /\ ~req[r].swept /\ req'[r].old = row[Row(r)].keys

LEMMA GoesQuiet ==
  ASSUME TypeOK, NEW r \in Requests, NEW p \in Phases \ {"idle", "post"}, Goes(r, p), row' = row,
         req[r].ph \notin {"idle", "done", "failed"}
  PROVE  /\ Quiet(r) /\ req'[r].ph = p /\ req'[r].old = req[r].old
         /\ req'[r].tracked = req[r].tracked /\ req'[r].swept = req[r].swept
         /\ req' \in [Requests -> ReqType]
<1>1. req' \in [Requests -> ReqType]
  BY DEF Goes, TypeOK, ReqType
<1>2. /\ Alone(r) /\ SameAsk(r) /\ req'[r].ph = p /\ req'[r].old = req[r].old /\ req'[r].wrote = req[r].wrote
      /\ req'[r].tracked = req[r].tracked /\ req'[r].swept = req[r].swept
  BY DEF Goes, Alone, SameAsk, TypeOK, ReqType
<1> QED BY <1>1, <1>2 DEF Quiet

LEMMA QuietSound ==
  ASSUME IInv, TypeOK', NEW r \in Requests, Quiet(r), PathInv(r)', Guards(r)',
         stored' = stored \/ stored' = stored \cup {Key[r]},
         \A k \in doomed' : k \in doomed \/ Out(k)',
         \A y \in Rows : lock[y] \notin {None, r} => lock'[y] = lock[y],
         Brought(r)' => Brought(r) \/ Key[r] \in stored'
  PROVE  IInv'
<1> USE DEF Quiet, Alone, SameAsk
<1>1. /\ TypeOK /\ HomeInv /\ StoreInv
      /\ \A s \in Requests : PathInv(s) /\ FreshInv(s) /\ ViewInv(s) /\ DropInv(s) /\ Row(s) \in Rows
  BY DEF IInv, TypeOK, ReqType, AskType, Row
<1>2. \A s \in Requests : Kept(s) /\ Onward(s)
  BY DEF Kept, Onward, Sent
<1>3. ASSUME NEW s \in Requests PROVE Guards(s)'
  <2>1. CASE s = r
    BY <2>1
  <2>2. CASE s # r
    <3>1. req'[s] = req[s] /\ s # None /\ Row(s) \in Rows /\ ViewInv(s)
      BY <1>1, <2>2, NoneAssumption
    <3>2. Holds(s) => Sent(s)
      BY DEF Holds, Sent, At
    <3> QED BY <2>2, <3>1, <3>2 DEF Guards, ViewInv, Holds, At, Ask, Row
  <2> QED BY <2>1, <2>2
<1>4. HomeInv' /\ \A s \in Requests : FreshInv(s)' /\ ViewInv(s)' /\ DropInv(s)'
  BY <1>1, <1>2, <1>3, DataKept
<1>5. ASSUME NEW s \in Requests PROVE PathInv(s)'
  <2>1. CASE s = r
    BY <2>1
  <2>2. CASE s # r
    <3>1. req'[s] = req[s] /\ Key[s] # Key[r]
      BY <2>2, KeysAssumption
    <3> QED BY <1>1, <3>1 DEF PathInv, At, Ask
  <2> QED BY <2>1, <2>2
<1>6. \A s \in Requests : req'[s].want = req[s].want /\ (Brought(s)' => Brought(s) \/ Key[s] \in stored')
  BY DEF Brought, At, Ask
<1>7. StoreInv'
  BY <1>1, <1>2, <1>6, StoreKept
<1> QED BY <1>4, <1>5, <1>7 DEF IInv

\* Posting an object ahead of the request that will name it.
LEMMA PostFileSound == ASSUME IInv, NEW r \in Requests, PostFile(r) PROVE IInv'
<1>1. /\ TypeOK /\ PathInv(r) /\ ViewInv(r) /\ Key[r] \in Keys /\ req[r].ph = "post" /\ Goes(r, First(Ask(r)))
      /\ stored' = stored \cup {Key[r]} /\ UNCHANGED <<row, doomed, lock, faults>>
  BY KeysAssumption DEF IInv, PostFile, At
<1>2. ~req[r].wrote /\ ~req[r].swept /\ Ask(r).how = "refer" /\ First(Ask(r)) = "stat"
      /\ "stat" \in Phases \ {"idle", "post"}
  BY <1>1 DEF PathInv, At, First, Uploads, Phases
<1>3. /\ Quiet(r) /\ req'[r].ph = "stat" /\ req'[r].tracked = req[r].tracked /\ req'[r].swept = req[r].swept
      /\ req' \in [Requests -> ReqType]
  BY <1>1, <1>2, GoesQuiet
<1>4. TypeOK' /\ PathInv(r)' /\ Guards(r)'
  BY <1>1, <1>2, <1>3 DEF TypeOK, PathInv, Guards, Holds, Quiet, SameAsk, At, Ask
<1> QED BY <1>1, <1>3, <1>4, QuietSound


\* A request that passes verifyFileKeys goes on to read, or to write a new record.
LEMMA StatSound == ASSUME IInv, NEW r \in Requests, Stat(r) PROVE IInv'
<1> DEFINE p == IF Ask(r).op = "create" THEN "write" ELSE "read"
<1>1. /\ TypeOK /\ PathInv(r) /\ req[r].ph = "stat" /\ Goes(r, p) /\ UNCHANGED <<row, stored, doomed, lock, faults>>
  BY DEF IInv, Stat, At
<1>2. ~req[r].wrote /\ ~req[r].swept /\ p \in {"write", "read"} /\ p \in Phases \ {"idle", "post"}
      /\ (p = "write" => ~Ask(r).match)
  BY <1>1 DEF PathInv, At, Phases
<1> HIDE DEF p
<1>3. /\ Quiet(r) /\ req'[r].ph = p /\ req'[r].tracked = req[r].tracked /\ req'[r].swept = req[r].swept
      /\ req' \in [Requests -> ReqType]
  BY <1>1, <1>2, GoesQuiet
<1>4. TypeOK' /\ PathInv(r)' /\ Guards(r)' /\ Brought(r)
  BY <1>1, <1>2, <1>3 DEF TypeOK, PathInv, Guards, Holds, Brought, Quiet, SameAsk, At, Ask
<1> QED BY <1>1, <1>3, <1>4, QuietSound

\* Reading the keys of a record that holds them.
LEMMA ReadOldSound == ASSUME IInv, NEW r \in Requests, ReadOld(r) PROVE IInv'
<1> DEFINE p == IF Uploads(Ask(r)) THEN "store" ELSE Db(Ask(r))
<1>1. /\ TypeOK /\ PathInv(r) /\ req[r].ph = "read" /\ UNCHANGED <<row, stored, doomed, lock, faults>>
      /\ req' = [req EXCEPT ![r] = [@ EXCEPT !.old = row[Row(r)].keys, !.ph = p]]
  BY DEF IInv, ReadOld, At
<1>2. /\ ~req[r].wrote /\ ~req[r].swept
      /\ p \in {"store", "match", "write"} /\ p \in Phases
      /\ (p = "store" <=> Uploads(Ask(r))) /\ (p = "write" => ~Ask(r).match)
      /\ row[Row(r)].keys \in SUBSET Keys
  BY <1>1 DEF PathInv, At, Phases, Db, TypeOK, ReqType, AskType, RowType, Row
<1> HIDE DEF p
<1>3. /\ Alone(r) /\ SameAsk(r) /\ req'[r].ph = p /\ req'[r].old = row[Row(r)].keys /\ req'[r].wrote = req[r].wrote
      /\ req'[r].tracked = req[r].tracked /\ req'[r].swept = req[r].swept
      /\ req' \in [Requests -> ReqType]
  BY <1>1, <1>2 DEF Alone, SameAsk, TypeOK, ReqType
<1>4. Quiet(r) /\ TypeOK'
  BY <1>1, <1>2, <1>3 DEF Quiet, TypeOK
<1>5. PathInv(r)' /\ Guards(r)' /\ (Brought(r)' => Brought(r))
  BY <1>1, <1>2, <1>3 DEF PathInv, Guards, Holds, Brought, SameAsk, At, Ask, Uploads
<1> QED BY <1>1, <1>3, <1>4, <1>5, QuietSound

LEMMA StoreSound == ASSUME IInv, NEW r \in Requests, Store(r) PROVE IInv'
<1> DEFINE p == Db(Ask(r))
<1>1. /\ TypeOK /\ PathInv(r) /\ Key[r] \in Keys /\ req[r].ph = "store" /\ UNCHANGED <<row, doomed, lock, faults>>
      /\ stored' = stored \cup {Key[r]}
      /\ req' = [req EXCEPT ![r] = [@ EXCEPT !.tracked = TRUE, !.ph = p]]
  BY KeysAssumption DEF IInv, Store, At
<1>2. /\ ~req[r].wrote /\ ~req[r].swept /\ Uploads(Ask(r))
      /\ p \in {"match", "write"} /\ p \in Phases /\ (p = "write" => ~Ask(r).match)
  BY <1>1 DEF PathInv, At, Phases, Db
<1> HIDE DEF p
<1>3. /\ Alone(r) /\ SameAsk(r) /\ req'[r].ph = p /\ req'[r].old = req[r].old /\ req'[r].wrote = req[r].wrote
      /\ req'[r].tracked = TRUE /\ req'[r].swept = req[r].swept
      /\ req' \in [Requests -> ReqType]
  BY <1>1, <1>2 DEF Alone, SameAsk, TypeOK, ReqType
<1>4. Quiet(r) /\ TypeOK'
  BY <1>1, <1>2, <1>3 DEF Quiet, TypeOK
<1>5. PathInv(r)' /\ Guards(r)'
  BY <1>1, <1>2, <1>3 DEF PathInv, Guards, Holds, SameAsk, At, Ask, Uploads
<1> QED BY <1>1, <1>3, <1>4, <1>5, QuietSound

\* What is about to be removed of a request that ends unwritten is what it stored.
LEMMA AbortedOut ==
  ASSUME NEW r \in Requests, SameAsk(r), Uploads(Ask(r)), ~req'[r].wrote, req'[r].ph \in {"done", "failed"}
  PROVE  Out(Key[r])'
BY DEF Out, Aborted, SameAsk, At, Ask, Uploads

LEMMA StreamBreaksSound == ASSUME IInv, NEW r \in Requests, StreamBreaks(r) PROVE IInv'
<1>1. /\ TypeOK /\ PathInv(r) /\ Key[r] \in Keys /\ req[r].ph = "store" /\ UNCHANGED <<row, lock, faults>>
      /\ stored' = stored \cup {Key[r]} /\ doomed' = doomed \cup {Key[r]} /\ Goes(r, "done")
  BY KeysAssumption DEF IInv, StreamBreaks, At
<1>2. ~req[r].wrote /\ ~req[r].swept /\ Uploads(Ask(r)) /\ "done" \in Phases \ {"idle", "post"}
  BY <1>1 DEF PathInv, At, Phases
<1>3. /\ Quiet(r) /\ req'[r].ph = "done" /\ req'[r].tracked = req[r].tracked /\ req'[r].swept = req[r].swept
      /\ req' \in [Requests -> ReqType]
  BY <1>1, <1>2, GoesQuiet
<1>4. TypeOK' /\ PathInv(r)' /\ Guards(r)'
  BY <1>1, <1>2, <1>3 DEF TypeOK, PathInv, Guards, Holds, Quiet, SameAsk, At, Ask
<1>5. Out(Key[r])'
  BY <1>2, <1>3, AbortedOut DEF Quiet
<1> QED BY <1>1, <1>3, <1>4, <1>5, QuietSound

\* The record is locked at the version that the client saw.
LEMMA MatchSound == ASSUME IInv, NEW r \in Requests, Match(r) PROVE IInv'
<1>1. /\ TypeOK /\ PathInv(r) /\ req[r].ph = "match" /\ Goes(r, "write") /\ UNCHANGED <<row, stored, doomed, faults>>
      /\ lock[Row(r)] \in {None, r} /\ lock' = [lock EXCEPT ![Row(r)] = r] /\ row[Row(r)].ver = req[r].etag
      /\ Row(r) \in Rows
  BY DEF IInv, Match, At, Free, TypeOK, ReqType, AskType, Row
<1>2. ~req[r].wrote /\ ~req[r].swept /\ "write" \in Phases \ {"idle", "post"}
  BY <1>1 DEF PathInv, At, Phases
<1>3. /\ Quiet(r) /\ req'[r].ph = "write" /\ req'[r].tracked = req[r].tracked /\ req'[r].swept = req[r].swept
      /\ req' \in [Requests -> ReqType]
  BY <1>1, <1>2, GoesQuiet
<1>4. lock'[Row(r)] = r /\ (\A y \in Rows : lock[y] \notin {None, r} => lock'[y] = lock[y])
      /\ lock' \in [Rows -> Requests \cup {None}]
  BY <1>1 DEF TypeOK
<1>5. TypeOK' /\ PathInv(r)' /\ Guards(r)' /\ Brought(r)
  BY <1>1, <1>2, <1>3, <1>4 DEF TypeOK, PathInv, Guards, Brought, Holds, Quiet, SameAsk, At, Ask, Row
<1> QED BY <1>1, <1>3, <1>4, <1>5, QuietSound

LEMMA WriteInTxSound == ASSUME IInv, NEW r \in Requests, WriteInTx(r) PROVE IInv'
<1> DEFINE p == IF Ask(r).tx THEN "after" ELSE "commit"
<1>1. /\ TypeOK /\ PathInv(r) /\ ViewInv(r) /\ req[r].ph = "write" /\ Goes(r, p) /\ UNCHANGED <<row, stored, doomed, faults>>
      /\ lock[Row(r)] \in {None, r} /\ lock' = [lock EXCEPT ![Row(r)] = r] /\ InTx(Ask(r)) /\ Row(r) \in Rows
  BY DEF IInv, WriteInTx, At, Free, TypeOK, ReqType, AskType, Row
<1>2. /\ ~req[r].wrote /\ ~req[r].swept /\ p \in {"after", "commit"} /\ p \in Phases \ {"idle", "post"}
      /\ (p = "after" => Ask(r).tx)
  BY <1>1 DEF PathInv, At, Phases
<1> HIDE DEF p
<1>3. /\ Quiet(r) /\ req'[r].ph = p /\ req'[r].tracked = req[r].tracked /\ req'[r].swept = req[r].swept
      /\ req' \in [Requests -> ReqType]
  BY <1>1, <1>2, GoesQuiet
<1>4. lock'[Row(r)] = r /\ (\A y \in Rows : lock[y] \notin {None, r} => lock'[y] = lock[y])
      /\ lock' \in [Rows -> Requests \cup {None}]
  BY <1>1 DEF TypeOK
<1>5. TypeOK' /\ PathInv(r)' /\ Guards(r)' /\ Brought(r)
  BY <1>1, <1>2, <1>3, <1>4 DEF TypeOK, PathInv, ViewInv, Sent, Guards, Brought, Holds, Quiet, SameAsk, At, Ask, Row, InTx
<1> QED BY <1>1, <1>3, <1>4, <1>5, QuietSound

\* A delete has the keys of its record removed: they are taken from now on.
LEMMA AfterDBSound == ASSUME IInv, NEW r \in Requests, AfterDB(r) PROVE IInv'
<1> DEFINE p == After(Ask(r))
           d == Ask(r).op = "delete"
<1>1. /\ TypeOK /\ PathInv(r) /\ ViewInv(r) /\ req[r].ph = "after" /\ UNCHANGED <<row, stored, lock, faults>>
      /\ doomed' = IF d THEN doomed \cup Dropped(r) ELSE doomed
      /\ IF d THEN req' = [req EXCEPT ![r] = [@ EXCEPT !.swept = TRUE, !.ph = p]] ELSE Goes(r, p)
  BY DEF IInv, AfterDB, At
<1>2. /\ ~req[r].swept /\ (req[r].wrote <=> ~Ask(r).tx)
      /\ p = (IF Ask(r).tx THEN "commit" ELSE "respond") /\ p \in Phases /\ Ask(r).tx \in BOOLEAN
      /\ d \in BOOLEAN /\ Dropped(r) \subseteq Keys
  BY <1>1 DEF PathInv, At, Phases, After, TypeOK, ReqType, AskType, Ask, Dropped
<1> HIDE DEF p
<1>3. /\ Alone(r) /\ SameAsk(r) /\ req'[r].ph = p /\ req'[r].old = req[r].old /\ req'[r].wrote = req[r].wrote
      /\ req'[r].tracked = req[r].tracked /\ (req'[r].swept <=> d)
      /\ req' \in [Requests -> ReqType]
  <2>1. CASE d
    <3>1. req' = [req EXCEPT ![r] = [@ EXCEPT !.swept = TRUE, !.ph = p]]
      BY <1>1, <2>1
    <3>2. /\ Alone(r) /\ SameAsk(r) /\ req'[r].ph = p /\ req'[r].old = req[r].old /\ req'[r].wrote = req[r].wrote
          /\ req'[r].tracked = req[r].tracked /\ req'[r].swept = TRUE /\ req' \in [Requests -> ReqType]
      <4>1. TypeOK /\ p \in Phases
        BY <1>1, <1>2
      <4> QED BY <3>1, <4>1 DEF Alone, SameAsk, TypeOK, ReqType
    <3> QED BY <2>1, <3>2
  <2>2. CASE ~d
    <3>1. Goes(r, p) /\ p \in Phases \ {"idle", "post"}
      BY <1>1, <1>2, <2>2
    <3> QED BY <1>1, <1>2, <2>2, <3>1, GoesQuiet DEF Quiet
  <2> QED BY <2>1, <2>2
<1>4. Quiet(r) /\ TypeOK'
  BY <1>1, <1>2, <1>3 DEF Quiet, TypeOK
<1>5. PathInv(r)' /\ Guards(r)' /\ (Brought(r)' => Brought(r))
  BY <1>1, <1>2, <1>3 DEF PathInv, ViewInv, Sent, Guards, Holds, Brought, SameAsk, At, Ask, Row, Uploads, InTx
<1>6. \A k \in doomed' : k \in doomed \/ Out(k)'
  <2>1. Dropped(r)' = Dropped(r)
    BY <1>3 DEF Dropped, Blind, SameAsk, Row, Ask
  <2> QED BY <1>1, <1>3, <2>1 DEF Out, Taken
<1> QED BY <1>1, <1>3, <1>4, <1>5, <1>6, QuietSound

LEMMA RespondSound == ASSUME IInv, NEW r \in Requests, Respond(r) PROVE IInv'
<1>1. /\ TypeOK /\ PathInv(r) /\ req[r].ph = "respond" /\ Goes(r, "done") /\ UNCHANGED <<row, stored, lock, faults>>
      /\ doomed' = doomed \cup (IF Ask(r).op = "update" THEN Dropped(r) ELSE {})
  BY DEF IInv, Respond, At
<1>2. req[r].wrote /\ "done" \in Phases \ {"idle", "post"} /\ Dropped(r) \subseteq Keys
  BY <1>1 DEF PathInv, At, Phases, TypeOK, ReqType, Dropped
<1>3. /\ Quiet(r) /\ req'[r].ph = "done" /\ req'[r].old = req[r].old /\ req'[r].tracked = req[r].tracked
      /\ req'[r].swept = req[r].swept /\ req' \in [Requests -> ReqType]
  BY <1>1, <1>2, GoesQuiet
<1>4. TypeOK' /\ PathInv(r)' /\ Guards(r)' /\ Brought(r)
  BY <1>1, <1>2, <1>3 DEF TypeOK, PathInv, Guards, Holds, Brought, Quiet, SameAsk, At, Ask
<1>5. \A k \in doomed' : k \in doomed \/ Out(k)'
  <2>1. Dropped(r)' = Dropped(r) /\ req'[r].wrote
    BY <1>2, <1>3 DEF Dropped, Blind, Quiet, SameAsk, Row, Ask
  <2> QED BY <1>1, <2>1 DEF Out, Taken
<1> QED BY <1>1, <1>3, <1>4, <1>5, QuietSound

\* A request that ends lets go of its lock.
LEMMA Unlocks ==
  ASSUME TypeOK, NEW r \in Requests, lock' = Unlocked(r)
  PROVE  /\ lock' \in [Rows -> Requests \cup {None}]
         /\ \A y \in Rows : lock[y] \notin {None, r} => lock'[y] = lock[y]
BY DEF TypeOK, Unlocked

\* A request that fails removes the object that it stored.
LEMMA FailedSound ==
  ASSUME IInv, NEW r \in Requests, NEW p \in {"done", "failed"}, Goes(r, p), lock' = Unlocked(r),
         doomed' = doomed \cup Cleanup(r), UNCHANGED <<row, stored>>, faults' \in [Kinds -> Nat],
         req[r].ph \in {"post", "stat", "read", "store", "match", "write", "after", "commit"},
         p = "done" => ~req[r].wrote
  PROVE  IInv'
<1>1. /\ TypeOK /\ PathInv(r) /\ p \in Phases \ {"idle", "post"} /\ Key[r] \in Keys
      /\ (req[r].swept => req[r].ph = "commit")
  BY KeysAssumption DEF IInv, PathInv, At, Phases
<1>2. /\ Quiet(r) /\ req'[r].ph = p /\ req'[r].tracked = req[r].tracked /\ req'[r].swept = req[r].swept
      /\ req' \in [Requests -> ReqType]
  BY <1>1, GoesQuiet
<1>3. TypeOK' /\ PathInv(r)' /\ Guards(r)'
  BY <1>1, <1>2, Unlocks DEF TypeOK, Cleanup, PathInv, Guards, Holds, Quiet, SameAsk, At, Ask
<1>4. Brought(r)' => Brought(r)
  BY <1>2 DEF Brought, Quiet, At
<1>5. req[r].tracked => Out(Key[r])'
  <2>1. req[r].tracked => Uploads(Ask(r))
    BY <1>1 DEF PathInv
  <2>2. CASE ~req[r].wrote
    BY <1>2, <2>1, <2>2, AbortedOut DEF Quiet
  <2>3. CASE req[r].wrote
    BY <1>2, <2>3 DEF Out, Undone, Quiet, At
  <2> QED BY <2>2, <2>3
<1>6. \A k \in doomed' : k \in doomed \/ Out(k)'
  BY <1>5 DEF Cleanup
<1> QED BY <1>1, <1>2, <1>3, <1>4, <1>6, Unlocks, QuietSound

LEMMA FaultTypes == ASSUME TypeOK, NEW k \in Kinds, Fault(k) PROVE faults' \in [Kinds -> Nat] /\ faults'[k] # 0
BY DEF TypeOK, Fault

LEMMA RefuseSound == ASSUME IInv, NEW r \in Requests, Refuse(r) PROVE IInv'
<1>1. /\ TypeOK /\ PathInv(r) /\ req[r].ph \in {"post", "stat", "read", "store", "match", "write"}
      /\ Goes(r, "done") /\ lock' = Unlocked(r) /\ doomed' = doomed \cup Cleanup(r) /\ UNCHANGED <<row, stored, faults>>
  BY DEF IInv, Refuse
<1>2. ~req[r].wrote /\ faults' \in [Kinds -> Nat]
  BY <1>1 DEF PathInv, At, TypeOK
<1> QED BY <1>1, <1>2, FailedSound

LEMMA CommitLostSound == ASSUME IInv, NEW r \in Requests, CommitLost(r) PROVE IInv'
<1>1. /\ TypeOK /\ PathInv(r) /\ req[r].ph = "commit" /\ Fault("commit") /\ "commit" \in Kinds
      /\ Goes(r, "done") /\ lock' = Unlocked(r) /\ doomed' = doomed \cup Cleanup(r) /\ UNCHANGED <<row, stored>>
  BY DEF IInv, CommitLost, At, Kinds
<1>2. ~req[r].wrote /\ faults' \in [Kinds -> Nat]
  BY <1>1, FaultTypes DEF PathInv, At
<1> QED BY <1>1, <1>2, FailedSound

LEMMA FailsLateSound == ASSUME IInv, NEW r \in Requests, FailsLate(r) PROVE IInv'
<1>1. /\ TypeOK /\ req[r].ph = "after" /\ Fault("late") /\ "late" \in Kinds
      /\ Goes(r, "failed") /\ lock' = Unlocked(r) /\ doomed' = doomed \cup Cleanup(r) /\ UNCHANGED <<row, stored>>
  BY DEF IInv, FailsLate, At, Kinds
<1>2. faults' \in [Kinds -> Nat]
  BY <1>1, FaultTypes
<1> QED BY <1>1, <1>2, FailedSound

LEMMA PanicSound == ASSUME IInv, NEW r \in Requests, Panic(r) PROVE IInv'
<1>1. /\ TypeOK /\ PathInv(r) /\ Fault("panic") /\ "panic" \in Kinds /\ Goes(r, "gone") /\ "gone" \in Phases \ {"idle", "post"}
      /\ req[r].ph \notin {"idle", "post", "done", "failed", "gone"}
      /\ lock' = Unlocked(r) /\ UNCHANGED <<row, stored, doomed>>
  BY DEF IInv, Panic, Kinds, Phases
<1>2. /\ Quiet(r) /\ req'[r].ph = "gone" /\ req'[r].tracked = req[r].tracked /\ req'[r].swept = req[r].swept
      /\ req' \in [Requests -> ReqType]
  BY <1>1, GoesQuiet
<1>3. faults' \in [Kinds -> Nat]
  BY <1>1, FaultTypes
<1>4. TypeOK' /\ PathInv(r)' /\ Guards(r)' /\ (Brought(r)' => Brought(r))
  BY <1>1, <1>2, <1>3, Unlocks DEF TypeOK, PathInv, Guards, Holds, Brought, Quiet, SameAsk, At, Ask
<1> QED BY <1>1, <1>2, <1>4, Unlocks, QuietSound

\* A crash stops every request at once.
LEMMA CrashSound == ASSUME IInv, Crash PROVE IInv'
<1>1. /\ TypeOK /\ HomeInv /\ StoreInv /\ "crash" \in Kinds /\ "gone" \in Phases
      /\ \A s \in Requests : PathInv(s) /\ FreshInv(s) /\ ViewInv(s) /\ DropInv(s)
      /\ Fault("crash") /\ row' = row /\ stored' = stored /\ doomed' = {} /\ lock' = [x \in Rows |-> None]
  BY DEF IInv, Kinds, Phases, Crash
<1>2. ASSUME NEW s \in Requests
      PROVE  /\ req'[s] \in ReqType /\ SameAsk(s)
             /\ req'[s] = req[s] \/ (req'[s].ph = "gone" /\ req[s].ph \notin {"idle", "done", "failed"})
             /\ req'[s].wrote = req[s].wrote /\ req'[s].swept = req[s].swept /\ req'[s].tracked = req[s].tracked
             /\ req'[s].old = req[s].old /\ (req[s].ph \in {"idle", "done", "failed"} => req'[s] = req[s])
             /\ req'[s].ph \in {"idle", "done", "failed", "gone"}
  <2>1. req[s] \in ReqType
    BY <1>1 DEF TypeOK
  <2>2. req'[s] = IF req[s].ph \in {"idle", "done", "failed"} THEN req[s] ELSE [req[s] EXCEPT !.ph = "gone"]
    BY DEF Crash
  <2>3. CASE req[s].ph \in {"idle", "done", "failed"}
    BY <2>1, <2>2, <2>3 DEF SameAsk
  <2>4. CASE req[s].ph \notin {"idle", "done", "failed"}
    <3>1. req'[s] = [req[s] EXCEPT !.ph = "gone"]
      BY <2>2, <2>4
    <3>2. req'[s].ph = "gone"
      BY <2>1, <3>1 DEF ReqType
    <3> QED BY <1>1, <2>1, <2>4, <3>1, <3>2 DEF SameAsk, ReqType
  <2> QED BY <2>3, <2>4
<1>3. TypeOK'
  <2>1. req' = [r \in Requests |-> req'[r]]
    BY DEF Crash
  <2>2. req' \in [Requests -> ReqType]
    BY <1>2, <2>1
  <2> QED BY <1>1, <2>2, FaultTypes DEF TypeOK
<1>4. \A s \in Requests : Kept(s) /\ Onward(s) /\ Guards(s)' /\ (Brought(s)' => Brought(s))
  BY <1>2 DEF Kept, Onward, Sent, Guards, Holds, Brought, SameAsk, At, Ask
<1>5. HomeInv' /\ \A s \in Requests : FreshInv(s)' /\ ViewInv(s)' /\ DropInv(s)'
  BY <1>1, <1>4, DataKept
<1>6. \A s \in Requests : PathInv(s)'
  BY <1>1, <1>2 DEF PathInv, SameAsk, At, Ask
<1>7. StoreInv'
  BY <1>1, <1>2, <1>4, StoreKept DEF SameAsk
<1> QED BY <1>3, <1>5, <1>6, <1>7 DEF IInv

\* The background tasks remove objects that are out.
LEMMA TaskSound == ASSUME IInv, NEW k \in Keys, Remove(k) \/ RemoveFails(k) PROVE IInv'
<1>1. /\ TypeOK /\ HomeInv /\ StoreInv /\ "delete" \in Kinds /\ req' = req /\ row' = row /\ lock' = lock
      /\ \A s \in Requests : PathInv(s) /\ FreshInv(s) /\ ViewInv(s) /\ DropInv(s)
      /\ k \in doomed /\ doomed' = doomed \ {k} /\ (stored' = stored \/ stored' = stored \ {k})
  BY DEF IInv, Remove, RemoveFails, Kinds
<1>2. TypeOK'
  BY <1>1, FaultTypes DEF TypeOK, Remove, RemoveFails
<1>3. \A s \in Requests : Kept(s) /\ Onward(s) /\ (Brought(s)' => Brought(s)) /\ Guards(s)'
  <2>1. \A s \in Requests : Kept(s) /\ Onward(s) /\ (Brought(s)' => Brought(s))
    BY <1>1 DEF Kept, Onward, SameAsk, Sent, Brought, At, Ask
  <2>2. \A s \in Requests : Guards(s)'
    BY <1>1 DEF ViewInv, Guards, Holds, Sent, At, Ask, Row
  <2> QED BY <2>1, <2>2
<1>4. HomeInv' /\ \A s \in Requests : FreshInv(s)' /\ ViewInv(s)' /\ DropInv(s)'
  BY <1>1, <1>3, DataKept
<1>5. \A s \in Requests : PathInv(s)'
  BY <1>1 DEF PathInv, At, Ask
<1>6. Out(k)'
  BY <1>1, <1>3, Monotone DEF StoreInv
<1>7. StoreInv'
  BY <1>1, <1>3, <1>6, StoreKept DEF SameAsk
<1> QED BY <1>2, <1>4, <1>5, <1>7 DEF IInv

\* The write of r becomes visible, on a record that nobody else has locked.
Lands(r) ==
  /\ Alone(r) /\ SameAsk(r)
  /\ req'[r].old = req[r].old /\ req'[r].tracked = req[r].tracked /\ req'[r].swept = req[r].swept
  /\ req[r].ph \in {"write", "commit"} /\ ~req[r].wrote /\ req'[r].wrote
  /\ req'[r].ph \in {"after", "respond", "failed"} /\ (req'[r].ph = "after" => ~Ask(r).tx)
  /\ row' = Written(r) /\ stored' = stored /\ Free(r)
  /\ req[r].ph = "write" => ~InTx(Ask(r)) /\ Found(r)

LEMMA LandsRows ==
  ASSUME TypeOK, NEW r \in Requests, Lands(r)
  PROVE  /\ Row(r) \in Rows /\ row[Row(r)].ver \in Nat
         /\ \A y \in Rows \ {Row(r)} : row'[y] = row[y]
         /\ row'[Row(r)].keys = req[r].want /\ row'[Row(r)].ver = row[Row(r)].ver + 1
         /\ row'[Row(r)].live <=> Ask(r).op # "delete"
         /\ row' \in [Rows -> RowType]
<1> DEFINE x == Row(r)
           live == Ask(r).op # "delete"
           new == [live |-> live, keys |-> req[r].want, ver |-> row[x].ver + 1]
<1>1. x \in Rows /\ row[x].ver \in Nat /\ req[r].want \in SUBSET Keys /\ row \in [Rows -> RowType] /\ live \in BOOLEAN
  BY DEF TypeOK, ReqType, RowType, AskType, Row
<1>2. row' = [row EXCEPT ![x] = new]
  BY DEF Lands, Written, Ask, Row
<1> HIDE DEF live
<1>3. new.live = live /\ new.keys = req[r].want /\ new.ver = row[x].ver + 1 /\ new \in RowType
  BY <1>1 DEF RowType
<1> HIDE DEF new
<1>4. row'[x] = new /\ (\A y \in Rows \ {x} : row'[y] = row[y]) /\ row' \in [Rows -> RowType]
  BY <1>1, <1>2, <1>3
<1>5. row'[x].live = live
  BY <1>3, <1>4
<1>6. row'[x].live <=> Ask(r).op # "delete"
  BY <1>5 DEF live
<1> QED BY <1>1, <1>3, <1>4, <1>6

\* Where the keys of a write come from: from the request, from elsewhere, or from the record as it stands.
LEMMA WantOf ==
  ASSUME IInv, NEW r \in Requests, Lands(r), NEW k \in req[r].want
  PROVE  k = Key[r] \/ Reused(k) \/ k \in row[Row(r)].keys
<1>1. ViewInv(r) /\ PathInv(r) /\ Sent(r)
  BY DEF IInv, Lands, Sent
<1>2. CASE k = Key[r] \/ k \in req[r].loose
  BY <1>2 DEF Reused
<1>3. CASE k \in Seen(r)
  <2>1. Ask(r).match
    BY <1>1, <1>3 DEF ViewInv
  <2>2. Holds(r)
    BY <2>1 DEF Holds, Lands, At
  <2> QED BY <1>1, <1>3, <2>1, <2>2 DEF ViewInv
<1> QED BY <1>2, <1>3 DEF Seen

LEMMA LandsSound ==
  ASSUME IInv, TypeOK', NEW r \in Requests, Lands(r), PathInv(r)',
         \A k \in doomed' : k \in doomed \/ Out(k)',
         \A y \in Rows : lock[y] \notin {None, r} => lock'[y] = lock[y]
  PROVE  IInv'
<1> DEFINE x == Row(r)
<1>1. /\ TypeOK /\ HomeInv /\ StoreInv
      /\ \A s \in Requests : PathInv(s) /\ FreshInv(s) /\ ViewInv(s) /\ DropInv(s) /\ Row(s) \in Rows
  BY DEF IInv, TypeOK, ReqType, AskType, Row
<1>2. /\ \A y \in Rows \ {x} : row'[y] = row[y]
      /\ row'[x].keys = req[r].want /\ row'[x].ver = row[x].ver + 1 /\ row[x].ver \in Nat
  BY <1>1, LandsRows
<1>3. \A s \in Requests : Onward(s)
  BY DEF Lands, Alone, SameAsk, Onward, Sent
<1>4. /\ \A k, y : Of(k, y) => Of(k, y)'
      /\ \A k : Reused(k) => Reused(k)'
      /\ \A k : Reused(k)' => Reused(k)
  <2>1. \A k : Reused(k)' => Reused(k)
    BY DEF Reused, Lands, Alone, SameAsk
  <2> QED BY <1>1, <1>3, <2>1, Monotone
<1>5. Sent(r) /\ \A s \in Requests : Row(s)' = Row(s) /\ req'[s].want = req[s].want /\ req'[s].old = req[s].old
                                     /\ (Sent(s)' <=> Sent(s)) /\ (s # r => req'[s] = req[s])
  BY DEF Lands, Alone, SameAsk, Row, Sent
<1>6. HomeInv'
  <2>1. ASSUME NEW y \in Rows, NEW k \in row'[y].keys PROVE Of(k, y) \/ Reused(k)
    <3>1. CASE y = x
      BY <1>1, <1>2, <1>5, <2>1, <3>1 DEF HomeInv
    <3>2. CASE y # x
      BY <1>1, <1>2, <2>1, <3>2 DEF HomeInv
    <3> QED BY <3>1, <3>2
  <2>2. ASSUME NEW s \in Requests, NEW k \in req'[s].old \cup req'[s].want, Sent(s)'
        PROVE  Of(k, Row(s))' \/ Reused(k)'
    <3>1. Of(k, Row(s)) \/ Reused(k)
      BY <1>1, <1>5, <2>2 DEF HomeInv
    <3> QED BY <1>4, <1>5, <3>1 DEF Of
  <2>3. \A y \in Rows : \A k \in row'[y].keys : Of(k, y)' \/ Reused(k)'
    BY <1>4, <2>1
  <2> QED BY <2>2, <2>3 DEF HomeInv
<1>7. ASSUME NEW s \in Requests PROVE PathInv(s)'
  <2>1. CASE s = r
    BY <2>1
  <2>2. CASE s # r
    <3>1. req'[s] = req[s] /\ stored' = stored
      BY <1>5, <2>2 DEF Lands
    <3> QED BY <1>1, <3>1 DEF PathInv, At, Ask
  <2> QED BY <2>1, <2>2
<1>8. ASSUME NEW s \in Requests PROVE FreshInv(s)'
  <2>1. CASE s = r
    BY <2>1 DEF Lands, FreshInv
  <2>2. CASE s # r
    <3> SUFFICES ASSUME ~req'[s].wrote PROVE FreshInv(s)'
      BY DEF FreshInv
    <3>1. req'[s] = req[s] /\ ~req[s].wrote /\ FreshInv(s)
      BY <1>1, <1>5, <2>2
    <3>2. At(s, "idle")' \/ At(s, "post")' \/ Uploads(Ask(s))' => ~Reused(Key[s])'
      BY <1>4, <3>1 DEF FreshInv, At, Ask
    <3>3. CASE Reused(Key[s])
      BY <1>4, <3>2, <3>3 DEF FreshInv
    <3>4. CASE ~Reused(Key[s])
      <4>1. /\ \A y \in Rows : Key[s] \notin row[y].keys
            /\ \A t \in Requests : Key[s] \notin req[t].old /\ (t # s => Key[s] \notin req[t].want)
        BY <3>1, <3>4 DEF FreshInv
      <4>2. \A y \in Rows : Key[s] \notin row'[y].keys
        BY <1>2, <2>2, <4>1
      <4> QED BY <1>5, <3>2, <4>1, <4>2 DEF FreshInv
    <3> QED BY <3>3, <3>4
  <2> QED BY <2>1, <2>2
<1>9. ASSUME NEW s \in Requests PROVE ViewInv(s)'
  <2>1. CASE Row(s) # x
    <3>1. s # r /\ req'[s] = req[s] /\ row'[Row(s)] = row[Row(s)] /\ Row(s) \in Rows /\ s # None /\ ViewInv(s)
      BY <1>1, <1>2, <1>5, <2>1, NoneAssumption
    <3> QED BY <3>1 DEF ViewInv, Holds, Sent, Seen, At, Ask, Row
  <2>2. CASE Row(s) = x
    <3> SUFFICES ASSUME Sent(s)' PROVE ViewInv(s)'
      BY DEF ViewInv
    <3>1. Sent(s) /\ ViewInv(s) /\ req'[s].etag = req[s].etag /\ req[s].etag \in Nat
          /\ Seen(s)' = Seen(s) /\ Ask(s)' = Ask(s) /\ Row(s)' = x
      BY <1>1, <1>5, <2>2 DEF Lands, Alone, SameAsk, Seen, Ask, TypeOK, ReqType
    <3>2. req'[s].etag < row'[x].ver
      BY <1>2, <2>2, <3>1 DEF ViewInv
    <3>3. ~Holds(s)'
      <4>1. CASE s = r
        BY <4>1 DEF Lands, Holds, At, Ask, SameAsk
      <4>2. CASE s # r
        BY <1>1, <1>5, <2>2, <3>1, <4>2, NoneAssumption DEF Lands, Free, ViewInv, Holds, At, Ask
      <4> QED BY <4>1, <4>2
    <3>4. req'[s].etag <= row'[x].ver /\ req'[s].etag # row'[x].ver
      BY <1>2, <3>1, <3>2
    <3> QED BY <3>1, <3>3, <3>4 DEF ViewInv
  <2> QED BY <2>1, <2>2
<1>10. ASSUME NEW s \in Requests PROVE DropInv(s)'
  <2> SUFFICES ASSUME req'[s].wrote, NEW k \in Dropped(s)', k \in row'[Row(s)].keys PROVE Reused(k)
    BY <1>4, <1>5 DEF DropInv
  <2>1. Dropped(s)' = Dropped(s) /\ k \in Dropped(s) /\ k \in req[s].old /\ k \notin req[s].want
    <3>1. req'[s].ask = req[s].ask /\ req'[s].want = req[s].want /\ req'[s].old = req[s].old
      BY <1>5 DEF Lands, SameAsk
    <3>2. Dropped(s)' = Dropped(s)
      BY <3>1 DEF Dropped, Blind, Ask, Row
    <3>3. k \in Dropped(s)
      BY <3>2
    <3> QED BY <3>2, <3>3 DEF Dropped
  <2>2. CASE s = r
    BY <1>2, <2>1, <2>2
  <2>3. CASE s # r /\ Row(s) # x
    BY <1>1, <1>2, <1>5, <2>1, <2>3 DEF DropInv
  <2>4. CASE s # r /\ Row(s) = x
    <3>1. k \in req[r].want /\ req[s].wrote
      BY <1>2, <1>5, <2>4
    <3>2. k = Key[r] \/ Reused(k) \/ k \in row[x].keys
      BY <3>1, WantOf
    <3>3. k = Key[r] => Reused(k)
      BY <1>1, <2>1 DEF FreshInv, Lands
    <3> QED BY <1>1, <2>1, <2>4, <3>1, <3>2, <3>3 DEF DropInv
  <2> QED BY <2>2, <2>3, <2>4
<1>11. StoreInv'
  <2>1. \A k : Out(k) => Out(k)'
    BY <1>1, <1>3, Monotone
  <2>2. Brought(r)
    BY DEF Lands, Brought
  <2>3. \A k \in req[r].want : k \in stored' \/ Out(k)'
    BY <1>1, <2>1, <2>2 DEF StoreInv, Supplied, Lands
  <2>4. \A y \in Rows : \A k \in row'[y].keys : k \in row[y].keys \/ k \in stored' \/ Out(k)'
    BY <1>2, <2>3
  <2>5. \A s \in Requests : req'[s].want = req[s].want /\ (Brought(s)' => Brought(s))
    BY <1>5, <2>2 DEF Brought, At, Ask
  <2> QED BY <1>1, <1>3, <2>4, <2>5, StoreKept DEF Lands
<1> QED BY <1>6, <1>7, <1>8, <1>9, <1>10, <1>11 DEF IInv

\* The three ways a write lands.
LEMMA WriteBareLands ==
  ASSUME IInv, NEW r \in Requests, WriteBare(r)
  PROVE  Lands(r) /\ lock' = lock /\ doomed' = doomed /\ req' \in [Requests -> ReqType] /\ req'[r].ph = "after"
<1>1. /\ TypeOK /\ PathInv(r) /\ req[r].ph = "write" /\ ~InTx(Ask(r)) /\ Free(r) /\ Found(r) /\ row' = Written(r)
      /\ req' = [req EXCEPT ![r] = [@ EXCEPT !.ph = "after", !.wrote = TRUE]] /\ UNCHANGED <<stored, doomed, lock, faults>>
  BY DEF IInv, WriteBare, At
<1>2. /\ Alone(r) /\ SameAsk(r) /\ req'[r].ph = "after" /\ req'[r].old = req[r].old /\ req'[r].wrote = TRUE
      /\ req'[r].tracked = req[r].tracked /\ req'[r].swept = req[r].swept
      /\ req' \in [Requests -> ReqType]
  <2>1. /\ req' = [req EXCEPT ![r] = [@ EXCEPT !.ph = "after", !.wrote = TRUE]]
        /\ req \in [Requests -> ReqType] /\ "after" \in Phases
    BY <1>1 DEF TypeOK, Phases
  <2> QED BY <2>1 DEF Alone, SameAsk, ReqType
<1>3. ~req[r].wrote /\ ~Ask(r).tx
  BY <1>1 DEF PathInv, At, InTx
<1> QED BY <1>1, <1>2, <1>3 DEF Lands

LEMMA CommitLands ==
  ASSUME IInv, NEW r \in Requests, Commit(r) \/ AnswerLost(r)
  PROVE  /\ Lands(r) /\ lock' = Unlocked(r) /\ req' \in [Requests -> ReqType]
         /\ \/ AnswerLost(r) /\ req'[r].ph = "failed"
            \/ Commit(r) /\ req'[r].ph = IF Ask(r).tx THEN "respond" ELSE "after"
<1> DEFINE q == IF Ask(r).tx THEN "respond" ELSE "after"
<1>1. PICK p \in {"failed", q} :
         /\ req' = [req EXCEPT ![r] = [@ EXCEPT !.ph = p, !.wrote = TRUE]]
         /\ \/ AnswerLost(r) /\ p = "failed"
            \/ Commit(r) /\ p = q
  BY DEF Commit, AnswerLost
<1>2. /\ TypeOK /\ PathInv(r) /\ ViewInv(r) /\ req[r].ph = "commit" /\ row' = Written(r)
      /\ stored' = stored /\ lock' = Unlocked(r)
  BY DEF IInv, Commit, AnswerLost, At
<1>3. p \in Phases /\ p \in {"after", "respond", "failed"} /\ (p = "after" => ~Ask(r).tx)
  BY <1>1 DEF Phases
<1>4. /\ Alone(r) /\ SameAsk(r) /\ req'[r].ph = p /\ req'[r].old = req[r].old /\ req'[r].wrote = TRUE
      /\ req'[r].tracked = req[r].tracked /\ req'[r].swept = req[r].swept
      /\ req' \in [Requests -> ReqType]
  <2> HIDE DEF q
  <2> QED BY <1>1, <1>2, <1>3 DEF Alone, SameAsk, TypeOK, ReqType
<1>5. Free(r) /\ ~req[r].wrote
  BY <1>2 DEF ViewInv, PathInv, Free, Holds, Sent, At
<1> QED BY <1>1, <1>2, <1>3, <1>4, <1>5 DEF Lands

LEMMA WriteBareSound == ASSUME IInv, NEW r \in Requests, WriteBare(r) PROVE IInv'
<1>1. TypeOK /\ PathInv(r) /\ req[r].ph = "write" /\ ~InTx(Ask(r)) /\ faults' = faults
  BY DEF IInv, WriteBare, At
<1>2. Lands(r) /\ lock' = lock /\ doomed' = doomed /\ req' \in [Requests -> ReqType] /\ req'[r].ph = "after"
  BY WriteBareLands
<1>3. TypeOK'
  BY <1>1, <1>2, LandsRows DEF TypeOK, Lands
<1>4. PathInv(r)'
  BY <1>1, <1>2 DEF Lands, PathInv, SameAsk, At, Ask, InTx
<1> QED BY <1>2, <1>3, <1>4, LandsSound

LEMMA CommitSound == ASSUME IInv, NEW r \in Requests, Commit(r) \/ AnswerLost(r) PROVE IInv'
<1>1. /\ TypeOK /\ PathInv(r) /\ req[r].ph = "commit" /\ Key[r] \in Keys
      /\ doomed' = doomed \/ (AnswerLost(r) /\ doomed' = doomed \cup Cleanup(r))
  BY KeysAssumption DEF IInv, Commit, AnswerLost, At
<1>2. /\ Lands(r) /\ lock' = Unlocked(r) /\ req' \in [Requests -> ReqType]
      /\ req'[r].ph = "failed" \/ (Commit(r) /\ req'[r].ph = IF Ask(r).tx THEN "respond" ELSE "after")
      /\ AnswerLost(r) => req'[r].ph = "failed"
  <2>1. AnswerLost(r) => req'[r].ph = "failed"
    <3> SUFFICES ASSUME AnswerLost(r) PROVE req'[r].ph = "failed"
      OBVIOUS
    <3>1. req' = [req EXCEPT ![r] = [@ EXCEPT !.ph = "failed", !.wrote = TRUE]] /\ req \in [Requests -> ReqType]
      BY <1>1 DEF AnswerLost, TypeOK
    <3>2. req'[r] = [req[r] EXCEPT !.ph = "failed", !.wrote = TRUE] /\ req[r] \in ReqType
      BY <3>1
    <3> QED BY <3>2 DEF ReqType
  <2> QED BY <2>1, CommitLands
<1>3. TypeOK'
  <2>1. faults' \in [Kinds -> Nat]
    <3>1. CASE Commit(r)
      BY <1>1, <3>1 DEF Commit, TypeOK
    <3>2. CASE AnswerLost(r)
      BY <1>1, <3>2, FaultTypes DEF AnswerLost, Kinds
    <3> QED BY <3>1, <3>2
  <2> QED BY <1>1, <1>2, <2>1, LandsRows, Unlocks DEF TypeOK, Lands, Cleanup
<1>4. PathInv(r)'
  BY <1>1, <1>2 DEF Lands, PathInv, SameAsk, At, Ask, InTx
<1>5. \A k \in doomed' : k \in doomed \/ Out(k)'
  BY <1>1, <1>2 DEF Out, Undone, Lands, Cleanup, At
<1> QED BY <1>1, <1>2, <1>3, <1>4, <1>5, Unlocks, LandsSound

\* A key is known from a record or from a post.
LEMMA KnownKeys ==
  ASSUME NEW k, k \in Known
  PROVE  (\E x \in Rows : k \in row[x].keys) \/ (\E t \in Requests : Posted(t) /\ k = Key[t])
<1> DEFINE A == UNION {row[x].keys : x \in Rows}
           B == {Key[s] : s \in {t \in Requests : Posted(t)}}
<1>1. k \in A => \E x \in Rows : k \in row[x].keys
  OBVIOUS
<1>2. k \in B => \E t \in Requests : Posted(t) /\ k = Key[t]
  OBVIOUS
<1>3. Known = A \cup B
  BY DEF Known
<1> HIDE DEF A, B
<1> QED BY <1>1, <1>2, <1>3

\* A request is made: the keys it names are its own, or from elsewhere, or the record's.
LEMMA SendSound ==
  ASSUME IInv, NEW r \in Requests, NEW a \in Asks, NEW names \in SUBSET Keys, Send(r, a, names)
  PROVE  IInv'
<1> DEFINE w == IF Uploads(a) THEN {Key[r]} ELSE names
           kept == IF a.match THEN row[a.row].keys ELSE {}
           l == names \ ({Key[r]} \cup kept)
           p == IF Key[r] \in names THEN "post" ELSE First(a)
           e == row[a.row].ver
<1>1. /\ TypeOK /\ HomeInv /\ StoreInv
      /\ \A s \in Requests : PathInv(s) /\ FreshInv(s) /\ ViewInv(s) /\ DropInv(s)
  BY DEF IInv
<1>2. /\ req' = [req EXCEPT ![r] = [@ EXCEPT !.ask = a, !.etag = e, !.want = w, !.loose = l, !.ph = p]]
      /\ row' = row /\ stored' = stored /\ doomed' = doomed /\ lock' = lock /\ faults' = faults
      /\ req[r].ph = "idle" /\ (a.how # "refer" => names = {}) /\ names \subseteq Known \cup {Key[r]}
  BY DEF Send, At
<1>3. /\ a \in AskType /\ a.row \in Rows /\ (a.op = "create" => ~a.match) /\ (a.op = "delete" => a.how = "clear")
      /\ a.how \in {"stream", "upload", "refer", "clear"} /\ a.match \in BOOLEAN
  BY AsksAssumption DEF AskType
<1>4. e \in Nat /\ kept \in SUBSET Keys /\ w \in SUBSET Keys /\ l \in SUBSET Keys /\ Key[r] \in Keys
  BY <1>1, <1>3, KeysAssumption DEF TypeOK, RowType
<1>5. /\ p \in Phases /\ p \in {"post", "store", "stat", "read"}
      /\ (p = "post" <=> Key[r] \in names) /\ (p = "store" => Uploads(a))
      /\ (p = "read" /\ ~Uploads(a) => names = {}) /\ (p = "post" => a.how = "refer")
      /\ (p = "stat" => ~Uploads(a))
  BY <1>2, <1>3 DEF First, Phases, Uploads
<1>6. /\ req[r].want = {} /\ req[r].old = {} /\ req[r].loose = {}
      /\ ~req[r].wrote /\ ~req[r].swept /\ ~req[r].tracked
      /\ Key[r] \notin stored /\ ~Reused(Key[r])
      /\ \A x \in Rows : Key[r] \notin row[x].keys
      /\ \A s \in Requests : Key[r] \notin req[s].old /\ (s # r => Key[r] \notin req[s].want)
  BY <1>1, <1>2 DEF PathInv, FreshInv, At
<1>7. /\ Uploads(a) => w = {Key[r]} /\ l = {}
      /\ ~Uploads(a) => w = names
      /\ a.how = "clear" => w = {} /\ names = {}
      /\ l = names \ ({Key[r]} \cup kept) /\ Key[r] \notin l
      /\ kept = (IF a.match THEN row[a.row].keys ELSE {})
  BY <1>2 DEF Uploads
<1> HIDE DEF w, kept, l, p, e
<1>8. /\ Alone(r) /\ req' \in [Requests -> ReqType]
      /\ req'[r].ask = a /\ req'[r].etag = e /\ req'[r].want = w /\ req'[r].loose = l /\ req'[r].ph = p
      /\ req'[r].old = req[r].old /\ req'[r].wrote = req[r].wrote /\ req'[r].swept = req[r].swept
      /\ req'[r].tracked = req[r].tracked
  <2>1. req \in [Requests -> ReqType]
    BY <1>1 DEF TypeOK
  <2>2. req'[r] = [req[r] EXCEPT !.ask = a, !.etag = e, !.want = w, !.loose = l, !.ph = p] /\ Alone(r)
        /\ req' = [req EXCEPT ![r] = req'[r]] /\ req[r] \in ReqType
    BY <1>2, <2>1 DEF Alone
  <2>3. req'[r] \in ReqType
    BY <1>3, <1>4, <1>5, <2>2 DEF ReqType
  <2> QED BY <2>1, <2>2, <2>3 DEF ReqType
<1>9. TypeOK'
  BY <1>1, <1>2, <1>8 DEF TypeOK
<1>10. \A s \in Requests : Onward(s)
  BY <1>2, <1>6, <1>8 DEF Onward, Alone, SameAsk, Sent
<1>11. /\ \A k, x : Of(k, x) => Of(k, x)'
       /\ \A k : Reused(k) => Reused(k)'
       /\ \A k : Out(k) => Out(k)'
  BY <1>1, <1>10, Monotone
<1>12. \A k : Reused(k)' => Reused(k) \/ k \in l
  BY <1>8 DEF Reused, Alone
<1>13. ASSUME NEW k \in w
       PROVE  k = Key[r] \/ k \in l \/ (a.match /\ k \in row[a.row].keys)
  BY <1>7, <1>13
<1>14. HomeInv'
  <2>1. \A x \in Rows : \A k \in row'[x].keys : Of(k, x)' \/ Reused(k)'
    BY <1>1, <1>2, <1>11 DEF HomeInv
  <2>2. ASSUME NEW s \in Requests, NEW k \in req'[s].old \cup req'[s].want, Sent(s)'
        PROVE  Of(k, Row(s))' \/ Reused(k)'
    <3>1. CASE s # r
      <4>1. req'[s] = req[s]
        BY <1>8, <3>1 DEF Alone
      <4>2. Of(k, Row(s)) \/ Reused(k)
        BY <1>1, <2>2, <4>1 DEF HomeInv, Sent
      <4>3. Of(k, Row(s))' <=> \/ k \in Had[Row(s)]
                               \/ \E t \in Requests : Sent(t)' /\ Row(t)' = Row(s) /\ k = Key[t]
        BY <4>1 DEF Of, Row
      <4> QED BY <1>10, <1>11, <4>2, <4>3 DEF Of, Onward, SameAsk, Sent, Row
    <3>2. CASE s = r
      <4>1. k \in w /\ Row(r)' = a.row
        BY <1>6, <1>8, <2>2, <3>2 DEF Row
      <4>2. CASE k = Key[r]
        BY <2>2, <3>2, <4>2 DEF Of
      <4>3. CASE k \in l
        BY <1>8, <4>3 DEF Reused
      <4>4. CASE k \in row[a.row].keys
        <5>1. Of(k, a.row)' \/ Reused(k)'
          BY <1>1, <1>3, <1>11, <4>4 DEF HomeInv
        <5> QED BY <3>2, <4>1, <5>1 DEF Of
      <4> QED BY <1>13, <4>1, <4>2, <4>3, <4>4
    <3> QED BY <3>1, <3>2
  <2> QED BY <2>1, <2>2 DEF HomeInv
<1>15. ASSUME NEW s \in Requests PROVE PathInv(s)'
  <2>1. CASE s # r
    <3>1. req'[s] = req[s] /\ PathInv(s)
      BY <1>1, <1>8, <2>1 DEF Alone
    <3> QED BY <1>2, <3>1 DEF PathInv, At, Ask
  <2>2. CASE s = r
    BY <1>2, <1>3, <1>5, <1>6, <1>7, <1>8, <2>2 DEF PathInv, At, Ask, Uploads
  <2> QED BY <2>1, <2>2
<1>16. ASSUME NEW s \in Requests PROVE FreshInv(s)'
  <2>1. CASE s = r
    <3>1. ~Reused(Key[r])'
      BY <1>6, <1>7, <1>12
    <3>2. \A t \in Requests : Key[r] \notin req'[t].old /\ (t # r => Key[r] \notin req'[t].want)
      BY <1>6, <1>8 DEF Alone
    <3> QED BY <1>2, <1>6, <2>1, <3>1, <3>2 DEF FreshInv
  <2>2. CASE s # r
    <3> SUFFICES ASSUME ~req'[s].wrote PROVE FreshInv(s)'
      BY DEF FreshInv
    <3>1. req'[s] = req[s] /\ ~req[s].wrote /\ FreshInv(s) /\ PathInv(s) /\ Key[s] # Key[r]
      BY <1>1, <1>8, <2>2, KeysAssumption DEF Alone
    <3>2. ASSUME At(s, "idle") \/ At(s, "post") \/ Uploads(Ask(s)) PROVE ~Reused(Key[s])'
      <4>1. ~Reused(Key[s]) /\ \A x \in Rows : Key[s] \notin row[x].keys
        BY <3>1, <3>2 DEF FreshInv
      <4>2. ~Posted(s)
        BY <3>1, <3>2 DEF Posted, PathInv, At, Uploads
      <4>3. Key[s] \notin Known
        BY <4>1, <4>2, KnownKeys, KeysAssumption
      <4> QED BY <1>2, <1>7, <1>12, <3>1, <4>1, <4>3
    <3>3. At(s, "idle")' \/ At(s, "post")' \/ Uploads(Ask(s))' => ~Reused(Key[s])'
      BY <3>1, <3>2 DEF At, Ask
    <3>4. CASE Reused(Key[s])'
      BY <3>3, <3>4 DEF FreshInv
    <3>5. CASE ~Reused(Key[s])'
      <4>1. /\ \A x \in Rows : Key[s] \notin row[x].keys
            /\ \A t \in Requests : Key[s] \notin req[t].old /\ (t # s => Key[s] \notin req[t].want)
        BY <1>11, <3>1, <3>5 DEF FreshInv
      <4>2. Key[s] \notin w
        BY <1>3, <1>8, <1>13, <3>1, <3>5, <4>1 DEF Reused
      <4> QED BY <1>2, <1>6, <1>8, <3>3, <4>1, <4>2 DEF FreshInv, Alone
    <3> QED BY <3>4, <3>5
  <2> QED BY <2>1, <2>2
<1>17. ASSUME NEW s \in Requests PROVE ViewInv(s)'
  <2>1. CASE s # r
    <3>1. req'[s] = req[s] /\ ViewInv(s)
      BY <1>1, <1>8, <2>1 DEF Alone
    <3> QED BY <1>2, <3>1 DEF ViewInv, Sent, Seen, Holds, At, Ask, Row
  <2>2. CASE s = r
    <3>1. Seen(r)' = w \ ({Key[r]} \cup l) /\ Row(r)' = a.row /\ Ask(r)' = a
      BY <1>8 DEF Seen, Row, Ask
    <3>2. Seen(r)' \subseteq row[a.row].keys /\ (~a.match => Seen(r)' = {})
      BY <1>13, <3>1
    <3>3. ~Holds(r)'
      BY <1>5, <1>8 DEF Holds, At
    <3>4. req'[r].etag = row'[a.row].ver /\ req'[r].etag <= row'[a.row].ver /\ row' = row
      BY <1>2, <1>4, <1>8 DEF e
    <3> QED BY <2>2, <3>1, <3>2, <3>3, <3>4 DEF ViewInv
  <2> QED BY <2>1, <2>2
<1>18. ASSUME NEW s \in Requests PROVE DropInv(s)'
  <2>1. CASE s # r
    <3>1. req'[s] = req[s] /\ DropInv(s)
      BY <1>1, <1>8, <2>1 DEF Alone
    <3> QED BY <1>2, <1>11, <3>1 DEF DropInv, Dropped, Blind, Ask, Row
  <2>2. CASE s = r
    BY <1>6, <1>8, <2>2 DEF DropInv
  <2> QED BY <2>1, <2>2
<1>19. StoreInv'
  <2>1. ASSUME NEW k \in w PROVE k \in stored' \/ Out(k)' \/ (k = Key[r] /\ ~Brought(r)')
    <3>1. CASE k = Key[r]
      <4>1. ~Brought(r)' <=> p # "stat" /\ (p = "read" => Uploads(a))
        BY <1>5, <1>6, <1>8 DEF Brought, At, Ask
      <4> QED BY <1>5, <1>7, <2>1, <3>1, <4>1
    <3>2. CASE k # Key[r]
      <4>1. k \in Known
        BY <1>2, <1>7, <2>1, <3>2
      <4>2. k \in stored \/ \E x \in Rows : k \in row[x].keys
        BY <4>1, KnownKeys DEF Posted
      <4> QED BY <1>1, <1>2, <1>11, <4>2 DEF StoreInv
    <3> QED BY <3>1, <3>2
  <2>2. Supplied(r)'
    BY <1>8, <2>1 DEF Supplied
  <2>3. \A s \in Requests \ {r} : req'[s].want = req[s].want /\ (Brought(s)' => Brought(s))
    BY <1>8 DEF Alone, Brought, At, Ask
  <2> QED BY <1>1, <1>2, <1>10, <2>2, <2>3, StoreKept
<1> QED BY <1>9, <1>14, <1>15, <1>16, <1>17, <1>18, <1>19 DEF IInv

LEMMA InitInv == Init => IInv
<1> SUFFICES ASSUME Init PROVE IInv
  OBVIOUS
<1> DEFINE a == CHOOSE b \in Asks : TRUE
<1>1. a \in Asks /\ a \in AskType /\ (a.op = "create" => ~a.match)
  BY AsksAssumption
<1>2. \A x \in Rows : row[x].keys = Had[x] /\ row[x].ver = 0 /\ row[x].live \in BOOLEAN
  <2> SUFFICES ASSUME NEW x \in Rows PROVE row[x].keys = Had[x] /\ row[x].ver = 0 /\ row[x].live \in BOOLEAN
    OBVIOUS
  <2> DEFINE live == x \in Present
  <2>1. live \in BOOLEAN /\ row[x] = [live |-> live, keys |-> Had[x], ver |-> 0]
    BY DEF Init
  <2> HIDE DEF live
  <2> QED BY <2>1
<1>3. ASSUME NEW r \in Requests
      PROVE  /\ req[r].ph = "idle" /\ req[r].ask = a /\ req[r].want = {} /\ req[r].etag = 0
             /\ req[r].loose = {} /\ req[r].old = {} /\ req[r].tracked = FALSE
             /\ req[r].swept = FALSE /\ req[r].wrote = FALSE
  <2> HIDE DEF a
  <2>1. req[r] = [ph |-> "idle", ask |-> a, want |-> {}, etag |-> 0, loose |-> {}, old |-> {},
                  tracked |-> FALSE, swept |-> FALSE, wrote |-> FALSE]
    BY DEF Init, a
  <2> QED BY <2>1
<1>4. stored = UNION {row[x].keys : x \in Rows} /\ doomed = {} /\ \A r \in Requests : Key[r] \notin stored
  BY <1>2, KeysAssumption DEF Init
<1>5. TypeOK
  <2> HIDE DEF a
  <2>1. row \in [Rows -> RowType]
    BY KeysAssumption DEF Init, RowType
  <2>2. req \in [Requests -> ReqType]
    <3>1. "idle" \in Phases
      BY DEF Phases
    <3>2. [ph |-> "idle", ask |-> a, want |-> {}, etag |-> 0, loose |-> {}, old |-> {},
           tracked |-> FALSE, swept |-> FALSE, wrote |-> FALSE] \in ReqType
      BY <1>1, <3>1 DEF ReqType
    <3> QED BY <3>2 DEF Init, a
  <2>3. stored \subseteq Keys
    BY <1>2, <1>4, KeysAssumption
  <2> QED BY <1>4, <2>1, <2>2, <2>3 DEF Init, TypeOK
<1> HIDE DEF a
<1>6. HomeInv
  BY <1>2, <1>3 DEF HomeInv, Of, Sent
<1>7. \A r \in Requests : ~Reused(Key[r])
  BY <1>3, KeysAssumption DEF Reused
<1>8. ASSUME NEW r \in Requests PROVE PathInv(r) /\ FreshInv(r) /\ ViewInv(r) /\ DropInv(r)
  <2>1. PathInv(r)
    BY <1>1, <1>3, <1>4 DEF PathInv, At, Ask
  <2>2. FreshInv(r)
    BY <1>2, <1>3, <1>7, KeysAssumption DEF FreshInv
  <2>3. ViewInv(r) /\ DropInv(r)
    BY <1>3 DEF ViewInv, DropInv, Sent
  <2> QED BY <2>1, <2>2, <2>3
<1>9. StoreInv
  BY <1>3, <1>4 DEF StoreInv, Supplied
<1> QED BY <1>5, <1>6, <1>8, <1>9 DEF IInv

LEMMA NextInv == IInv /\ [Next]_vars => IInv'
<1> SUFFICES ASSUME IInv, [Next]_vars PROVE IInv'
  OBVIOUS
<1>1. ASSUME NEW r \in Requests, Step(r) PROVE IInv'
  <2>1. CASE \E a \in Asks, names \in SUBSET Keys : Send(r, a, names)
    BY <2>1, SendSound
  <2>2. CASE PostFile(r) \/ Stat(r) \/ ReadOld(r) \/ Store(r) \/ StreamBreaks(r)
    BY <2>2, PostFileSound, StatSound, ReadOldSound, StoreSound, StreamBreaksSound
  <2>3. CASE Match(r) \/ WriteBare(r) \/ WriteInTx(r) \/ Commit(r) \/ AnswerLost(r)
    BY <2>3, MatchSound, WriteBareSound, WriteInTxSound, CommitSound
  <2>4. CASE AfterDB(r) \/ Respond(r) \/ Refuse(r)
    BY <2>4, AfterDBSound, RespondSound, RefuseSound
  <2>5. CASE CommitLost(r) \/ FailsLate(r) \/ Panic(r)
    BY <2>5, CommitLostSound, FailsLateSound, PanicSound
  <2> QED BY <1>1, <2>1, <2>2, <2>3, <2>4, <2>5 DEF Step
<1>2. CASE \E k \in Keys : Remove(k) \/ RemoveFails(k)
  BY <1>2, TaskSound
<1>3. CASE Crash
  BY <1>3, CrashSound
<1>4. CASE UNCHANGED vars
  <2>1. /\ row' = row /\ stored' = stored /\ doomed' = doomed /\ lock' = lock /\ req' = req /\ faults' = faults
    BY <1>4 DEF vars
  <2> QED BY <2>1 DEF IInv, TypeOK, HomeInv, PathInv, FreshInv, ViewInv, DropInv, StoreInv, Of, Reused, Out,
       Taken, Undone, Aborted, Supplied, Brought, Holds, Seen, Dropped, Blind, Sent, At, Ask, Row
<1> QED BY <1>1, <1>2, <1>3, <1>4 DEF Next

\* The inductive invariant behind NoDangling holds (FileFields): where each
\* request is, whose the keys are, and which objects may be gone.
THEOREM Invariant == Spec => []IInv
<1> QED BY InitInv, NextInv, PTL DEF Spec

\* A key that nobody re-used has one record.
LEMMA OneHome ==
  ASSUME TypeOK, NEW k, NEW x \in Rows, NEW y \in Rows, Of(k, x), Of(k, y), ~Reused(k)
  PROVE  x = y
<1>1. CASE k \in Had[x] /\ k \in Had[y]
  BY <1>1 DEF Reused
<1>2. CASE k \notin Had[x] \/ k \notin Had[y]
  BY <1>2, KeysAssumption DEF Of
<1> QED BY <1>1, <1>2

LEMMA InvKeeps == IInv => NoDangling
<1> SUFFICES ASSUME IInv, NEW x \in Rows, NEW k \in row[x].keys, k \notin stored
             PROVE  (Reused(k) /\ Taken(k)) \/ Undone(k) \/ SweptInVain(x, k)
  BY DEF NoDangling
<1>1. TypeOK /\ HomeInv /\ Out(k) /\ \A r \in Requests : PathInv(r) /\ FreshInv(r) /\ DropInv(r) /\ Row(r) \in Rows
  BY DEF IInv, StoreInv, TypeOK, ReqType, AskType, Row
<1>2. CASE Undone(k)
  BY <1>2
<1>3. CASE Aborted(k)
  BY <1>1, <1>3 DEF Aborted, FreshInv
<1>4. CASE Taken(k) /\ ~Reused(k)
  <2>1. PICK r \in Requests : (req[r].wrote \/ req[r].swept) /\ k \in Dropped(r)
    BY <1>4 DEF Taken
  <2>2. k \in req[r].old /\ Sent(r)
    BY <1>1, <2>1 DEF Dropped, PathInv, Sent, At
  <2>3. Row(r) = x
    BY <1>1, <1>4, <2>2, OneHome DEF HomeInv
  <2>4. ~req[r].wrote
    BY <1>1, <1>4, <2>1, <2>3 DEF DropInv
  <2> QED BY <2>1, <2>3, <2>4 DEF SweptInVain
<1> QED BY <1>1, <1>2, <1>3, <1>4 DEF Out

\* NoDangling (FileFields): no record names an object that is gone, but by re-use
\* of its key, by a failure behind its write, or by a delete that did not commit.
THEOREM FilesKept == Spec => []NoDangling
<1> QED BY Invariant, InvKeeps, PTL

-----------------------------------------------------------------------------
(* Nothing leaks: as long as all is without a fault and with If-Match, each *)
(* stored object is accounted for by a record, a background task or a       *)
(* request.                                                                 *)

Whole == /\ \A k \in Kinds : faults[k] = 0
         /\ \A r \in Requests : Sent(r) => Ask(r).op = "create" \/ Ask(r).match

\* A request that has yet to write wants the object that it brings.
Brings(r) == /\ Sent(r) /\ Uploads(Ask(r)) => req[r].want = {Key[r]}
             /\ ~req[r].wrote /\ Key[r] \in stored => Key[r] \in req[r].want

\* While the version is the one the client saw, the old keys are those of the
\* record; and a create that holds its record has found none.
Past == {"store", "match", "write", "after", "commit"}
Sees(r) ==
  /\ (req[r].ph \in Past /\ Ask(r).op # "create" /\ req[r].etag = row[Row(r)].ver)
     => req[r].old = row[Row(r)].keys
  /\ Holds(r) /\ Ask(r).op = "create" => ~row[Row(r)].live

\* A delete that removes the files of its record ahead of its commit has all of
\* them removed.
Sweeps(r) == At(r, "commit") /\ Ask(r).op = "delete" /\ Ask(r).tx => Dropped(r) \cap stored \subseteq doomed

\* The stored objects that a request answers for: one posted for it, one it
\* uploads, and those its write took off the record.
Waits(r, k) == k = Key[r] /\ Ask(r).how = "refer" /\ ~req[r].wrote
InFlight(r, k) == /\ k = Key[r] /\ req[r].tracked /\ ~req[r].wrote
                  /\ req[r].ph \in {"match", "write", "after", "commit"}
Owes(r, k) == /\ req[r].wrote /\ k \in Dropped(r)
              /\ \/ Ask(r).op = "update" /\ req[r].ph \in {"after", "respond"}
                 \/ Ask(r).op = "delete" /\ At(r, "after")
Leaves(r, k) == req[r].wrote /\ Blind(r) /\ k \in req[r].old
Answers(r, k) == Waits(r, k) \/ InFlight(r, k) \/ Owes(r, k) \/ Leaves(r, k)
Accounted(k) == \/ \E x \in Rows : k \in row[x].keys
                \/ k \in doomed
                \/ \E r \in Requests : Answers(r, k)

LeakInv == /\ \A x \in Rows : ~row[x].live => row[x].keys = {}
           /\ \A r \in Requests : Brings(r) /\ Sees(r)
           /\ Whole => /\ \A r \in Requests : Sweeps(r)
                       /\ \A k \in stored : Accounted(k)

LEMMA LeakInit == Init => LeakInv
<1> SUFFICES ASSUME Init PROVE LeakInv
  OBVIOUS
<1>1. \A r \in Requests : req[r].ph = "idle" /\ req[r].want = {}
  BY DEF Init
<1>2. \A x \in Rows : row[x].keys = Had[x] /\ (row[x].live <=> x \in Present)
  BY DEF Init
<1>3. \A k \in stored : \E x \in Rows : k \in row[x].keys
  BY DEF Init
<1>4. \A r \in Requests : Key[r] \notin stored
  BY <1>2, <1>3, KeysAssumption
<1>5. \A r \in Requests : Brings(r) /\ Sees(r) /\ Sweeps(r)
  BY <1>1, <1>4 DEF Brings, Sees, Sweeps, Sent, At, Past, Holds
<1>6. \A x \in Rows : ~row[x].live => row[x].keys = {}
  BY <1>2, KeysAssumption
<1> QED BY <1>3, <1>5, <1>6 DEF LeakInv, Accounted

\* What a step of r that writes no record leaves to show is about r itself.
LEMMA QuietLeaks ==
  ASSUME IInv, LeakInv, NEW r \in Requests, Quiet(r), faults' = faults, doomed \subseteq doomed',
         stored' = stored \/ (stored' = stored \cup {Key[r]} /\ req[r].ph \in {"post", "store"}),
         Brings(r)', Sees(r)', Whole => Sweeps(r)',
         \A k \in stored : Answers(r, k) => Answers(r, k)' \/ k \in doomed',
         Key[r] \in stored' => Key[r] \in stored \/ Answers(r, Key[r])' \/ Key[r] \in doomed'
  PROVE  LeakInv'
<1> USE DEF Quiet, Alone, SameAsk
<1>1. Whole' => Whole
  BY DEF Whole, Sent, At, Ask
<1>2. ASSUME NEW s \in Requests \ {r}
      PROVE  Brings(s)' /\ Sees(s)' /\ (Sweeps(s) => Sweeps(s)') /\ \A k : Answers(s, k) => Answers(s, k)'
  <2>1. Brings(s) /\ Sees(s) /\ PathInv(r) /\ FreshInv(r) /\ Key[s] # Key[r] /\ req'[s] = req[s]
    BY KeysAssumption DEF LeakInv, IInv
  <2>2. Brings(s)' /\ Sees(s)'
    BY <2>1 DEF Brings, Sees, Sent, At, Ask, Row, Holds
  <2>3. stored' = stored \/ Key[r] \notin req[s].old
    BY <2>1 DEF PathInv, FreshInv, At
  <2>4. Dropped(s)' = Dropped(s) /\ (Key[r] \in Dropped(s) => Key[r] \in req[s].old)
    BY <2>1 DEF Dropped, Blind, Ask, Row
  <2>5. Sweeps(s) => Sweeps(s)'
    BY <2>1, <2>3, <2>4 DEF Sweeps, At, Ask
  <2>6. \A k : Answers(s, k) => Answers(s, k)'
    BY <2>1, <2>4 DEF Answers, Waits, InFlight, Owes, Leaves, Blind, At, Ask, Row
  <2> QED BY <2>2, <2>5, <2>6
<1>3. \A x \in Rows : ~row'[x].live => row'[x].keys = {}
  BY DEF LeakInv
<1>4. ASSUME Whole', NEW k \in stored' PROVE Accounted(k)'
  <2>1. CASE k \in stored
    <3>1. Accounted(k)
      BY <1>1, <1>4, <2>1 DEF LeakInv
    <3>2. CASE \E x \in Rows : k \in row[x].keys
      BY <3>2 DEF Accounted
    <3>3. CASE k \in doomed
      BY <3>3 DEF Accounted
    <3>4. ASSUME NEW s \in Requests, Answers(s, k) PROVE Accounted(k)'
      BY <1>2, <2>1, <3>4 DEF Accounted
    <3> QED BY <3>1, <3>2, <3>3, <3>4 DEF Accounted
  <2>2. CASE k \notin stored
    BY <2>2 DEF Accounted
  <2> QED BY <2>1, <2>2
<1> QED BY <1>1, <1>2, <1>3, <1>4 DEF LeakInv

\* A fault, after which nothing is claimed of the objects.
Stops(s) == /\ SameAsk(s) /\ req'[s].wrote = req[s].wrote
            /\ req[s].ph # "idle" /\ req'[s].ph \in {"done", "failed", "gone"}
LEMMA FaultLeaks ==
  ASSUME LeakInv, row' = row, stored' = stored, NEW k \in Kinds, faults'[k] # 0,
         \A s \in Requests : req'[s] = req[s] \/ Stops(s)
  PROVE  LeakInv'
<1>1. ~Whole'
  BY DEF Whole
<1>2. ASSUME NEW s \in Requests PROVE Brings(s)' /\ Sees(s)'
  <2>1. Brings(s) /\ Sees(s)
    BY DEF LeakInv
  <2>2. CASE req'[s] = req[s]
    BY <2>1, <2>2 DEF Brings, Sees, Sent, At, Ask, Row, Holds
  <2>3. CASE Stops(s)
    BY <2>1, <2>3 DEF Stops, SameAsk, Brings, Sees, Sent, At, Ask, Row, Holds, Past
  <2> QED BY <2>2, <2>3
<1> QED BY <1>1, <1>2 DEF LeakInv

\* A write leaves nobody else with the version it had seen.
LEMMA LandsSees ==
  ASSUME IInv, LeakInv, NEW r \in Requests, Lands(r)
  PROVE  /\ \A x \in Rows : ~row'[x].live => row'[x].keys = {}
         /\ \A s \in Requests : Brings(s)' /\ Sees(s)'
<1> DEFINE x == Row(r)
<1>1. /\ TypeOK /\ PathInv(r) /\ ViewInv(r) /\ Brings(r) /\ x \in Rows /\ row[x].ver \in Nat
      /\ \A y \in Rows \ {x} : row'[y] = row[y]
      /\ row'[x].keys = req[r].want /\ row'[x].ver = row[x].ver + 1 /\ (row'[x].live <=> Ask(r).op # "delete")
  BY LandsRows DEF IInv, LeakInv
<1>2. \A y \in Rows : ~row'[y].live => row'[y].keys = {}
  <2>1. Ask(r).op = "delete" => req[r].want = {}
    BY <1>1 DEF PathInv
  <2>2. \A y \in Rows \ {x} : ~row'[y].live => row'[y].keys = {}
    BY <1>1 DEF LeakInv
  <2> QED BY <1>1, <2>1, <2>2
<1>3. ASSUME NEW s \in Requests PROVE Brings(s)'
  <2>1. Brings(s)
    BY DEF LeakInv
  <2> QED BY <2>1 DEF Brings, Lands, Alone, SameAsk, Sent, At, Ask
<1>4. ASSUME NEW s \in Requests PROVE Sees(s)'
  <2>1. Sees(s) /\ ViewInv(s) /\ req[s].etag \in Nat /\ Row(s) \in Rows
    BY DEF LeakInv, IInv, TypeOK, ReqType, AskType, Row
  <2>2. req'[s].ask = req[s].ask /\ req'[s].etag = req[s].etag /\ (s # r => req'[s] = req[s])
    BY DEF Lands, Alone, SameAsk
  <2>3. CASE Row(s) # x
    <3>1. s # r /\ req'[s] = req[s] /\ row'[Row(s)] = row[Row(s)]
      BY <1>1, <2>1, <2>2, <2>3
    <3> QED BY <2>1, <3>1 DEF Sees, At, Ask, Row, Holds
  <2>4. CASE Row(s) = x
    <3>1. Sent(s) => req[s].etag # row[x].ver + 1
      BY <1>1, <2>1, <2>4 DEF ViewInv
    <3>2. req'[s].ph \in Past => Sent(s)
      BY <2>2 DEF Past, Sent, Lands
    <3>3. ~Holds(s)'
      <4>1. CASE s = r
        BY <4>1 DEF Lands, SameAsk, Holds, At, Ask
      <4>2. CASE s # r
        <5>1. Holds(s) => Sent(s)
          BY DEF Holds, Sent, At
        <5>2. ~Holds(s)
          BY <1>1, <2>1, <2>4, <4>2, <5>1, NoneAssumption DEF ViewInv, Lands, Free
        <5> QED BY <2>2, <4>2, <5>2 DEF Holds, At, Ask
      <4> QED BY <4>1, <4>2
    <3>4. Row(s)' = x
      BY <2>2, <2>4 DEF Row
    <3> QED BY <1>1, <2>2, <3>1, <3>2, <3>3, <3>4 DEF Sees
  <2> QED BY <2>3, <2>4
<1> QED BY <1>2, <1>3, <1>4

LEMMA LandsLeaks ==
  ASSUME IInv, LeakInv, NEW r \in Requests, Lands(r), doomed' = doomed, faults' = faults,
         req'[r].ph = IF req[r].ph = "write" \/ ~Ask(r).tx THEN "after" ELSE "respond"
  PROVE  LeakInv'
<1> DEFINE x == Row(r)
<1>1. /\ TypeOK /\ PathInv(r) /\ ViewInv(r) /\ Brings(r) /\ Sees(r) /\ x \in Rows /\ Ask(r) \in AskType
      /\ \A y \in Rows \ {x} : row'[y] = row[y]
      /\ row'[x].keys = req[r].want /\ row[x].live \in BOOLEAN /\ stored' = stored
  <2>1. row[x] \in RowType /\ x \in Rows
    BY DEF IInv, TypeOK, ReqType, AskType, Row
  <2> QED BY <2>1, LandsRows DEF IInv, LeakInv, TypeOK, ReqType, Ask, RowType, Lands
<1>2. Whole' => Whole
  BY DEF Whole, Sent, At, Ask, Lands, Alone, SameAsk
<1>3. (\A y \in Rows : ~row'[y].live => row'[y].keys = {}) /\ \A s \in Requests : Brings(s)' /\ Sees(s)'
  BY LandsSees
<1>4. req'[r].ask = req[r].ask /\ req'[r].want = req[r].want /\ req'[r].old = req[r].old /\ req'[r].wrote
      /\ ~req[r].wrote /\ (Blind(r)' <=> Blind(r)) /\ Dropped(r)' = Dropped(r)
  BY DEF Lands, SameAsk, Blind, Dropped, Ask, Row
<1>5. ASSUME NEW s \in Requests \ {r} PROVE (Sweeps(s) => Sweeps(s)') /\ \A k : Answers(s, k) => Answers(s, k)'
  <2>1. req'[s] = req[s] /\ Dropped(s)' = Dropped(s)
    BY DEF Lands, Alone, Dropped, Blind, Ask, Row
  <2> QED BY <1>1, <2>1 DEF Sweeps, Answers, Waits, InFlight, Owes, Leaves, Blind, At, Ask, Row
<1>6. Sweeps(r)'
  BY <1>4 DEF Sweeps, At
<1>7. ASSUME Whole, NEW k \in stored PROVE Accounted(k)'
  <2>1. Accounted(k)
    BY <1>7 DEF LeakInv
  <2>2. CASE k \in req[r].want
    BY <1>1, <2>2 DEF Accounted
  <2>3. CASE k \in row[x].keys /\ k \notin req[r].want
    <3>1. Ask(r).op # "create"
      <4>1. Ask(r).op = "create" => ~row[x].live
        <5>1. CASE req[r].ph = "write"
          BY <1>1, <5>1 DEF Found, Lands
        <5>2. CASE req[r].ph = "commit"
          BY <1>1, <5>2 DEF Sees, Holds, At
        <5> QED BY <5>1, <5>2 DEF Lands
      <4> QED BY <1>1, <2>3, <4>1 DEF LeakInv
    <3>2. Ask(r).match /\ req[r].ph = "commit"
      BY <1>7, <3>1 DEF Whole, Sent, At, InTx, Lands
    <3>3. req[r].old = row[x].keys
      BY <1>1, <3>1, <3>2 DEF Sees, ViewInv, Holds, Sent, At, Past
    <3>4. CASE Blind(r)
      <4>1. Leaves(r, k)'
        BY <1>4, <2>3, <3>3, <3>4 DEF Leaves
      <4> QED BY <4>1 DEF Accounted, Answers
    <3>5. CASE ~Blind(r)
      <4>1. k \in Dropped(r)
        BY <2>3, <3>3, <3>5 DEF Dropped
      <4>2. CASE Ask(r).op = "delete" /\ Ask(r).tx
        BY <1>7, <3>2, <4>1, <4>2 DEF LeakInv, Sweeps, Accounted, At
      <4>3. CASE Ask(r).op = "update" \/ ~Ask(r).tx
        <5>1. req'[r].ph \in {"after", "respond"} /\ (~Ask(r).tx => req'[r].ph = "after")
          OBVIOUS
        <5>2. Ask(r).op \in {"update", "delete"}
          BY <1>1, <3>1 DEF AskType
        <5>3. Owes(r, k)'
          BY <1>4, <4>1, <4>3, <5>1, <5>2 DEF Owes, At, Ask
        <5> QED BY <5>3 DEF Accounted, Answers
      <4> QED BY <1>1, <3>1, <4>2, <4>3 DEF AskType
    <3> QED BY <3>4, <3>5
  <2>4. CASE \E y \in Rows \ {x} : k \in row[y].keys
    BY <1>1, <2>4 DEF Accounted
  <2>5. CASE k \in doomed
    BY <2>5 DEF Accounted
  <2>6. CASE \E s \in Requests \ {r} : Answers(s, k)
    BY <1>5, <2>6 DEF Accounted
  <2>7. CASE Answers(r, k)
    <3>1. k = Key[r]
      BY <1>4, <2>7 DEF Answers, Waits, InFlight, Owes, Leaves
    <3> QED BY <1>1, <1>4, <1>7, <2>2, <3>1 DEF Brings
  <2> QED BY <2>1, <2>2, <2>3, <2>4, <2>5, <2>6, <2>7 DEF Accounted
<1>8. Whole' => (\A s \in Requests : Sweeps(s)') /\ \A k \in stored' : Accounted(k)'
  BY <1>1, <1>2, <1>5, <1>6, <1>7 DEF LeakInv
<1> QED BY <1>3, <1>8 DEF LeakInv

\* What the client's request is, and the key it brings, is settled when it is sent.
LEMMA SendLeaks ==
  ASSUME IInv, LeakInv, NEW r \in Requests, NEW a \in Asks, NEW names \in SUBSET Keys, Send(r, a, names)
  PROVE  LeakInv'
<1> DEFINE w == IF Uploads(a) THEN {Key[r]} ELSE names
           l == names \ ({Key[r]} \cup IF a.match THEN row[a.row].keys ELSE {})
           p == IF Key[r] \in names THEN "post" ELSE First(a)
           e == row[a.row].ver
<1>1. /\ req' = [req EXCEPT ![r] = [@ EXCEPT !.ask = a, !.etag = e, !.want = w, !.loose = l, !.ph = p]]
      /\ row' = row /\ stored' = stored /\ doomed' = doomed /\ faults' = faults
      /\ req[r].ph = "idle" /\ PathInv(r)
  BY DEF Send, At, IInv
<1>2. /\ p \in {"post", "store", "stat", "read"} /\ (p = "store" => a.op = "create")
      /\ (Uploads(a) => w = {Key[r]})
  BY DEF First
<1> HIDE DEF w, l, p, e
<1>3. /\ Alone(r) /\ req'[r].ask = a /\ req'[r].want = w /\ req'[r].ph = p
      /\ req'[r].wrote = req[r].wrote /\ req'[r].tracked = req[r].tracked
  <2>1. req \in [Requests -> ReqType]
    BY DEF IInv, TypeOK
  <2> QED BY <1>1, <2>1 DEF Alone, ReqType
<1>4. ~req[r].wrote /\ ~req[r].tracked /\ Key[r] \notin stored
  BY <1>1 DEF PathInv, At
<1>5. Brings(r)' /\ Sees(r)' /\ Sweeps(r)'
  BY <1>1, <1>2, <1>3, <1>4 DEF Brings, Sees, Sweeps, At, Ask, Holds, Past, Sent
<1>6. Whole' => Whole
  BY <1>1, <1>3 DEF Whole, Alone, Sent, At, Ask
<1>7. ASSUME NEW s \in Requests \ {r}
      PROVE  Brings(s)' /\ Sees(s)' /\ (Sweeps(s) => Sweeps(s)') /\ \A k : Answers(s, k) => Answers(s, k)'
  <2>1. Brings(s) /\ Sees(s) /\ req'[s] = req[s]
    BY <1>3 DEF LeakInv, Alone
  <2> QED BY <1>1, <2>1 DEF Brings, Sees, Sweeps, Sent, At, Ask, Row, Holds, Answers, Waits, InFlight, Owes, Leaves,
                           Dropped, Blind
<1>8. ASSUME Whole, NEW k \in stored PROVE Accounted(k)'
  <2>1. Accounted(k) /\ ~Answers(r, k)
    BY <1>4, <1>8 DEF LeakInv, Answers, Waits, InFlight, Owes, Leaves
  <2> QED BY <1>1, <1>7, <2>1 DEF Accounted
<1>9. \A x \in Rows : ~row'[x].live => row'[x].keys = {}
  BY <1>1 DEF LeakInv
<1>10. Whole' => (\A s \in Requests : Sweeps(s)') /\ \A k \in stored' : Accounted(k)'
  BY <1>1, <1>5, <1>6, <1>7, <1>8 DEF LeakInv
<1> QED BY <1>5, <1>7, <1>9, <1>10 DEF LeakInv

LEMMA PostFileLeaks == ASSUME IInv, LeakInv, NEW r \in Requests, PostFile(r) PROVE LeakInv'
<1>1. /\ TypeOK /\ PathInv(r) /\ Brings(r) /\ req[r].ph = "post" /\ Goes(r, First(Ask(r)))
      /\ stored' = stored \cup {Key[r]} /\ UNCHANGED <<row, doomed, lock, faults>>
  BY DEF IInv, LeakInv, PostFile, At
<1>2. /\ Key[r] \in req[r].want /\ ~req[r].wrote /\ Ask(r).how = "refer" /\ First(Ask(r)) = "stat"
      /\ "stat" \in Phases \ {"idle", "post"}
  BY <1>1 DEF PathInv, At, First, Uploads, Phases
<1>3. Quiet(r) /\ req'[r].ph = "stat" /\ req'[r].tracked = req[r].tracked
  BY <1>1, <1>2, GoesQuiet
<1>4. Brings(r)' /\ Sees(r)' /\ Sweeps(r)'
  BY <1>1, <1>2, <1>3 DEF Quiet, Brings, Sees, Sweeps, SameAsk, Sent, At, Ask, Past, Holds, Uploads
<1>5. (\A k : Answers(r, k) => Answers(r, k)') /\ Answers(r, Key[r])'
  BY <1>1, <1>2, <1>3 DEF Quiet, Answers, Waits, InFlight, Owes, Leaves, SameAsk, Ask
<1> QED BY <1>1, <1>3, <1>4, <1>5, QuietLeaks

LEMMA StatLeaks == ASSUME IInv, LeakInv, NEW r \in Requests, Stat(r) PROVE LeakInv'
<1> DEFINE p == IF Ask(r).op = "create" THEN "write" ELSE "read"
<1>1. /\ TypeOK /\ PathInv(r) /\ Brings(r) /\ req[r].ph = "stat" /\ Goes(r, p)
      /\ UNCHANGED <<row, stored, doomed, lock, faults>>
  BY DEF IInv, LeakInv, Stat, At
<1>2. /\ ~req[r].wrote /\ p \in {"write", "read"} /\ p \in Phases \ {"idle", "post"}
      /\ (p = "write" => Ask(r).op = "create" /\ ~Ask(r).match)
  BY <1>1 DEF PathInv, At, Phases
<1> HIDE DEF p
<1>3. Quiet(r) /\ req'[r].ph = p /\ req'[r].tracked = req[r].tracked
  BY <1>1, <1>2, GoesQuiet
<1>4. Brings(r)' /\ Sees(r)' /\ Sweeps(r)'
  BY <1>1, <1>2, <1>3 DEF Quiet, Brings, Sees, Sweeps, SameAsk, Sent, At, Ask, Past, Holds
<1>5. \A k : Answers(r, k) => Answers(r, k)'
  BY <1>1, <1>2, <1>3 DEF Quiet, Answers, Waits, InFlight, Owes, Leaves, SameAsk, Ask
<1> QED BY <1>1, <1>3, <1>4, <1>5, QuietLeaks

LEMMA ReadOldLeaks == ASSUME IInv, LeakInv, NEW r \in Requests, ReadOld(r) PROVE LeakInv'
<1> DEFINE p == IF Uploads(Ask(r)) THEN "store" ELSE Db(Ask(r))
<1>1. /\ TypeOK /\ PathInv(r) /\ Brings(r) /\ req[r].ph = "read" /\ UNCHANGED <<row, stored, doomed, lock, faults>>
      /\ req' = [req EXCEPT ![r] = [@ EXCEPT !.old = row[Row(r)].keys, !.ph = p]]
  BY DEF IInv, LeakInv, ReadOld, At
<1>2. ~req[r].wrote /\ ~req[r].swept /\ p \in {"store", "match", "write"} /\ (p = "write" => ~Ask(r).match)
  BY <1>1 DEF PathInv, At, Db
<1> HIDE DEF p
<1>3. /\ Alone(r) /\ SameAsk(r) /\ req'[r].ph = p /\ req'[r].old = row[Row(r)].keys
      /\ req'[r].tracked = req[r].tracked /\ req'[r].wrote = req[r].wrote /\ req'[r].swept = req[r].swept
  BY <1>1 DEF Alone, SameAsk, TypeOK, ReqType
<1>4. Quiet(r)
  BY <1>1, <1>2, <1>3 DEF Quiet
<1>5. Brings(r)' /\ Sees(r)' /\ Sweeps(r)'
  BY <1>1, <1>2, <1>3 DEF Brings, Sees, Sweeps, SameAsk, Sent, At, Ask, Row, Past, Holds
<1>6. \A k : Answers(r, k) => Answers(r, k)'
  BY <1>1, <1>2, <1>3 DEF Answers, Waits, InFlight, Owes, Leaves, SameAsk, Ask
<1> QED BY <1>1, <1>4, <1>5, <1>6, QuietLeaks

LEMMA StoreLeaks == ASSUME IInv, LeakInv, NEW r \in Requests, Store(r) PROVE LeakInv'
<1> DEFINE p == Db(Ask(r))
<1>1. /\ TypeOK /\ PathInv(r) /\ Brings(r) /\ Sees(r) /\ req[r].ph = "store" /\ UNCHANGED <<row, doomed, lock, faults>>
      /\ stored' = stored \cup {Key[r]}
      /\ req' = [req EXCEPT ![r] = [@ EXCEPT !.tracked = TRUE, !.ph = p]]
  BY DEF IInv, LeakInv, Store, At
<1>2. ~req[r].wrote /\ Uploads(Ask(r)) /\ p \in {"match", "write"} /\ (p = "write" => ~Ask(r).match)
  BY <1>1 DEF PathInv, At, Db
<1> HIDE DEF p
<1>3. /\ Alone(r) /\ SameAsk(r) /\ req'[r].ph = p /\ req'[r].old = req[r].old
      /\ req'[r].tracked /\ req'[r].wrote = req[r].wrote /\ req'[r].swept = req[r].swept
  BY <1>1 DEF Alone, SameAsk, TypeOK, ReqType
<1>4. Quiet(r)
  BY <1>1, <1>2, <1>3 DEF Quiet
<1>5. Brings(r)' /\ Sees(r)' /\ Sweeps(r)'
  BY <1>1, <1>2, <1>3 DEF Brings, Sees, Sweeps, SameAsk, Sent, At, Ask, Row, Past, Holds, Uploads
<1>6. (\A k : Answers(r, k) => Answers(r, k)') /\ Answers(r, Key[r])'
  BY <1>1, <1>2, <1>3 DEF Answers, Waits, InFlight, Owes, Leaves, SameAsk, Ask
<1> QED BY <1>1, <1>4, <1>5, <1>6, QuietLeaks

LEMMA StreamBreaksLeaks == ASSUME IInv, LeakInv, NEW r \in Requests, StreamBreaks(r) PROVE LeakInv'
<1>1. /\ TypeOK /\ PathInv(r) /\ Brings(r) /\ req[r].ph = "store" /\ UNCHANGED <<row, lock, faults>>
      /\ stored' = stored \cup {Key[r]} /\ doomed' = doomed \cup {Key[r]} /\ Goes(r, "done")
  BY DEF IInv, LeakInv, StreamBreaks, At
<1>2. ~req[r].wrote /\ Uploads(Ask(r)) /\ "done" \in Phases \ {"idle", "post"}
  BY <1>1 DEF PathInv, At, Phases
<1>3. Quiet(r) /\ req'[r].ph = "done" /\ req'[r].tracked = req[r].tracked
  BY <1>1, <1>2, GoesQuiet
<1>4. Brings(r)' /\ Sees(r)' /\ Sweeps(r)'
  BY <1>1, <1>2, <1>3 DEF Quiet, Brings, Sees, Sweeps, SameAsk, Sent, At, Ask, Row, Past, Holds, Uploads
<1>5. \A k : Answers(r, k) => Answers(r, k)' \/ k \in doomed'
  BY <1>1, <1>2, <1>3 DEF Quiet, Answers, Waits, InFlight, Owes, Leaves, SameAsk, Ask
<1> QED BY <1>1, <1>3, <1>4, <1>5, QuietLeaks

LEMMA MatchLeaks == ASSUME IInv, LeakInv, NEW r \in Requests, Match(r) PROVE LeakInv'
<1>1. /\ TypeOK /\ PathInv(r) /\ Brings(r) /\ Sees(r) /\ req[r].ph = "match" /\ Goes(r, "write")
      /\ UNCHANGED <<row, stored, doomed, faults>>
  BY DEF IInv, LeakInv, Match, At
<1>2. /\ ~req[r].wrote /\ "write" \in Phases \ {"idle", "post"} /\ row[Row(r)].live
      /\ Ask(r).match => Ask(r).op # "create"
  BY <1>1 DEF PathInv, At, Phases, Match
<1>3. Quiet(r) /\ req'[r].ph = "write" /\ req'[r].tracked = req[r].tracked /\ req'[r].old = req[r].old
  BY <1>1, <1>2, GoesQuiet
<1>4. Brings(r)' /\ Sees(r)' /\ Sweeps(r)'
  BY <1>1, <1>2, <1>3 DEF Quiet, Brings, Sees, Sweeps, SameAsk, Sent, At, Ask, Row, Past, Holds
<1>5. \A k : Answers(r, k) => Answers(r, k)'
  BY <1>1, <1>2, <1>3 DEF Quiet, Answers, Waits, InFlight, Owes, Leaves, SameAsk, Ask
<1> QED BY <1>1, <1>3, <1>4, <1>5, QuietLeaks

LEMMA WriteInTxLeaks == ASSUME IInv, LeakInv, NEW r \in Requests, WriteInTx(r) PROVE LeakInv'
<1> DEFINE p == IF Ask(r).tx THEN "after" ELSE "commit"
<1>1. /\ TypeOK /\ PathInv(r) /\ Brings(r) /\ Sees(r) /\ req[r].ph = "write" /\ Goes(r, p) /\ Found(r)
      /\ UNCHANGED <<row, stored, doomed, faults>>
  BY DEF IInv, LeakInv, WriteInTx, At
<1>2. ~req[r].wrote /\ p \in {"after", "commit"} /\ p \in Phases \ {"idle", "post"} /\ (p = "commit" => ~Ask(r).tx)
  BY <1>1 DEF PathInv, At, Phases
<1> HIDE DEF p
<1>3. Quiet(r) /\ req'[r].ph = p /\ req'[r].tracked = req[r].tracked /\ req'[r].old = req[r].old
  BY <1>1, <1>2, GoesQuiet
<1>4. Brings(r)' /\ Sees(r)' /\ Sweeps(r)'
  <2>1. Ask(r).op = "create" => ~row[Row(r)].live
    <3>1. row[Row(r)].live \in BOOLEAN
      BY <1>1 DEF TypeOK, ReqType, AskType, RowType, Row
    <3> QED BY <1>1, <3>1 DEF Found
  <2> QED BY <1>1, <1>2, <1>3, <2>1 DEF Quiet, Brings, Sees, Sweeps, SameAsk, Sent, At, Ask, Row, Past, Holds
<1>5. \A k : Answers(r, k) => Answers(r, k)'
  BY <1>1, <1>2, <1>3 DEF Quiet, Answers, Waits, InFlight, Owes, Leaves, SameAsk, Ask
<1> QED BY <1>1, <1>3, <1>4, <1>5, QuietLeaks

LEMMA AfterDBLeaks == ASSUME IInv, LeakInv, NEW r \in Requests, AfterDB(r) PROVE LeakInv'
<1> DEFINE p == After(Ask(r))
           d == Ask(r).op = "delete"
<1>1. /\ TypeOK /\ PathInv(r) /\ Brings(r) /\ Sees(r) /\ req[r].ph = "after" /\ UNCHANGED <<row, stored, lock, faults>>
      /\ doomed' = IF d THEN doomed \cup Dropped(r) ELSE doomed
      /\ IF d THEN req' = [req EXCEPT ![r] = [@ EXCEPT !.swept = TRUE, !.ph = p]] ELSE Goes(r, p)
  BY DEF IInv, LeakInv, AfterDB, At
<1>2. /\ ~req[r].swept /\ (req[r].wrote <=> ~Ask(r).tx)
      /\ p = (IF Ask(r).tx THEN "commit" ELSE "respond") /\ p \in Phases \ {"idle", "post"}
      /\ Ask(r).tx \in BOOLEAN /\ d \in BOOLEAN /\ Ask(r).op \in {"create", "update", "delete"}
  BY <1>1 DEF PathInv, At, Phases, After, TypeOK, ReqType, AskType, Ask
<1> HIDE DEF p
<1>3. /\ Alone(r) /\ SameAsk(r) /\ req'[r].ph = p /\ req'[r].old = req[r].old /\ req'[r].wrote = req[r].wrote
      /\ req'[r].tracked = req[r].tracked /\ Quiet(r)
  <2>1. CASE d
    <3>1. req' = [req EXCEPT ![r] = [@ EXCEPT !.swept = TRUE, !.ph = p]] /\ req \in [Requests -> ReqType]
      BY <1>1, <2>1 DEF TypeOK
    <3>2. /\ Alone(r) /\ SameAsk(r) /\ req'[r].ph = p /\ req'[r].old = req[r].old /\ req'[r].wrote = req[r].wrote
          /\ req'[r].tracked = req[r].tracked
      BY <3>1 DEF Alone, SameAsk, ReqType
    <3> QED BY <1>1, <1>2, <3>2 DEF Quiet
  <2>2. CASE ~d
    <3>1. Goes(r, p)
      BY <1>1, <2>2
    <3> QED BY <1>1, <1>2, <3>1, GoesQuiet DEF Quiet
  <2> QED BY <2>1, <2>2
<1>4. Dropped(r)' = Dropped(r) /\ (Blind(r)' <=> Blind(r)) /\ req'[r].ask = req[r].ask
  BY <1>3 DEF Dropped, Blind, SameAsk, Row, Ask
<1>5. Sweeps(r)'
  BY <1>1, <1>4 DEF Sweeps, Ask
<1>6. Brings(r)' /\ Sees(r)'
  <2>1. Ask(r).tx => Holds(r)
    BY <1>1 DEF Holds, At
  <2> QED BY <1>1, <1>2, <1>3, <2>1 DEF Brings, Sees, SameAsk, Sent, At, Ask, Row, Past, Holds
<1>7. \A k : Answers(r, k) => Answers(r, k)' \/ k \in doomed'
  BY <1>1, <1>2, <1>3, <1>4 DEF Answers, Waits, InFlight, Owes, Leaves, Ask, At
<1> QED BY <1>1, <1>3, <1>5, <1>6, <1>7, QuietLeaks

LEMMA RespondLeaks == ASSUME IInv, LeakInv, NEW r \in Requests, Respond(r) PROVE LeakInv'
<1>1. /\ TypeOK /\ PathInv(r) /\ Brings(r) /\ req[r].ph = "respond" /\ Goes(r, "done")
      /\ UNCHANGED <<row, stored, lock, faults>>
      /\ doomed' = doomed \cup (IF Ask(r).op = "update" THEN Dropped(r) ELSE {})
  BY DEF IInv, LeakInv, Respond, At
<1>2. req[r].wrote /\ "done" \in Phases \ {"idle", "post"}
  BY <1>1 DEF PathInv, At, Phases
<1>3. Quiet(r) /\ req'[r].ph = "done" /\ req'[r].tracked = req[r].tracked /\ req'[r].old = req[r].old
  BY <1>1, <1>2, GoesQuiet
<1>4. Brings(r)' /\ Sees(r)' /\ Sweeps(r)'
  BY <1>1, <1>2, <1>3 DEF Quiet, Brings, Sees, Sweeps, SameAsk, Sent, At, Ask, Past, Holds
<1>5. (Blind(r)' <=> Blind(r)) /\ req'[r].wrote
  BY <1>2, <1>3 DEF Quiet, Blind, SameAsk, Row, Ask
<1>6. \A k : Answers(r, k) => Answers(r, k)' \/ k \in doomed'
  BY <1>1, <1>2, <1>3, <1>5 DEF Answers, Waits, InFlight, Owes, Leaves, At
<1> QED BY <1>1, <1>3, <1>4, <1>6, QuietLeaks

LEMMA RefuseLeaks == ASSUME IInv, LeakInv, NEW r \in Requests, Refuse(r) PROVE LeakInv'
<1>1. /\ TypeOK /\ PathInv(r) /\ Brings(r) /\ req[r].ph \in {"post", "stat", "read", "store", "match", "write"}
      /\ Goes(r, "done") /\ UNCHANGED <<row, stored, faults>> /\ doomed' = doomed \cup Cleanup(r)
  BY DEF IInv, LeakInv, Refuse
<1>2. ~req[r].wrote /\ "done" \in Phases \ {"idle", "post"}
  BY <1>1 DEF PathInv, At, Phases
<1>3. Quiet(r) /\ req'[r].ph = "done" /\ req'[r].tracked = req[r].tracked
  BY <1>1, <1>2, GoesQuiet
<1>4. Brings(r)' /\ Sees(r)' /\ Sweeps(r)'
  BY <1>1, <1>3 DEF Quiet, Brings, Sees, Sweeps, SameAsk, Sent, At, Ask, Past, Holds
<1>5. \A k : Answers(r, k) => Answers(r, k)' \/ k \in doomed'
  BY <1>1, <1>2, <1>3 DEF Quiet, Answers, Waits, InFlight, Owes, Leaves, SameAsk, Ask, Cleanup
<1> QED BY <1>1, <1>3, <1>4, <1>5, QuietLeaks

LEMMA WriteBareLeaks == ASSUME IInv, LeakInv, NEW r \in Requests, WriteBare(r) PROVE LeakInv'
<1>1. req[r].ph = "write" /\ faults' = faults
  BY DEF WriteBare, At
<1> QED BY <1>1, WriteBareLands, LandsLeaks

LEMMA CommitLeaks == ASSUME IInv, LeakInv, NEW r \in Requests, Commit(r) \/ AnswerLost(r) PROVE LeakInv'
<1>1. Lands(r) /\ req[r].ph = "commit" /\ stored' = stored
  BY CommitLands DEF Commit, AnswerLost, At, Lands
<1>2. CASE AnswerLost(r)
  <2>1. "commit" \in Kinds /\ faults'["commit"] # 0
    BY <1>2, FaultTypes DEF AnswerLost, Kinds, IInv
  <2> QED BY <1>1, <2>1, LandsSees DEF LeakInv, Whole
<1>3. CASE ~AnswerLost(r)
  <2>1. Commit(r) /\ req'[r].ph = (IF Ask(r).tx THEN "respond" ELSE "after")
    BY <1>3, CommitLands
  <2>2. doomed' = doomed /\ faults' = faults
    BY <2>1 DEF Commit
  <2>3. req'[r].ph = IF req[r].ph = "write" \/ ~Ask(r).tx THEN "after" ELSE "respond"
    BY <1>1, <2>1
  <2> QED BY <1>1, <2>2, <2>3, LandsLeaks
<1> QED BY <1>2, <1>3

LEMMA LostLeaks ==
  ASSUME IInv, LeakInv, NEW r \in Requests, CommitLost(r) \/ FailsLate(r) \/ Panic(r) PROVE LeakInv'
<1>1. TypeOK /\ {"done", "failed", "gone"} \subseteq Phases \ {"idle", "post"}
  BY DEF IInv, Phases
<1>2. PICK k \in Kinds : Fault(k)
  BY DEF CommitLost, FailsLate, Panic, Kinds
<1>3. PICK p \in {"done", "failed", "gone"} : Goes(r, p)
  BY DEF CommitLost, FailsLate, Panic
<1>4. row' = row /\ stored' = stored /\ req[r].ph \notin {"idle", "done", "failed"}
  BY DEF CommitLost, FailsLate, Panic, At
<1>5. Quiet(r) /\ req'[r].ph = p
  BY <1>1, <1>3, <1>4, GoesQuiet
<1>6. \A s \in Requests : req'[s] = req[s] \/ Stops(s)
  BY <1>4, <1>5 DEF Quiet, Alone, Stops
<1> QED BY <1>1, <1>2, <1>4, <1>6, FaultTypes, FaultLeaks

LEMMA CrashLeaks == ASSUME IInv, LeakInv, Crash PROVE LeakInv'
<1>1. TypeOK /\ "crash" \in Kinds /\ Fault("crash") /\ row' = row /\ stored' = stored
  BY DEF IInv, Kinds, Crash
<1>2. ASSUME NEW s \in Requests PROVE req'[s] = req[s] \/ Stops(s)
  <2>1. req'[s] = IF req[s].ph \in {"idle", "done", "failed"} THEN req[s] ELSE [req[s] EXCEPT !.ph = "gone"]
    BY DEF Crash
  <2>2. req[s] \in ReqType
    BY <1>1 DEF TypeOK
  <2> QED BY <2>1, <2>2 DEF Stops, SameAsk, ReqType
<1> QED BY <1>1, <1>2, FaultTypes, FaultLeaks

LEMMA TaskLeaks == ASSUME IInv, LeakInv, NEW k \in Keys, Remove(k) \/ RemoveFails(k) PROVE LeakInv'
<1>1. CASE Remove(k)
  <2>1. stored' = stored \ {k} /\ doomed' = doomed \ {k} /\ UNCHANGED <<row, lock, req, faults>>
    BY <1>1 DEF Remove
  <2>2. \A s \in Requests : Brings(s)' /\ Sees(s)' /\ (Sweeps(s) => Sweeps(s)')
    BY <2>1 DEF LeakInv, Brings, Sees, Sweeps, Sent, At, Ask, Row, Holds, Dropped, Blind
  <2>3. \A j \in stored' : Accounted(j) => Accounted(j)'
    BY <2>1 DEF Accounted, Answers, Waits, InFlight, Owes, Leaves, Dropped, Blind, At, Ask, Row
  <2> QED BY <2>1, <2>2, <2>3 DEF LeakInv, Whole, Sent, At, Ask
<1>2. CASE RemoveFails(k)
  <2>1. TypeOK /\ Fault("delete") /\ "delete" \in Kinds /\ row' = row /\ stored' = stored /\ req' = req
    BY <1>2 DEF RemoveFails, Kinds, IInv
  <2> QED BY <2>1, FaultTypes, FaultLeaks
<1> QED BY <1>1, <1>2

LEMMA LeakNext == IInv /\ LeakInv /\ [Next]_vars => LeakInv'
<1> SUFFICES ASSUME IInv, LeakInv, [Next]_vars PROVE LeakInv'
  OBVIOUS
<1>1. ASSUME NEW r \in Requests, Step(r) PROVE LeakInv'
  <2>1. CASE \E a \in Asks, names \in SUBSET Keys : Send(r, a, names)
    BY <2>1, SendLeaks
  <2>2. CASE PostFile(r) \/ Stat(r) \/ ReadOld(r) \/ Store(r) \/ StreamBreaks(r)
    BY <2>2, PostFileLeaks, StatLeaks, ReadOldLeaks, StoreLeaks, StreamBreaksLeaks
  <2>3. CASE Match(r) \/ WriteBare(r) \/ WriteInTx(r) \/ Commit(r) \/ AnswerLost(r)
    BY <2>3, MatchLeaks, WriteBareLeaks, WriteInTxLeaks, CommitLeaks
  <2>4. CASE AfterDB(r) \/ Respond(r) \/ Refuse(r)
    BY <2>4, AfterDBLeaks, RespondLeaks, RefuseLeaks
  <2>5. CASE CommitLost(r) \/ FailsLate(r) \/ Panic(r)
    BY <2>5, LostLeaks
  <2> QED BY <1>1, <2>1, <2>2, <2>3, <2>4, <2>5 DEF Step
<1>2. CASE UNCHANGED vars
  <2>1. row' = row /\ stored' = stored /\ doomed' = doomed /\ lock' = lock /\ req' = req /\ faults' = faults
    BY <1>2 DEF vars
  <2> QED BY <2>1 DEF LeakInv, Whole, Brings, Sees, Sweeps, Accounted, Answers, Waits, InFlight, Owes, Leaves,
                      Dropped, Blind, Sent, At, Ask, Row, Holds
<1> QED BY <1>1, <1>2, TaskLeaks, CrashLeaks DEF Next

\* NoOrphans (FileFields): with If-Match on every update and delete, and without a
\* fault, each stored object is held by a record, about to be removed, posted for a
\* request that did not write, or was taken off by a write that has nothing removed.
THEOREM NothingLeaks == Spec => []NoOrphans
<1>1. LeakInv => NoOrphans
  <2> SUFFICES ASSUME LeakInv, Quiescent, NEW k \in stored
               PROVE  (\E x \in Rows : k \in row[x].keys) \/ k \in doomed \/ Unclaimed(k) \/ Left(k)
    BY DEF NoOrphans
  <2>1. Whole
    BY DEF Quiescent, Whole
  <2>2. Accounted(k)
    BY <2>1 DEF LeakInv
  <2>3. \A r \in Requests : Answers(r, k) => Waits(r, k) \/ Leaves(r, k)
    BY DEF Quiescent, Answers, InFlight, Owes, At
  <2> QED BY <2>2, <2>3 DEF Accounted, Waits, Leaves, Unclaimed, Left
<1> QED BY <1>1, Invariant, LeakInit, LeakNext, PTL DEF Spec
=============================================================================
