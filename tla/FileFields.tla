----------------------------- MODULE FileFields -----------------------------
(***************************************************************************)
(* The objects behind mfx:"file,auto_delete" fields: requests that upload, *)
(* refer to, replace and clear files (steps.go, stream_upload.go), the     *)
(* record deletes that take their files along (server.go), the roll-back   *)
(* of stored objects after a failed request (handler.go, context.go) and   *)
(* the background tasks that remove objects after the answer.              *)
(*                                                                         *)
(* A row is reduced to the set of keys its file field holds: one key, or   *)
(* many for a FileKeys list.  Key[r] is the key that request r brings: the *)
(* fresh key of its upload, or the key of an object its client sent to     *)
(* POST /files beforehand.  Objects are never overwritten: keys carry a    *)
(* UUID.  A client may also name the keys of other records, and those that *)
(* other clients posted.                                                   *)
(***************************************************************************)
EXTENDS Naturals, FiniteSets

CONSTANTS Rows,       \* records of the model
          Present,    \* those that exist at first
          Lists,      \* those whose file field is a FileKeys list
          Nullable,   \* those whose file field is a *string, which may be null
          Requests,   \* requests, each made once
          Keys,       \* storage keys
          Key,        \* the key a request brings
          Had,        \* the keys each record holds at first
          Asks,       \* what a request may ask
          None,       \* no request
          MaxFaults   \* bound on crashes, panics, lost deletes, late failures
                      \* and failed commits together

\* Fresh keys are unique: no two requests bring one key, none brings a key in
\* use.
ASSUME KeysAssumption ==
  /\ Key \in [Requests -> Keys]
  /\ Had \in [Rows -> SUBSET Keys]
  /\ \A r, s \in Requests : Key[r] = Key[s] => r = s
  /\ \A r \in Requests, x \in Rows : Key[r] \notin Had[x]
  /\ \A x \in Rows \ Present : Had[x] = {}
ASSUME NoneAssumption == None \notin Requests
ASSUME ListsAssumption == Lists \subseteq Rows /\ Nullable \subseteq Rows \ Lists
ASSUME FaultsAssumption == MaxFaults \in Nat

\* op: the operation; how: a multipart upload (streamed to storage as it is
\* read, or buffered first), keys in the body, or null; match: with If-Match;
\* tx: on a model registered with WithTransaction.  The Validate step refuses the
\* null of a field whose type is no pointer, so that of a list (steps.go:568-576,
\* 441-443), and processFileFields the upload of one.
AskType == [op : {"create", "update", "delete"},
            how : {"stream", "upload", "refer", "clear"},
            row : Rows, match : BOOLEAN, tx : BOOLEAN]
ASSUME AsksAssumption ==
  /\ Asks \subseteq AskType /\ Asks # {}
  /\ \A a \in Asks : /\ a.how \in {"stream", "upload"} => a.row \notin Lists
                     /\ a.op = "create" => ~a.match
                     /\ a.op = "delete" => a.how = "clear"
                     /\ a.op = "update" /\ a.how = "clear" => a.row \in Nullable

VARIABLES row,      \* the committed records: live, the keys held, a version
          stored,   \* the keys of the objects in storage
          doomed,   \* the keys background tasks are about to delete
          lock,     \* the request whose transaction holds a record's lock
          req,      \* the requests' goroutines
          faults    \* how often each kind of fault happened

vars == <<row, stored, doomed, lock, req, faults>>

Kinds == {"crash", "panic", "delete", "late", "commit"}
Phases == {"idle", "post", "stat", "read", "store", "match", "write",
           "after", "commit", "respond", "done", "failed", "gone"}
RowType == [live : BOOLEAN, keys : SUBSET Keys, ver : Nat]
ReqType == [ph : Phases, ask : AskType, want : SUBSET Keys, etag : Nat,
            loose : SUBSET Keys, old : SUBSET Keys, tracked : BOOLEAN,
            swept : BOOLEAN, wrote : BOOLEAN]

TypeOK == /\ row \in [Rows -> RowType]
          /\ stored \subseteq Keys
          /\ doomed \subseteq Keys
          /\ lock \in [Rows -> Requests \cup {None}]
          /\ req \in [Requests -> ReqType]
          /\ faults \in [Kinds -> Nat]

Init ==
  /\ row = [x \in Rows |-> [live |-> x \in Present, keys |-> Had[x], ver |-> 0]]
  /\ stored = UNION {row[x].keys : x \in Rows}
  /\ doomed = {}
  /\ lock = [x \in Rows |-> None]
  /\ req = [r \in Requests |->
              [ph |-> "idle", ask |-> CHOOSE a \in Asks : TRUE, want |-> {},
               etag |-> 0, loose |-> {}, old |-> {}, tracked |-> FALSE,
               swept |-> FALSE, wrote |-> FALSE]]
  /\ faults = [k \in Kinds |-> 0]

-----------------------------------------------------------------------------
At(r, p) == req[r].ph = p
Ask(r) == req[r].ask
Row(r) == req[r].ask.row
Uploads(a) == a.how \in {"stream", "upload"}
InTx(a) == a.tx \/ a.match
Goes(r, p) == req' = [req EXCEPT ![r].ph = p]
Fault(k) == /\ faults["crash"] + faults["panic"] + faults["delete"]
                 + faults["late"] + faults["commit"] < MaxFaults
            /\ faults' = [faults EXCEPT ![k] = @ + 1]

\* The phase in which a request first meets files or the database.
First(a) == CASE a.op = "create" /\ Uploads(a) -> "store"
              [] a.how = "refer" -> "stat"
              [] OTHER -> "read"
Db(a) == IF a.match THEN "match" ELSE "write"
After(a) == IF a.tx THEN "commit" ELSE "respond"

\* The keys a client may know: those that records hold, and those of objects
\* that were posted.
Posted(s) == req[s].ph # "idle" /\ Ask(s).how = "refer" /\ Key[s] \in stored
Known == (UNION {row[x].keys : x \in Rows})
           \cup {Key[s] : s \in {t \in Requests : Posted(t)}}

\* The client's side: it has read the records, and names keys it knows, or that
\* of an object it is about to post.  A key is named loosely when neither its
\* object is the client's own nor If-Match ensures that the record still holds it.
\* No name at all is the empty list, or the empty string.
Send(r, a, names) ==
  /\ At(r, "idle")
  /\ names \subseteq Known \cup {Key[r]}
  /\ a.how # "refer" => names = {}
  /\ a.row \notin Lists => Cardinality(names) <= 1
  /\ req' = [req EXCEPT ![r] = [@ EXCEPT
               !.ask = a, !.etag = row[a.row].ver,
               !.want = IF Uploads(a) THEN {Key[r]} ELSE names,
               !.loose = names \ ({Key[r]} \cup IF a.match THEN row[a.row].keys ELSE {}),
               !.ph = IF Key[r] \in names THEN "post" ELSE First(a)]]
  /\ UNCHANGED <<row, stored, doomed, lock, faults>>

\* POST /files stores an object that no request tracks.
PostFile(r) ==
  /\ At(r, "post")
  /\ stored' = stored \cup {Key[r]}
  /\ Goes(r, First(Ask(r)))
  /\ UNCHANGED <<row, doomed, lock, faults>>

\* verifyFileKeys, handleFileKeyReference: every key named must be stored.
Stat(r) ==
  /\ At(r, "stat")
  /\ req[r].want \subseteq stored
  /\ Goes(r, IF Ask(r).op = "create" THEN "write" ELSE "read")
  /\ UNCHANGED <<row, stored, doomed, lock, faults>>

\* existingColumns, and file-cleanup-capture for a delete: the keys the
\* committed record holds, read once, outside any transaction.
ReadOld(r) ==
  /\ At(r, "read")
  /\ req' = [req EXCEPT ![r] = [@ EXCEPT
               !.old = row[Row(r)].keys,
               !.ph = IF Uploads(Ask(r)) THEN "store" ELSE Db(Ask(r))]]
  /\ UNCHANGED <<row, stored, doomed, lock, faults>>

\* A streamed object is tracked before it is stored, a buffered one after.
Store(r) ==
  /\ At(r, "store")
  /\ stored' = stored \cup {Key[r]}
  /\ req' = [req EXCEPT ![r] = [@ EXCEPT !.tracked = TRUE, !.ph = Db(Ask(r))]]
  /\ UNCHANGED <<row, doomed, lock, faults>>

\* cleanupOrphanedFiles, in the background, of what the request stored.
Cleanup(r) == IF req[r].tracked THEN {Key[r]} ELSE {}
Unlocked(r) == [x \in Rows |-> IF lock[x] = r THEN None ELSE lock[x]]

\* Any step up to the write may refuse or fail: a rule of the field, a
\* middleware, a missing key or record, a stale If-Match.  The answer is not
\* 2xx; the transaction, if any, is rolled back.
Refuse(r) ==
  /\ req[r].ph \in {"post", "stat", "read", "store", "match", "write"}
  /\ doomed' = doomed \cup Cleanup(r)
  /\ lock' = Unlocked(r)
  /\ Goes(r, "done")
  /\ UNCHANGED <<row, stored, faults>>

\* Mutant: a streamed object is tracked after it is stored, like a buffered one.
StreamBreaksUntracked(r) ==
  /\ At(r, "store") /\ Ask(r).how = "stream"
  /\ stored' = stored \cup {Key[r]}
  /\ Goes(r, "done")
  /\ UNCHANGED <<row, doomed, lock, faults>>

\* The body of an upload breaks off or outgrows max_size while it streams: the
\* part of the object that is already stored is tracked.
StreamBreaks(r) ==
  /\ At(r, "store") /\ Ask(r).how = "stream"
  /\ stored' = stored \cup {Key[r]}
  /\ doomed' = doomed \cup {Key[r]}
  /\ Goes(r, "done")
  /\ UNCHANGED <<row, lock, faults>>

Free(r) == lock[Row(r)] \in {None, r}

\* Mutant: the version is compared without a lock.
MatchUnlocked(r) ==
  /\ At(r, "match") /\ Free(r)
  /\ row[Row(r)].live /\ row[Row(r)].ver = req[r].etag
  /\ Goes(r, "write")
  /\ UNCHANGED <<row, stored, doomed, lock, faults>>

\* checkOptimisticLock: the record is locked, then compared.
Match(r) ==
  /\ At(r, "match") /\ Free(r)
  /\ row[Row(r)].live /\ row[Row(r)].ver = req[r].etag
  /\ lock' = [lock EXCEPT ![Row(r)] = r]
  /\ Goes(r, "write")
  /\ UNCHANGED <<row, stored, doomed, faults>>

\* The write of the request, on the record as committed or as its own
\* transaction will commit it.
Found(r) == row[Row(r)].live = (Ask(r).op # "create")
Written(r) == [row EXCEPT ![Row(r)] =
                 [live |-> Ask(r).op # "delete",
                  keys |-> req[r].want,
                  ver |-> @.ver + 1]]

WriteBare(r) ==
  /\ At(r, "write") /\ ~InTx(Ask(r)) /\ Free(r) /\ Found(r)
  /\ row' = Written(r)
  /\ req' = [req EXCEPT ![r] = [@ EXCEPT !.ph = "after", !.wrote = TRUE]]
  /\ UNCHANGED <<stored, doomed, lock, faults>>

WriteInTx(r) ==
  /\ At(r, "write") /\ InTx(Ask(r)) /\ Free(r) /\ Found(r)
  /\ lock' = [lock EXCEPT ![Row(r)] = r]
  /\ Goes(r, IF Ask(r).tx THEN "after" ELSE "commit")
  /\ UNCHANGED <<row, stored, doomed, faults>>

\* A commit makes the write visible and ends the transaction: after the After-DB
\* middleware where WithTransaction opened it, before where If-Match did.
Commit(r) ==
  /\ At(r, "commit")
  /\ row' = Written(r)
  /\ lock' = Unlocked(r)
  /\ req' = [req EXCEPT ![r] = [@ EXCEPT
               !.ph = IF Ask(r).tx THEN "respond" ELSE "after",
               !.wrote = TRUE]]
  /\ UNCHANGED <<stored, doomed, faults>>

\* The commit fails, and the transaction is rolled back.
CommitLost(r) ==
  /\ At(r, "commit") /\ Fault("commit")
  /\ doomed' = doomed \cup Cleanup(r)
  /\ lock' = Unlocked(r)
  /\ Goes(r, "done")
  /\ UNCHANGED <<row, stored>>

\* The commit reports an error, but its transaction is durable.
AnswerLost(r) ==
  /\ At(r, "commit") /\ Fault("commit")
  /\ row' = Written(r)
  /\ doomed' = doomed \cup Cleanup(r)
  /\ lock' = Unlocked(r)
  /\ req' = [req EXCEPT ![r] = [@ EXCEPT !.ph = "failed", !.wrote = TRUE]]
  /\ UNCHANGED stored

\* Requests that have nothing removed: recordToMap yields the *string of a
\* nullable field, which neither getOldFileKey nor fileKeysOfColumn takes for a
\* key, and processFileFields passes the empty string by.
Blind(r) == \/ Row(r) \in Nullable
            \/ Ask(r).how = "refer" /\ req[r].want = {} /\ Row(r) \notin Lists

\* The keys a write takes off its record and has removed: of a list those the new
\* one lacks, in whatever order (gcDroppedFileKeys).
Dropped(r) == IF Blind(r) THEN {} ELSE req[r].old \ req[r].want

\* file-cleanup-delete: a delete schedules the removal of the files of its
\* record as soon as the statement ran.
AfterDB(r) ==
  /\ At(r, "after")
  /\ \/ /\ Ask(r).op = "delete"
        /\ doomed' = doomed \cup Dropped(r)
        /\ req' = [req EXCEPT ![r] = [@ EXCEPT !.swept = TRUE, !.ph = After(Ask(r))]]
     \/ /\ Ask(r).op # "delete"
        /\ Goes(r, After(Ask(r)))
        /\ UNCHANGED doomed
  /\ UNCHANGED <<row, stored, lock, faults>>

\* A middleware around the database step fails after the write: a required
\* history row, a response that cannot be built.
FailsLate(r) ==
  /\ At(r, "after") /\ Fault("late")
  /\ doomed' = doomed \cup Cleanup(r)
  /\ lock' = Unlocked(r)
  /\ Goes(r, "failed")
  /\ UNCHANGED <<row, stored>>

\* writeResponse, 2xx: the files an update replaced are removed.
Respond(r) ==
  /\ At(r, "respond")
  /\ doomed' = doomed \cup (IF Ask(r).op = "update" THEN Dropped(r) ELSE {})
  /\ Goes(r, "done")
  /\ UNCHANGED <<row, stored, lock, faults>>

\* A handler panics: the transaction is rolled back, and writeResponse does not
\* run.
Panic(r) ==
  /\ req[r].ph \notin {"idle", "post", "done", "failed", "gone"} /\ Fault("panic")
  /\ lock' = Unlocked(r)
  /\ Goes(r, "gone")
  /\ UNCHANGED <<row, stored, doomed>>

\* The background tasks; a task that fails is not repeated.
Remove(k) ==
  /\ k \in doomed
  /\ stored' = stored \ {k}
  /\ doomed' = doomed \ {k}
  /\ UNCHANGED <<row, lock, req, faults>>

RemoveFails(k) ==
  /\ k \in doomed /\ Fault("delete")
  /\ doomed' = doomed \ {k}
  /\ UNCHANGED <<row, stored, lock, req>>

\* The process stops: its requests and tasks are gone, the database rolls back.
Crash ==
  /\ Fault("crash")
  /\ doomed' = {}
  /\ lock' = [x \in Rows |-> None]
  /\ req' = [r \in Requests |->
               IF req[r].ph \in {"idle", "done", "failed"} THEN req[r]
               ELSE [req[r] EXCEPT !.ph = "gone"]]
  /\ UNCHANGED <<row, stored>>

Step(r) == \/ \E a \in Asks, names \in SUBSET Keys : Send(r, a, names)
           \/ PostFile(r) \/ Stat(r) \/ ReadOld(r) \/ Store(r) \/ StreamBreaks(r)
           \/ Match(r) \/ WriteBare(r) \/ WriteInTx(r) \/ Commit(r)
           \/ AfterDB(r) \/ Respond(r)
           \/ Refuse(r) \/ CommitLost(r) \/ AnswerLost(r) \/ FailsLate(r) \/ Panic(r)

Next == \/ \E r \in Requests : Step(r)
        \/ \E k \in Keys : Remove(k) \/ RemoveFails(k)
        \/ Crash

Spec == Init /\ [][Next]_vars

-----------------------------------------------------------------------------
(* Properties.                                                             *)

Sent(r) == req[r].ph # "idle"

\* Keys that some request named loosely, or that two records held at first.
Reused(k) == \/ \E r \in Requests : k \in req[r].loose
             \/ \E x, y \in Rows : x # y /\ k \in Had[x] \cap Had[y]

\* Keys whose removal the write of a request brings about.
Taken(k) == \E r \in Requests : (req[r].wrote \/ req[r].swept) /\ k \in Dropped(r)

\* The new object of a request that failed although its write stands.
Undone(k) == \E r \in Requests : /\ k = Key[r] /\ req[r].tracked
                                 /\ req[r].wrote /\ At(r, "failed")

\* A transaction that deletes a record has its files removed before it commits;
\* it may then fail to commit.
Sweeping(x) == \E r \in Requests : Row(r) = x /\ At(r, "commit") /\ req[r].swept
SweptInVain(x, k) == \E r \in Requests : /\ Row(r) = x /\ req[r].swept /\ ~req[r].wrote
                                         /\ k \in Dropped(r)

\* No record names an object that is gone, whatever requests overlap, crash or
\* are refused (files.md:405-410, "a record can never reference a dangling key";
\* handler.go:263-264, context.go:1417-1421: deletion waits for the write).
\* The code does not keep it in three cases, and in no other: a key that a
\* client re-used from elsewhere, or kept without If-Match, is lost when some
\* request takes it off a record; a request that fails after its write removes
\* the object it brought; a delete removes the files ahead of its commit.
NoDangling ==
  \A x \in Rows : \A k \in row[x].keys :
    k \in stored \/ (Reused(k) /\ Taken(k)) \/ Undone(k) \/ SweptInVain(x, k)

\* The same of deletes whose commit failed: the record still references its
\* files.
FailedWriteKeepsFiles ==
  \A x \in Rows : \A k \in row[x].keys :
    k \in stored \/ (Reused(k) /\ Taken(k)) \/ Undone(k) \/ Sweeping(x)

\* Without a fault, all requests ended, and each update and delete had If-Match.
Quiescent ==
  /\ \A k \in Kinds : faults[k] = 0
  /\ \A r \in Requests : /\ req[r].ph \in {"idle", "done"}
                         /\ Sent(r) => Ask(r).op = "create" \/ Ask(r).match

\* Objects that were posted for a request that did not write.
Unclaimed(k) == \E r \in Requests : k = Key[r] /\ ~req[r].wrote /\ Ask(r).how = "refer"

\* Keys that a blind write took off its record.
Left(k) == \E r \in Requests : req[r].wrote /\ Blind(r) /\ k \in req[r].old

\* With If-Match on every update and delete nothing leaks but by blind writes:
\* once all requests ended, without a fault, each stored object is held by a
\* record, or is about to be removed, or was posted on its own for a request that
\* was refused, or was taken off by a write that has nothing removed
\* (context.go:1370-1376, 1417-1421).
NoOrphans ==
  Quiescent => \A k \in stored : \/ \E x \in Rows : k \in row[x].keys
                                 \/ k \in doomed
                                 \/ Unclaimed(k)
                                 \/ Left(k)

\* The same with no exception for nullable fields: "a file field's stored bytes
\* are removed when the record is hard-deleted, or the field is overwritten by an
\* update" (files.md:808-811; steps.go:666-667, of null in the body).
OldFilesRemoved ==
  Quiescent => \A k \in stored : \/ \E x \in Rows : k \in row[x].keys
                                 \/ k \in doomed
                                 \/ Unclaimed(k)

-----------------------------------------------------------------------------
(* The inductive invariant behind NoDangling.                              *)

\* The record for which a key was brought.
Of(k, x) == \/ k \in Had[x]
            \/ \E r \in Requests : Sent(r) /\ Row(r) = x /\ k = Key[r]

\* Where a request is in its work.
PathInv(r) ==
  /\ Ask(r).op = "create" => ~Ask(r).match
  /\ Uploads(Ask(r)) => req[r].want \subseteq {Key[r]} /\ req[r].loose = {}
  /\ Ask(r).how = "clear" \/ Ask(r).op = "delete" => req[r].want = {}
  /\ At(r, "idle") => /\ req[r].want = {} /\ req[r].old = {} /\ req[r].loose = {}
                      /\ ~req[r].wrote /\ ~req[r].swept /\ ~req[r].tracked
  /\ At(r, "post") => Key[r] \in req[r].want /\ Ask(r).how = "refer"
  /\ At(r, "idle") \/ At(r, "post") => Key[r] \notin stored
  /\ At(r, "store") \/ req[r].tracked => Uploads(Ask(r))
  /\ req[r].wrote => \/ req[r].ph \in {"respond", "done", "failed", "gone"}
                     \/ At(r, "after") /\ ~Ask(r).tx
  /\ At(r, "respond") \/ (At(r, "after") /\ ~Ask(r).tx) => req[r].wrote
  /\ req[r].swept => /\ Ask(r).op = "delete"
                     /\ \/ req[r].ph \in {"respond", "done", "failed", "gone"}
                        \/ At(r, "commit") /\ Ask(r).tx
  /\ At(r, "commit") => InTx(Ask(r))

\* No one else has met the key of a request that has not written, unless a client
\* re-used it after it was posted.
FreshInv(r) ==
  ~req[r].wrote =>
    /\ \/ Reused(Key[r])
       \/ /\ \A x \in Rows : Key[r] \notin row[x].keys
          /\ \A s \in Requests : /\ Key[r] \notin req[s].old
                                 /\ s # r => Key[r] \notin req[s].want
    /\ At(r, "idle") \/ At(r, "post") \/ Uploads(Ask(r)) => ~Reused(Key[r])

\* A version stands for the keys the client saw with it, and a transaction past
\* its If-Match holds the record at that version.
Holds(r) == \/ At(r, "write") /\ Ask(r).match
            \/ At(r, "after") /\ Ask(r).tx
            \/ At(r, "commit")
Seen(r) == req[r].want \ ({Key[r]} \cup req[r].loose)
ViewInv(r) ==
  Sent(r) =>
    /\ req[r].etag <= row[Row(r)].ver
    /\ req[r].etag = row[Row(r)].ver => Seen(r) \subseteq row[Row(r)].keys
    /\ ~Ask(r).match => Seen(r) = {}
    /\ Holds(r) => lock[Row(r)] = r
    /\ Holds(r) /\ Ask(r).match => req[r].etag = row[Row(r)].ver

\* A key that is not re-used stays with one record.
HomeInv ==
  /\ \A x \in Rows : \A k \in row[x].keys : Of(k, x) \/ Reused(k)
  /\ \A r \in Requests : \A k \in req[r].old \cup req[r].want :
        Sent(r) => Of(k, Row(r)) \/ Reused(k)

\* What a writer dropped does not return to its record.
DropInv(r) ==
  req[r].wrote => \A k \in Dropped(r) \cap row[Row(r)].keys : Reused(k)

\* Only objects are removed that a request took off a record, or that it brought
\* and failed; every other key that records hold or requests want is stored.
Aborted(k) == \E r \in Requests : /\ k = Key[r] /\ Uploads(Ask(r)) /\ ~req[r].wrote
                                  /\ req[r].ph \in {"done", "failed"}
Out(k) == Taken(k) \/ Undone(k) \/ Aborted(k)
Brought(r) == \/ req[r].wrote
              \/ req[r].ph \in {"stat", "match", "write", "after", "commit"}
              \/ At(r, "read") /\ ~Uploads(Ask(r))
Supplied(r) == \A k \in req[r].want : \/ k \in stored \/ Out(k)
                                      \/ k = Key[r] /\ ~Brought(r)
StoreInv ==
  /\ \A k \in doomed : Out(k)
  /\ \A x \in Rows : \A k \in row[x].keys : k \in stored \/ Out(k)
  /\ \A r \in Requests : Supplied(r)

IInv == /\ TypeOK
        /\ HomeInv
        /\ \A r \in Requests : PathInv(r) /\ FreshInv(r) /\ ViewInv(r) /\ DropInv(r)
        /\ StoreInv
=============================================================================
