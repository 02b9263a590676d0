------------------------------- MODULE Writes -------------------------------
(***************************************************************************)
(* The write path of the request pipeline: one action per database         *)
(* statement of a create, update or delete, from the Validate step through *)
(* WithTransaction, the guards of the DB step (scope, lock_when, If-Match, *)
(* parent scope, onDelete), the write, and what runs after it (history,    *)
(* rollups, commit, commit hooks).  Requests interleave statement by       *)
(* statement, on PostgreSQL (READ COMMITTED, row locks) or on SQLite (one  *)
(* writer connection, BEGIN IMMEDIATE, WAL readers).                       *)
(*                                                                         *)
(* There are two models: the children, which may be versioned, carry       *)
(* lock_when, belong to a parent through the column fk and are counted by  *)
(* a rollup in the parent's column total, and the parents, which are       *)
(* soft-deleted, so that onDelete is carried out by the framework and not  *)
(* by a database constraint.                                               *)
(*                                                                         *)
(* A row's columns are abstracted to the ones the guards read; ver counts  *)
(* its writes and stands for the representation an ETag is taken of.       *)
(*                                                                         *)
(* Not covered: restore, singleton provisioning, encryption, nested and    *)
(* grouped scopes, cascades of more than one level, savepoints.            *)
(***************************************************************************)
EXTENDS Integers, FiniteSets

CONSTANTS
    Requests, Children, Parents, \* ids are numbers: keyset pages and rollups sort them
    Tenants,
    None,       \* no parent, no tenant, no lock holder
    Keep,       \* the body does not name the column
    Asks,       \* Asks[r]: the requests r may turn out to be
    Configs,    \* the registrations and drivers to try
    InitRow,    \* the rows the requests find
    PageSize,   \* cascadePageSize
    Retries,    \* historyInsertMaxRetries
    MaxFaults   \* bound: failing statements and commits

ASSUME IdAssumption == Children \subseteq Nat /\ Parents \subseteq Nat /\ Children \cap Parents = {}
                       /\ IsFiniteSet(Children)
ASSUME NoneAssumption == None \notin Requests \cup Children \cup Parents \cup Tenants
                         /\ Keep \notin Parents \cup Tenants \cup {None}
ASSUME BoundAssumption == PageSize \in Nat \ {0} /\ Retries \in Nat /\ MaxFaults \in Nat

Rows == Children \cup Parents

RowType == [alive : BOOLEAN, fk : Parents \cup {None}, owner : Tenants \cup {None},
            locked : BOOLEAN, ver : Nat, total : Nat]

\* pg: the driver; hoisted: the scope is hoisted by ProvidesScope.
ConfigType == [pg : BOOLEAN, rollup : BOOLEAN, versioned : {"no", "yes", "required"},
               onDelete : {"restrict", "setNull", "cascade"}, hoisted : BOOLEAN, lockScope : BOOLEAN]

\* im: the If-Match header; scope: the tenant db.Tenancy forces; tx: WithTransaction is registered.
AskType == [op : {"create", "update", "delete"}, row : Rows, fk : Parents \cup {None, Keep},
            own : Tenants \cup {Keep}, lock : BOOLEAN, im : {"no", "tag", "any"},
            scope : Tenants \cup {None}, tx : BOOLEAN]

ASSUME InstanceAssumption ==
    InitRow \in [Rows -> RowType] /\ Configs \subseteq ConfigType /\ \A r \in Requests : Asks[r] \subseteq AskType

\* The id of a create is new: there is no such row yet, and nobody else can name it.
ASSUME FreshAssumption ==
    \A r \in Requests : \A a \in Asks[r] : a.op = "create" =>
        /\ a.row \in Children
        /\ ~InitRow[a.row].alive /\ InitRow[a.row].fk = None /\ InitRow[a.row].ver = 0
        /\ \A o \in Requests \ {r} : \A b \in Asks[o] : b.row # a.row

VARIABLES
    cfg,    \* the registration in force
    row,    \* row[x]: the committed image
    lk,     \* lk[x]: the request whose open transaction holds x's row lock, or None
    unc,    \* unc[x]: x as lk[x] sees it
    hist,   \* the children's history rows; open names the transaction that inserted one
    req,    \* req[r]: the request's progress
    faults
vars == <<cfg, row, lk, unc, hist, req, faults>>

-----------------------------------------------------------------------------
(* What a request sees, and when the database lets it go on *)

Ask(r) == req[r].ask
Target(r) == Ask(r).row
InTx(r) == req[r].tx # "none"

View(r, x) == IF lk[x] = r THEN unc[x] ELSE row[x]

\* SQLite: the single writer connection is free.  PostgreSQL has no such limit.
WriterFree(r) == cfg.pg \/ \A o \in Requests \ {r} : ~InTx(o)
MayBegin(r) == InTx(r) \/ WriterFree(r)
CanLock(r, x) == lk[x] \in {r, None}

InScope(r, image) == image.alive /\ Ask(r).scope \in {None, image.owner}

Least(S) == CHOOSE x \in S : \A y \in S : x <= y

ChildrenOf(r, p) == {c \in Children : View(r, c).alive /\ View(r, c).fk = p}

\* Take x's row lock with the image x is to have in r's transaction.
Hold(r, x, image) == lk' = [lk EXCEPT ![x] = r] /\ unc' = [unc EXCEPT ![x] = image]

\* FOR UPDATE takes the row lock on PostgreSQL; on SQLite it is a plain SELECT.
ForUpdate(r, x) == IF cfg.pg THEN Hold(r, x, View(r, x)) ELSE UNCHANGED <<lk, unc>>

Commit(r) ==
    /\ row' = [x \in Rows |-> View(r, x)]
    /\ lk' = [x \in Rows |-> IF lk[x] = r THEN None ELSE lk[x]]
    /\ hist' = {[h EXCEPT !.open = IF h.open = r THEN None ELSE @] : h \in hist}
    /\ UNCHANGED unc

Rollback(r) ==
    /\ lk' = [x \in Rows |-> IF lk[x] = r THEN None ELSE lk[x]]
    /\ hist' = {h \in hist : h.open # r}
    /\ UNCHANGED <<row, unc>>

\* Mutant: nobody rolls back what the refused request opened.
RefuseOpen(r, status) ==
    /\ req' = [req EXCEPT ![r] = [@ EXCEPT !.ph = "done", !.st = status]]
    /\ UNCHANGED <<row, lk, unc, hist>>

\* A response of 400 or more, or an error, ends the request: every step unwinds,
\* and whoever opened the transaction rolls it back.
Refuse(r, status) ==
    /\ Rollback(r)
    /\ req' = [req EXCEPT ![r] = [@ EXCEPT !.ph = "done", !.st = status, !.tx = "none"]]

-----------------------------------------------------------------------------
(* The order of the steps; a step that does not apply is passed over *)

IsChild(r) == Target(r) \in Children
IsDrop(r) == Target(r) \in Parents /\ Ask(r).op = "delete"
Versioned == cfg.versioned # "no"
WritesFk(r) == Ask(r).op # "delete" /\ Ask(r).fk \in Parents
CheckedEarly(r) == IsChild(r) /\ Ask(r).op = "update" /\ Ask(r).scope # None /\ cfg.hoisted

ToWrite(r) == IF IsChild(r) /\ Ask(r).op = "create" /\ cfg.lockScope THEN "lockscope" ELSE "write"
ToCascade(r) ==
    IF ~IsDrop(r) THEN ToWrite(r) ELSE IF cfg.onDelete = "restrict" THEN "restrict" ELSE "page"
ToParent(r) == IF Ask(r).scope # None /\ WritesFk(r) THEN "parent" ELSE ToCascade(r)
ToMatch(r) == IF Ask(r).im # "no" /\ Ask(r).op # "create" THEN "match" ELSE ToParent(r)
\* Mutant: the DB step asks about lock_when for deletes alone, as if Validate had answered for updates.
ToLockWhenOfDelete(r) == IF IsChild(r) /\ Ask(r).op = "delete" THEN "lockwhen" ELSE ToMatch(r)

ToLockWhen(r) ==
    IF IsChild(r) /\ Ask(r).op # "create" /\ ~CheckedEarly(r) THEN "lockwhen" ELSE ToMatch(r)
ToScope(r) == IF Ask(r).scope # None /\ Ask(r).op # "create" THEN "scope" ELSE ToLockWhen(r)
ToImage(r) == IF Versioned /\ IsChild(r) /\ Ask(r).op # "create" THEN "image" ELSE ToScope(r)
ToAffected(r) == IF cfg.rollup /\ IsChild(r) THEN "affected" ELSE ToImage(r)
ToBegin(r) == IF Ask(r).tx THEN "begin" ELSE ToAffected(r)
ToValidate(r) == IF CheckedEarly(r) THEN "validate" ELSE ToBegin(r)

\* After the DB step: history is written on the way out, rollups after it.
Outward(aff) == IF aff # {} THEN "lockp" ELSE "finish"
AfterDB(r) == IF Versioned /\ IsChild(r) THEN "count" ELSE Outward(req[r].aff)

\* Within a cascade: the rest of the page, or the next page.
Onward(todo) == IF todo # {} THEN "pre" ELSE "page"
AfterHistory(r) == IF IsDrop(r) THEN Onward(req[r].todo) ELSE Outward(req[r].aff)

Phases == {"new", "validate", "begin", "affected", "image", "scope", "lockwhen", "match",
           "parent", "restrict", "page", "pre", "child", "lockp", "sum", "store", "lockscope",
           "write", "owncommit", "count", "insert", "finish", "done"}

Go(r, phase) == req' = [req EXCEPT ![r].ph = phase]
Keeps == UNCHANGED <<row, lk, unc, hist>>

-----------------------------------------------------------------------------
(* Before the DB step *)

Init ==
    /\ cfg \in Configs
    /\ row = InitRow
    /\ lk = [x \in Rows |-> None]
    /\ unc = InitRow
    /\ hist = UNION {{[row |-> c, n |-> k, pre |-> k - 1, post |-> k, open |-> None] :
                       k \in 1..InitRow[c].ver} : c \in Children}
    /\ req \in [Requests -> [ph : {"new"}, ask : UNION {Asks[r] : r \in Requests}, tag : {0},
                             aff : {{}}, pre : {0}, post : {0}, todo : {{}}, walked : {{}}, cur : {0},
                             n : {0}, try : {0}, tx : {"none"}, dur : {FALSE}, told : {FALSE},
                             st : {"none"}]]
    /\ \A r \in Requests : req[r].ask \in Asks[r]
    /\ faults = 0

\* The client, which reads the row first when it is going to send its ETag.
Send(r) ==
    /\ req[r].ph = "new"
    /\ req' = [req EXCEPT ![r] = [@ EXCEPT !.ph = ToValidate(r),
                          !.tag = IF Ask(r).im = "tag" THEN row[Target(r)].ver ELSE 0]]
    /\ Keeps

\* checkRecordLocked reads through the request's forced filters: a row out of scope is not locked.
SeesLocked(r) == InScope(r, View(r, Target(r))) /\ View(r, Target(r)).locked

\* With its scope hoisted, an update asks about lock_when here, outside any transaction.
Validate(r) ==
    /\ req[r].ph = "validate"
    /\ IF SeesLocked(r) THEN Refuse(r, "422") ELSE Go(r, ToBegin(r)) /\ Keeps

WithTransaction(r) ==
    /\ req[r].ph = "begin"
    /\ WriterFree(r)
    /\ req' = [req EXCEPT ![r] = [@ EXCEPT !.ph = ToAffected(r), !.tx = "with"]]
    /\ Keeps

\* The rollup middleware, before the write: the parents whose total it may change, read without a lock.
AffectedParents(r) ==
    LET old == View(r, Target(r))
        named == (IF Ask(r).op # "create" /\ old.alive THEN {old.fk} ELSE {})
                   \cup (IF Ask(r).op # "delete" THEN {Ask(r).fk} ELSE {})
    IN named \cap Parents

Affected(r) ==
    /\ req[r].ph = "affected"
    /\ IF AffectedParents(r) # {} /\ ~InTx(r)
       THEN Refuse(r, "500")
       ELSE /\ req' = [req EXCEPT ![r] = [@ EXCEPT !.ph = ToImage(r), !.aff = AffectedParents(r)]]
            /\ Keeps

CaptureImage(r) ==
    /\ req[r].ph = "image"
    /\ req' = [req EXCEPT ![r] = [@ EXCEPT !.ph = ToScope(r),
                          !.pre = IF View(r, Target(r)).alive THEN View(r, Target(r)).ver ELSE 0]]
    /\ Keeps

-----------------------------------------------------------------------------
(* The guards of the DB step *)

\* The guards below open a transaction for the DB step when the request has none.
Opened(r) == IF InTx(r) THEN req[r].tx ELSE "own"

\* Mutant: the scope is checked outside any transaction.
ScopeUnguarded(r) ==
    /\ req[r].ph = "scope"
    /\ IF InScope(r, View(r, Target(r))) THEN Go(r, ToLockWhen(r)) /\ Keeps ELSE Refuse(r, "404")

EnforceWriteScope(r) ==
    /\ req[r].ph = "scope"
    /\ MayBegin(r)
    /\ IF InScope(r, View(r, Target(r)))
       THEN req' = [req EXCEPT ![r] = [@ EXCEPT !.ph = ToLockWhen(r), !.tx = Opened(r)]] /\ Keeps
       ELSE Refuse(r, "404")

LockWhen(r) ==
    /\ req[r].ph = "lockwhen"
    /\ IF SeesLocked(r) THEN Refuse(r, "422") ELSE Go(r, ToMatch(r)) /\ Keeps

\* Mutant: the version is read without a row lock.
MatchUnlocked(r) ==
    LET x == Target(r) IN
    /\ req[r].ph = "match"
    /\ MayBegin(r)
    /\ \/ ~View(r, x).alive /\ Refuse(r, "404")
       \/ View(r, x).alive /\ Ask(r).im = "tag" /\ View(r, x).ver # req[r].tag /\ Refuse(r, "412")
       \/ /\ View(r, x).alive /\ (Ask(r).im = "tag" => View(r, x).ver = req[r].tag)
          /\ req' = [req EXCEPT ![r] = [@ EXCEPT !.ph = ToParent(r), !.tx = Opened(r)]]
          /\ Keeps

EnforceOptimisticLock(r) ==
    LET x == Target(r) IN
    /\ req[r].ph = "match"
    /\ MayBegin(r) /\ CanLock(r, x)
    /\ \/ ~View(r, x).alive /\ Refuse(r, "404")
       \/ View(r, x).alive /\ Ask(r).im = "tag" /\ View(r, x).ver # req[r].tag /\ Refuse(r, "412")
       \/ /\ View(r, x).alive /\ (Ask(r).im = "tag" => View(r, x).ver = req[r].tag)
          /\ ForUpdate(r, x)
          /\ req' = [req EXCEPT ![r] = [@ EXCEPT !.ph = ToParent(r), !.tx = Opened(r)]]
          /\ UNCHANGED <<row, hist>>

\* checkWrittenFKsInScope: a scoped write may only name a parent that its scope can see.
EnforceParentScope(r) ==
    /\ req[r].ph = "parent"
    /\ MayBegin(r)
    /\ IF InScope(r, View(r, Ask(r).fk))
       THEN req' = [req EXCEPT ![r] = [@ EXCEPT !.ph = ToCascade(r), !.tx = Opened(r)]] /\ Keeps
       ELSE Refuse(r, "404")

-----------------------------------------------------------------------------
(* onDelete, for the delete of a parent *)

CascadeRestrict(r) ==
    /\ req[r].ph = "restrict"
    /\ MayBegin(r)
    /\ IF ChildrenOf(r, Target(r)) # {}
       THEN Refuse(r, "409")
       ELSE req' = [req EXCEPT ![r] = [@ EXCEPT !.ph = "write", !.tx = Opened(r)]] /\ Keeps

\* Mutant: the walk ends after its first page.
FirstPage(r) ==
    LET rest == {c \in ChildrenOf(r, Target(r)) : \A d \in req[r].walked : d < c}
        page == IF req[r].walked # {} THEN {} ELSE {c \in rest : Cardinality({d \in rest : d < c}) < PageSize}
    IN /\ req[r].ph = "page"
       /\ MayBegin(r)
       /\ IF page = {}
          THEN req' = [req EXCEPT ![r] = [@ EXCEPT !.tx = Opened(r),
                                  !.ph = IF req[r].aff = {} THEN "write" ELSE "lockp"]]
          ELSE req' = [req EXCEPT ![r] = [@ EXCEPT !.tx = Opened(r), !.ph = "pre", !.todo = page,
                                  !.walked = req[r].walked \cup page]]
       /\ Keeps

\* The next page of child ids in keyset order; the walk ends with an empty one.
EachChildId(r) ==
    LET rest == {c \in ChildrenOf(r, Target(r)) : \A d \in req[r].walked : d < c}
        page == {c \in rest : Cardinality({d \in rest : d < c}) < PageSize}
    IN /\ req[r].ph = "page"
       /\ MayBegin(r)
       /\ IF page = {}
          THEN req' = [req EXCEPT ![r] = [@ EXCEPT !.tx = Opened(r),
                                  !.ph = IF req[r].aff = {} THEN "write" ELSE "lockp"]]
          ELSE req' = [req EXCEPT ![r] = [@ EXCEPT !.tx = Opened(r), !.ph = "pre", !.todo = page,
                                  !.walked = req[r].walked \cup page]]
       /\ Keeps

\* cascadePreImage: only a child with history or a rollup is read before it is written.
\* invalidate remembers the parent the pre-image names.
CascadePreImage(r) ==
    LET c == Least(req[r].todo)
        pre == View(r, c)
        read == Versioned \/ cfg.rollup
    IN /\ req[r].ph = "pre"
       /\ IF read /\ ~pre.alive
          THEN Refuse(r, "500")
          ELSE /\ req' = [req EXCEPT ![r] = [@ EXCEPT !.ph = "child", !.cur = c,
                                     !.pre = IF read THEN pre.ver ELSE 0,
                                     !.aff = IF cfg.rollup THEN req[r].aff \cup ({pre.fk} \cap Parents) ELSE req[r].aff]]
               /\ Keeps

CascadeWrite(r) ==
    LET c == req[r].cur
        old == View(r, c)
        rest == req[r].todo \ {c}
        new == IF cfg.onDelete = "setNull" THEN [old EXCEPT !.fk = None, !.ver = @ + 1]
               ELSE [old EXCEPT !.alive = FALSE, !.ver = @ + 1]
    IN /\ req[r].ph = "child"
       /\ CanLock(r, c)
       /\ IF ~old.alive
          THEN Refuse(r, "500")
          ELSE /\ Hold(r, c, new)
               /\ req' = [req EXCEPT ![r] = [@ EXCEPT !.ph = IF Versioned THEN "count" ELSE Onward(rest),
                                     !.todo = rest, !.post = new.ver, !.try = 0]]
               /\ UNCHANGED <<row, hist>>

-----------------------------------------------------------------------------
(* The write *)

\* lock_scope: a create locks the row its foreign key names, until commit.
LockScope(r) ==
    LET p == Ask(r).fk IN
    /\ req[r].ph = "lockscope"
    /\ \/ ~InTx(r) /\ Refuse(r, "500")
       \/ InTx(r) /\ p \notin Parents /\ Go(r, "write") /\ Keeps
       \/ InTx(r) /\ p \in Parents /\ ~InScope(r, View(r, p)) /\ Refuse(r, "404")
       \/ /\ InTx(r) /\ p \in Parents /\ InScope(r, View(r, p))
          /\ CanLock(r, p)
          /\ ForUpdate(r, p)
          /\ Go(r, "write")
          /\ UNCHANGED <<row, hist>>

\* The image the write leaves.  db.Tenancy stamps the scope onto a create and an update.
Written(r, old) ==
    LET a == Ask(r)
        owner == IF a.scope # None THEN a.scope ELSE IF a.own # Keep THEN a.own ELSE old.owner
        fk == IF a.fk # Keep THEN a.fk ELSE old.fk
    IN IF a.op = "delete" THEN [old EXCEPT !.alive = FALSE, !.ver = @ + 1]
       ELSE [old EXCEPT !.alive = TRUE, !.fk = fk, !.owner = owner,
                        !.locked = @ \/ a.lock, !.ver = @ + 1]

Write(r) ==
    LET x == Target(r)
        old == View(r, x)
        new == Written(r, old)
    IN /\ req[r].ph = "write"
       /\ WriterFree(r)
       /\ CanLock(r, x)
       /\ \/ Ask(r).op # "create" /\ ~old.alive /\ Refuse(r, "404")
          \/ /\ (Ask(r).op # "create" => old.alive)
             /\ InTx(r)
             /\ Hold(r, x, new)
             /\ req' = [req EXCEPT ![r] = [@ EXCEPT !.ph = IF req[r].tx = "own" THEN "owncommit" ELSE AfterDB(r),
                                   !.cur = x, !.post = new.ver, !.try = 0]]
             /\ UNCHANGED <<row, hist>>
          \/ /\ (Ask(r).op # "create" => old.alive)
             /\ ~InTx(r)
             /\ row' = [row EXCEPT ![x] = new]
             /\ req' = [req EXCEPT ![r] = [@ EXCEPT !.ph = AfterDB(r), !.cur = x, !.post = new.ver,
                                   !.try = 0, !.dur = TRUE, !.told = TRUE]]
             /\ UNCHANGED <<lk, unc, hist>>

\* The DB step commits the transaction one of its guards opened before After-DB middleware run;
\* a commit hook registered there finds no transaction and runs at once.
OwnCommit(r) ==
    /\ req[r].ph = "owncommit"
    /\ Commit(r)
    /\ req' = [req EXCEPT ![r] = [@ EXCEPT !.ph = AfterDB(r), !.tx = "none", !.dur = TRUE, !.told = TRUE]]

-----------------------------------------------------------------------------
(* After the write: history and rollups *)

\* nextVersion: one more than the rows it can see.
NextVersion(r) ==
    /\ req[r].ph = "count"
    /\ req' = [req EXCEPT
         ![r] = [@ EXCEPT !.n = 1 + Cardinality({h \in hist : h.row = req[r].cur /\ h.open \in {None, r}}),
         !.ph = "insert"]]
    /\ Keeps

Rivals(r) == {h \in hist : h.row = req[r].cur /\ h.n = req[r].n}

\* Mutant: the failure is only logged, whatever the model requires.
WithoutHistoryLogged(r) == IF InTx(r) /\ cfg.pg THEN Refuse(r, "500") ELSE Go(r, AfterHistory(r)) /\ Keeps

\* A failed history row fails the request when the model requires history, and whenever it
\* happened in a PostgreSQL transaction, which cannot commit any more.
WithoutHistory(r) ==
    IF cfg.versioned = "required" \/ (InTx(r) /\ cfg.pg)
    THEN Refuse(r, "500")
    ELSE Go(r, AfterHistory(r)) /\ Keeps

\* The insert waits for a rival's open transaction; UNIQUE (record_id, version) decides the rest.
InsertHistory(r) ==
    /\ req[r].ph = "insert"
    /\ WriterFree(r)
    /\ \A h \in Rivals(r) : h.open \in {None, r}
    /\ \/ /\ Rivals(r) = {}
          /\ hist' = hist \cup {[row |-> req[r].cur, n |-> req[r].n, pre |-> req[r].pre,
                                 post |-> req[r].post, open |-> IF InTx(r) THEN r ELSE None]}
          /\ Go(r, AfterHistory(r))
          /\ UNCHANGED <<row, lk, unc>>
       \/ /\ Rivals(r) # {} /\ ~InTx(r) /\ req[r].try + 1 < Retries
          /\ req' = [req EXCEPT ![r] = [@ EXCEPT !.ph = "count", !.try = req[r].try + 1]]
          /\ Keeps
       \/ /\ Rivals(r) # {} /\ (InTx(r) \/ req[r].try + 1 >= Retries)
          /\ WithoutHistory(r)

\* Mutant: the parent the body names first, in whatever order the map gave.
NextParentUnsorted(r) == IF Ask(r).fk \in req[r].aff THEN Ask(r).fk ELSE Least(req[r].aff)

\* affectedParents and runPendingRollups sort: every transaction takes parents in the order of their ids.
NextParent(r) == Least(req[r].aff)

\* recompute locks the parent, aggregates and stores.  A parent the same sweep deleted is
\* skipped by a cascade and fails a child's own write.
AfterTotals(r, aff) == IF aff # {} THEN "lockp" ELSE IF IsDrop(r) THEN "write" ELSE "finish"

\* Mutant: the parent is read without its lock, and first locked by the UPDATE.
ReadParent(r) ==
    LET p == NextParent(r)
        rest == req[r].aff \ {p}
    IN /\ req[r].ph = "lockp"
       /\ \/ View(r, p).alive /\ Go(r, "sum") /\ Keeps
          \/ ~View(r, p).alive /\ ~IsDrop(r) /\ Refuse(r, "500")
          \/ /\ ~View(r, p).alive /\ IsDrop(r)
             /\ req' = [req EXCEPT ![r] = [@ EXCEPT !.aff = rest, !.ph = AfterTotals(r, rest)]]
             /\ Keeps

LockParent(r) ==
    LET p == NextParent(r)
        rest == req[r].aff \ {p}
    IN /\ req[r].ph = "lockp"
       /\ CanLock(r, p)
       /\ \/ View(r, p).alive /\ ForUpdate(r, p) /\ Go(r, "sum") /\ UNCHANGED <<row, hist>>
          \/ ~View(r, p).alive /\ ~IsDrop(r) /\ Refuse(r, "500")
          \/ /\ ~View(r, p).alive /\ IsDrop(r)
             /\ req' = [req EXCEPT ![r] = [@ EXCEPT !.aff = rest, !.ph = AfterTotals(r, rest)]]
             /\ Keeps

Aggregate(r) ==
    /\ req[r].ph = "sum"
    /\ req' = [req EXCEPT ![r] = [@ EXCEPT !.n = Cardinality(ChildrenOf(r, NextParent(r))), !.ph = "store"]]
    /\ Keeps

StoreTotal(r) ==
    LET p == NextParent(r)
        rest == req[r].aff \ {p}
    IN /\ req[r].ph = "store"
       /\ CanLock(r, p)
       /\ Hold(r, p, [View(r, p) EXCEPT !.total = req[r].n, !.ver = @ + 1])
       /\ req' = [req EXCEPT ![r] = [@ EXCEPT !.aff = rest, !.ph = AfterTotals(r, rest)]]
       /\ UNCHANGED <<row, hist>>

\* WithTransaction commits what it opened and runs the commit hooks; the response goes out.
Finish(r) ==
    /\ req[r].ph = "finish"
    /\ req' = [req EXCEPT ![r] = [@ EXCEPT !.ph = "done", !.st = "2xx", !.tx = "none",
                          !.dur = TRUE, !.told = TRUE]]
    /\ IF InTx(r) THEN Commit(r) ELSE Keeps

-----------------------------------------------------------------------------
(* Faults and deadlocks *)

\* Mutant: a rollback runs the commit hooks that were queued instead of dropping them.
FailTold(r) ==
    /\ faults < MaxFaults
    /\ req[r].ph \notin {"new", "done", "count", "insert"}
    /\ faults' = faults + 1
    /\ Rollback(r)
    /\ req' = [req EXCEPT ![r] = [@ EXCEPT !.ph = "done", !.st = "500", !.tx = "none", !.told = TRUE]]

\* A statement fails, the connection is lost or the client hangs up.
Fail(r) ==
    /\ faults < MaxFaults
    /\ req[r].ph \notin {"new", "done", "count", "insert"}
    /\ faults' = faults + 1
    /\ Refuse(r, "500")

FailHistory(r) ==
    /\ faults < MaxFaults
    /\ req[r].ph \in {"count", "insert"}
    /\ faults' = faults + 1
    /\ WithoutHistory(r)

\* The commit reached the database and its answer was lost: 500, and the hooks are dropped.
CommitLost(r) ==
    /\ faults < MaxFaults
    /\ req[r].ph = "finish" /\ InTx(r)
    /\ faults' = faults + 1
    /\ Commit(r)
    /\ req' = [req EXCEPT ![r] = [@ EXCEPT !.ph = "done", !.st = "lost", !.tx = "none", !.dur = TRUE]]

\* The row whose lock a request's next statement needs.
Needs(r) ==
    CASE req[r].ph \in {"match", "write"} -> Target(r)
      [] req[r].ph = "child" -> req[r].cur
      [] req[r].ph = "lockp" -> NextParent(r)
      [] req[r].ph = "lockscope" /\ Ask(r).fk \in Parents -> Ask(r).fk
      [] OTHER -> None
Blocker(r) == IF Needs(r) = None THEN None ELSE lk[Needs(r)]
Deadlocked(r) == \E S \in SUBSET Requests : r \in S /\ \A s \in S : Blocker(s) \in S \ {s}

\* PostgreSQL ends a wait that closes a cycle with an error.
DeadlockVictim(r) ==
    /\ Deadlocked(r)
    /\ Refuse(r, "500")

-----------------------------------------------------------------------------
Progress(r) ==
    \/ Send(r) \/ Validate(r) \/ WithTransaction(r) \/ Affected(r) \/ CaptureImage(r)
    \/ EnforceWriteScope(r) \/ LockWhen(r) \/ EnforceOptimisticLock(r) \/ EnforceParentScope(r)
    \/ CascadeRestrict(r) \/ EachChildId(r) \/ CascadePreImage(r) \/ CascadeWrite(r)
    \/ LockScope(r) \/ Write(r) \/ OwnCommit(r)
    \/ NextVersion(r) \/ InsertHistory(r) \/ LockParent(r) \/ Aggregate(r) \/ StoreTotal(r)
    \/ Finish(r) \/ DeadlockVictim(r)
Step(r) == Progress(r) /\ UNCHANGED <<cfg, faults>>
Fault(r) == (Fail(r) \/ FailHistory(r) \/ CommitLost(r)) /\ UNCHANGED cfg

Next == \E r \in Requests : Step(r) \/ Fault(r)

Spec == Init /\ [][Next]_vars
\* Every request runs on its own goroutine, and the database ends every wait.
FairSpec == Spec /\ \A r \in Requests : WF_vars(Step(r))
-----------------------------------------------------------------------------
(* Properties *)

ReqType == [ph : Phases, ask : AskType, tag : Nat, aff : SUBSET Parents, pre : Nat, post : Nat,
            todo : SUBSET Children, walked : SUBSET Children, cur : Nat, n : Nat, try : Nat,
            tx : {"none", "with", "own"}, dur : BOOLEAN, told : BOOLEAN,
            st : {"none", "2xx", "404", "409", "412", "422", "500", "lost"}]

HistType == [row : Children, n : Nat, pre : Nat, post : Nat, open : Requests \cup {None}]

TypeOK ==
    /\ cfg \in Configs
    /\ row \in [Rows -> RowType] /\ unc \in [Rows -> RowType]
    /\ lk \in [Rows -> Requests \cup {None}]
    /\ hist \subseteq HistType /\ IsFiniteSet(hist)
    /\ faults \in 0..MaxFaults
    /\ req \in [Requests -> ReqType]

\* What a cascade and a recompute work on is there, and a drop meets its rollups before it is written.
WorkOf(r) ==
    /\ req[r].ph = "pre" => req[r].todo # {}
    /\ req[r].ph \in {"lockp", "sum", "store"} => req[r].aff # {}
    /\ req[r].ph \in {"child", "count", "insert"} => req[r].cur \in Children
    /\ req[r].ph = "owncommit" => req[r].cur = Target(r) /\ req[r].tx = "own"
    /\ (req[r].aff # {} /\ req[r].ph # "done") => InTx(r) /\ (IsDrop(r) \/ req[r].tx = "with")
    /\ req[r].ph \in {"restrict", "page", "pre", "child"} => IsDrop(r)
    /\ req[r].ph \in {"pre", "child"} => InTx(r)
    /\ IsDrop(r) => /\ req[r].ph # "affected"
                    /\ req[r].ph \in {"count", "insert"} => InTx(r)
                    /\ req[r].ph \in {"page", "pre", "child", "count", "insert", "lockp", "sum",
                                     "store", "done"} \/ req[r].aff = {}
                    /\ req[r].dur => req[r].ph \in {"finish", "done"}

\* Where a request stands once it has been checked: what the guards established in its transaction.
PastWrite == {"owncommit", "count", "insert", "lockp", "sum", "store", "finish"}
PastParent == {"restrict", "page", "pre", "child", "lockscope", "write"} \cup PastWrite
PastMatch == {"parent"} \cup PastParent
PastLockWhen == {"match"} \cup PastMatch
PastScope == {"lockwhen"} \cup PastLockWhen
Joined == {"affected", "image", "scope"} \cup PastScope

\* Locks and history rows belong to a running transaction.  Until the guards are through, a
\* transaction holds no lock but the one it took for If-Match.
TxOf(r) ==
    /\ InTx(r) => req[r].ph \in Joined
    /\ req[r].tx = "own" => req[r].ph \in PastScope
    /\ ~InTx(r) => (\A x \in Rows : lk[x] # r) /\ (\A h \in hist : h.open # r)
    /\ req[r].ph \notin PastMatch => \A x \in Rows : lk[x] # r
    /\ (~cfg.pg /\ req[r].ph \notin PastParent) => \A x \in Rows : lk[x] # r

\* On SQLite there is one transaction at a time.
OneWriter == ~cfg.pg => \A r, o \in Requests : (InTx(r) /\ InTx(o)) => r = o

\* The lock_when check runs in the transaction of the write: that of WithTransaction or of the scope.
CheckedInTx(r) ==
    IsChild(r) /\ Ask(r).op # "create" /\ ~CheckedEarly(r) /\ (Ask(r).tx \/ Ask(r).scope # None)

\* What a guard saw is still so in the committed image, until the request's own commit.
MatchGuard(r) ==
    (Ask(r).im = "tag" /\ Ask(r).op # "create" /\ req[r].ph \in PastMatch) =>
        InTx(r) /\ row[Target(r)].ver = req[r].tag /\ (cfg.pg => lk[Target(r)] = r)
ScopeGuard(r) ==
    (~cfg.pg /\ Ask(r).scope # None /\ Ask(r).op # "create" /\ req[r].ph \in PastScope) =>
        InTx(r) /\ row[Target(r)].owner = Ask(r).scope
ParentGuard(r) ==
    (~cfg.pg /\ Ask(r).scope # None /\ WritesFk(r) /\ req[r].ph \in PastParent) =>
        InTx(r) /\ row[Ask(r).fk].alive /\ row[Ask(r).fk].owner = Ask(r).scope
LockGuard(r) ==
    (~cfg.pg /\ CheckedInTx(r) /\ req[r].ph \in PastLockWhen) =>
        InTx(r) /\ ~(row[Target(r)].alive /\ row[Target(r)].locked)
GuardOf(r) == ~req[r].dur => MatchGuard(r) /\ ScopeGuard(r) /\ ParentGuard(r) /\ LockGuard(r)

\* Success and commit hooks come after durability, refusals before it.
AnswerOf(r) ==
    /\ (req[r].st = "2xx" \/ req[r].told) => req[r].dur
    /\ req[r].dur => req[r].ph \in PastWrite \cup {"done"}
    /\ (Ask(r).tx /\ req[r].st \notin {"2xx", "lost"}) => ~req[r].dur
    /\ (req[r].ph \notin {"new", "validate", "begin", "done"} /\ Ask(r).tx) => req[r].tx = "with"
    /\ req[r].ph # "done" => req[r].st = "none"

IInv ==
    /\ TypeOK
    /\ OneWriter
    /\ \A r \in Requests : WorkOf(r) /\ TxOf(r) /\ GuardOf(r) /\ AnswerOf(r)

\* r's own write becomes durable in this step.
Lands(r) == ~req[r].dur /\ req'[r].dur

\* A write accepted under If-Match replaces exactly the representation the client read: no other
\* writer, rollup or cascade gets in between (steps.go:1217, "a concurrent writer holding the same
\* ETag cannot pass its own check until this one commits").
NoLostUpdate ==
    [][\A r \in Requests :
         (Lands(r) /\ Ask(r).im = "tag" /\ Ask(r).op # "create") => row[Target(r)].ver = req[r].tag]_vars

AllTx == \A r \in Requests : IsChild(r) => Ask(r).tx
Moves == \E r \in Requests : IsChild(r) /\ Ask(r).op = "update" /\ Ask(r).fk # Keep

TotalsAgree ==
    \A p \in Parents :
        row[p].alive => row[p].total = Cardinality({c \in Children : row[c].alive /\ row[c].fk = p})

\* A parent's total counts its live children in every committed state, whatever creates, deletes,
\* moves and cascades interleave or fail, when the children are written under WithTransaction; on
\* PostgreSQL as long as no update moves a child (rollup.go:345, "locking before the aggregate closes
\* that window").
RollupExact == (cfg.rollup /\ AllTx /\ (cfg.pg => ~Moves)) => TotalsAgree

\* With VersionedRequired and WithTransaction, a child's committed history is exactly its committed
\* writes, one version each and in their order; on SQLite each row's pre-image is also the write
\* before it (versioning.go:161, the change and its history row stand or fall together).
HistoryExact ==
    (cfg.versioned = "required" /\ AllTx) =>
        \A c \in Children :
            LET kept == {h \in hist : h.row = c /\ h.open = None} IN
            /\ {h.n : h \in kept} = 1..row[c].ver
            /\ Cardinality(kept) = row[c].ver
            /\ \A h \in kept : h.post = h.n /\ (~cfg.pg => h.pre = h.n - 1)

\* What a request is answered and announces is what the store holds: success and a fired commit hook
\* mean a durable write, and a refusal of a transactional request means that nothing of it remained
\* (transaction.go:54; steps.go:2372).
AnswerIsTrue ==
    \A r \in Requests :
        /\ (req[r].st = "2xx" \/ req[r].told) => req[r].dur
        /\ (Ask(r).tx /\ req[r].ph = "done" /\ req[r].st \notin {"2xx", "lost"}) => ~req[r].dur
        /\ req[r].ph = "done" => \A x \in Rows : lk[x] # r

\* On SQLite a scoped write lands on a row that is in its scope at that moment, under a parent that is
\* (steps.go:1249, "the row cannot leave scope in between").
ScopeHeld ==
    [][\A r \in Requests :
         (Lands(r) /\ Ask(r).scope # None /\ ~cfg.pg) =>
             /\ Ask(r).op # "create" => row[Target(r)].owner = Ask(r).scope
             /\ (IsChild(r) /\ WritesFk(r)) =>
                    row[Ask(r).fk].alive /\ row[Ask(r).fk].owner = Ask(r).scope]_vars

\* On SQLite a write that is checked inside its own transaction never lands on a locked record
\* (steps.go:1084).  Excluded are the checks before the transaction: of an update whose scope
\* ProvidesScope hoists, and of a request that is bare until If-Match or the write itself.
LockRespected ==
    [][\A r \in Requests :
         (Lands(r) /\ CheckedInTx(r) /\ ~cfg.pg) =>
             ~(row[Target(r)].alive /\ row[Target(r)].locked)]_vars

\* On SQLite a parent that goes leaves no live child pointing at it, however many pages the cascade
\* takes and whatever is written around it (cascade.go:457).
NoChildLeftBehind ==
    [][\A p \in Parents :
         (~cfg.pg /\ row[p].alive /\ ~row'[p].alive) =>
             \A c \in Children : row'[c].alive => row'[c].fk # p]_vars

\* No requests wait for each other's row locks (rollup.go:281, "sorting gives every transaction the
\* same order"), as long as a delete of a parent takes no other parent's lock out of that order: it
\* does when it locks its own row first, for If-Match, and when it finds a child on PostgreSQL that
\* an update has moved since its page was read (runPendingRollups locks the child's new parent before
\* the delete locks its own row, cascade.go:205).
LocksParentFirst(r) == IsDrop(r) /\ Ask(r).im # "no"
MeetsMoved(r) == IsDrop(r) /\ cfg.pg /\ cfg.rollup /\ Moves
NoWaitCycle ==
    (\A r \in Requests : ~LocksParentFirst(r) /\ ~MeetsMoved(r)) => \A r \in Requests : ~Deadlocked(r)

\* Every request is answered: no statement waits forever for a lock, for the writer or for a rival's
\* history row.
EveryRequestEnds == \A r \in Requests : <>(req[r].ph = "done")
=============================================================================
