-------------------------- MODULE WritesTables_proofs --------------------------
(***************************************************************************)
(* What the write path promises of the tables as a whole, for any rows,    *)
(* requests, registrations and faults: a rollup counts its children, a     *)
(* history is the writes, a cascade leaves no child behind, and no         *)
(* requests wait for each other's row locks.                               *)
(*                                                                         *)
(* Each invariant speaks of every request's own fields and of the tables.  *)
(* A step changes the fields of one request only, and what another request *)
(* relies on (its locked rows; on SQLite, while it is in a transaction,    *)
(* every table) stays as it is: Undisturbed.  What remains is what a step  *)
(* does to its own request, one lemma per action in the first part.        *)
(***************************************************************************)
EXTENDS Writes_proofs

-----------------------------------------------------------------------------
(* What each action does to its request *)

\* The request's cascade and record fields, and the parents it still has to recompute.
SameWalk(r) == req'[r].todo = req[r].todo /\ req'[r].walked = req[r].walked
SameMark(r) == /\ req'[r].cur = req[r].cur /\ req'[r].n = req[r].n
               /\ req'[r].pre = req[r].pre /\ req'[r].post = req[r].post
SameWork(r) == SameWalk(r) /\ SameMark(r) /\ req'[r].aff = req[r].aff

\* The steps of a request: which phase a step that is passed over gives way to.
FromCascade(r) == IF IsDrop(r) THEN {"restrict", "page"}
                  ELSE IF IsChild(r) /\ Ask(r).op = "create" THEN {"lockscope", "write"} ELSE {"write"}
FromParent(r) == {"parent"} \cup FromCascade(r)
FromMatch(r) == (IF Ask(r).op # "create" /\ Ask(r).im # "no" THEN {"match"} ELSE {}) \cup FromParent(r)
FromLockWhen(r) == {"lockwhen"} \cup FromMatch(r)
FromScope(r) == {"scope"} \cup FromLockWhen(r)
FromImage(r) == IF Versioned /\ IsChild(r) /\ Ask(r).op # "create" THEN {"image"} ELSE FromScope(r)
FromAffected(r) == IF cfg.rollup /\ IsChild(r) THEN {"affected"} ELSE FromImage(r)
FromBegin(r) == {"begin"} \cup FromAffected(r)

LEMMA Passing ==
    ASSUME NEW r \in Requests
    PROVE  /\ ToCascade(r) \in FromCascade(r) /\ ToParent(r) \in FromParent(r)
           /\ ToMatch(r) \in FromMatch(r) /\ ToLockWhen(r) \in FromLockWhen(r)
           /\ ToScope(r) \in FromScope(r) /\ ToImage(r) \in FromImage(r)
           /\ ToAffected(r) \in FromAffected(r) /\ ToBegin(r) \in FromBegin(r)
           /\ ToValidate(r) \in {"validate"} \cup FromBegin(r)
<1>1. ToCascade(r) \in FromCascade(r)
  BY DEF ToCascade, ToWrite, FromCascade
<1>2. ToParent(r) \in FromParent(r)
  BY <1>1 DEF ToParent, FromParent
<1>3. ToMatch(r) \in FromMatch(r)
  BY <1>2 DEF ToMatch, FromMatch
<1>4. ToLockWhen(r) \in FromLockWhen(r)
  BY <1>3 DEF ToLockWhen, FromLockWhen
<1>5. ToScope(r) \in FromScope(r)
  BY <1>4 DEF ToScope, FromScope
<1>6. ToImage(r) \in FromImage(r)
  BY <1>5 DEF ToImage, FromImage
<1>7. ToAffected(r) \in FromAffected(r)
  BY <1>6 DEF ToAffected, FromAffected
<1>8. ToBegin(r) \in FromBegin(r)
  BY <1>7 DEF ToBegin, FromBegin
<1> QED BY <1>1, <1>2, <1>3, <1>4, <1>5, <1>6, <1>7, <1>8 DEF ToValidate

\* All the steps up to the write.
Guards(r) == {"validate", "begin", "affected"} \cup (IF Ask(r).op # "create" THEN {"image"} ELSE {}) \cup FromScope(r)

LEMMA Narrowing ==
    ASSUME NEW r \in Requests
    PROVE  /\ FromCascade(r) \subseteq Guards(r) /\ FromParent(r) \subseteq Guards(r)
           /\ FromMatch(r) \subseteq Guards(r) /\ FromLockWhen(r) \subseteq Guards(r)
           /\ FromScope(r) \subseteq Guards(r) /\ FromImage(r) \subseteq Guards(r)
           /\ FromAffected(r) \subseteq Guards(r) /\ FromBegin(r) \subseteq Guards(r)
<1>1. FromCascade(r) \subseteq FromParent(r)
  BY DEF FromParent
<1>2. FromParent(r) \subseteq FromMatch(r)
  BY DEF FromMatch
<1>3. FromMatch(r) \subseteq FromLockWhen(r)
  BY DEF FromLockWhen
<1>4. FromLockWhen(r) \subseteq FromScope(r) /\ FromScope(r) \subseteq Guards(r)
  BY DEF FromScope, Guards
<1>5. FromImage(r) \subseteq Guards(r)
  BY <1>4 DEF FromImage, Guards
<1>6. FromAffected(r) \subseteq Guards(r)
  BY <1>5 DEF FromAffected, Guards
<1>7. FromBegin(r) \subseteq Guards(r)
  BY <1>6 DEF FromBegin, Guards
<1> QED BY <1>1, <1>2, <1>3, <1>4, <1>5, <1>6, <1>7

\* The guards that take no lock lead on to a later step and change nothing else.
Passes(r) ==
    /\ Keeps /\ SameWork(r)
    /\ \/ req[r].ph \in {"new", "validate"} /\ req'[r].ph \in {"validate"} \cup FromBegin(r) /\ req'[r].tx = req[r].tx
       \/ req[r].ph = "begin" /\ req'[r].ph \in FromAffected(r) /\ req'[r].tx = "with"
       \/ req[r].ph = "scope" /\ req'[r].ph \in FromLockWhen(r) /\ req'[r].tx = Opened(r)
       \/ req[r].ph = "lockwhen" /\ req'[r].ph \in FromMatch(r) /\ req'[r].tx = req[r].tx
       \/ req[r].ph = "parent" /\ req'[r].ph \in FromCascade(r) /\ req'[r].tx = Opened(r)

Refuses(r) == \E status \in {"404", "409", "412", "422", "500"} : Refuse(r, status)

LEMMA RefuseWork ==
    ASSUME IInv, NEW r \in Requests, Refuses(r)
    PROVE  Rollback(r) /\ SameWork(r) /\ req'[r].ph = "done" /\ req'[r].tx = "none"
BY Types DEF IInv, Refuses, Refuse, SameWork, SameWalk, SameMark, ReqType, TypeOK

LEMMA GuardWork ==
    ASSUME IInv, NEW r \in Requests,
           \/ Send(r) \/ Validate(r) \/ WithTransaction(r) \/ EnforceWriteScope(r) \/ LockWhen(r)
           \/ EnforceParentScope(r)
    PROVE  Passes(r) \/ Refuses(r)
<1>1. CASE Send(r)
  BY <1>1, Passing, Types DEF IInv, TypeOK, Send, Passes, SameWork, SameWalk, SameMark, ReqType
<1>2. CASE Validate(r)
  BY <1>2, Passing, Types DEF IInv, TypeOK, Validate, Passes, Refuses, SameWork, SameWalk, SameMark, ReqType, Go
<1>3. CASE WithTransaction(r)
  BY <1>3, Passing, Types DEF IInv, TypeOK, WithTransaction, Passes, SameWork, SameWalk, SameMark, ReqType
<1>4. CASE EnforceWriteScope(r)
  <2>1. CASE ~InScope(r, View(r, Target(r)))
    BY <1>4, <2>1 DEF EnforceWriteScope, Refuses
  <2>2. CASE InScope(r, View(r, Target(r)))
    <3>1. req' = [req EXCEPT ![r] = [@ EXCEPT !.ph = ToLockWhen(r), !.tx = Opened(r)]] /\ Keeps
          /\ req[r].ph = "scope"
      BY <1>4, <2>2 DEF EnforceWriteScope
    <3> QED BY <3>1, Passing, Types DEF IInv, TypeOK, Passes, SameWork, SameWalk, SameMark, ReqType
  <2> QED BY <2>1, <2>2
<1>5. CASE LockWhen(r)
  BY <1>5, Passing, Types DEF IInv, TypeOK, LockWhen, Passes, Refuses, SameWork, SameWalk, SameMark, ReqType, Go
<1>6. CASE EnforceParentScope(r)
  <2>1. CASE ~InScope(r, View(r, Ask(r).fk))
    BY <1>6, <2>1 DEF EnforceParentScope, Refuses
  <2>2. CASE InScope(r, View(r, Ask(r).fk))
    <3>1. req' = [req EXCEPT ![r] = [@ EXCEPT !.ph = ToCascade(r), !.tx = Opened(r)]] /\ Keeps
          /\ req[r].ph = "parent"
      BY <1>6, <2>2 DEF EnforceParentScope
    <3> QED BY <3>1, Passing, Types DEF IInv, TypeOK, Passes, SameWork, SameWalk, SameMark, ReqType
  <2> QED BY <2>1, <2>2
<1> QED BY <1>1, <1>2, <1>3, <1>4, <1>5, <1>6
LEMMA AffectedWork ==
    ASSUME IInv, NEW r \in Requests, Affected(r), ~Refuses(r)
    PROVE  /\ Keeps /\ SameWalk(r) /\ SameMark(r) /\ req[r].ph = "affected" /\ req'[r].ph \in FromImage(r)
           /\ req'[r].tx = req[r].tx /\ req'[r].aff = AffectedParents(r)
           /\ AffectedParents(r) # {} => InTx(r)
<1>1. Keeps /\ req' = [req EXCEPT ![r] = [@ EXCEPT !.ph = ToImage(r), !.aff = AffectedParents(r)]]
      /\ (AffectedParents(r) # {} => InTx(r)) /\ req[r].ph = "affected"
  BY DEF Affected, Refuses
<1> QED BY <1>1, Passing, Types DEF IInv, TypeOK, SameWalk, SameMark, ReqType

LEMMA ImageWork ==
    ASSUME IInv, NEW r \in Requests, CaptureImage(r)
    PROVE  /\ Keeps /\ SameWalk(r) /\ req'[r].aff = req[r].aff /\ req[r].ph = "image" /\ req'[r].ph \in FromScope(r)
           /\ req'[r].tx = req[r].tx /\ req'[r].cur = req[r].cur
           /\ View(r, Target(r)).alive => req'[r].pre = View(r, Target(r)).ver
<1>1. Keeps /\ req[r].ph = "image"
      /\ req' = [req EXCEPT ![r] = [@ EXCEPT !.ph = ToScope(r),
                          !.pre = IF View(r, Target(r)).alive THEN View(r, Target(r)).ver ELSE 0]]
  BY DEF CaptureImage
<1> QED BY <1>1, Passing, Types DEF IInv, TypeOK, SameWalk, ReqType

LEMMA MatchWork ==
    ASSUME IInv, NEW r \in Requests, EnforceOptimisticLock(r), ~Refuses(r)
    PROVE  /\ ForUpdate(r, Target(r)) /\ UNCHANGED <<row, hist>> /\ CanLock(r, Target(r)) /\ View(r, Target(r)).alive
           /\ SameWork(r) /\ req[r].ph = "match" /\ req'[r].ph \in FromParent(r) /\ req'[r].tx = Opened(r)
           /\ MayBegin(r)
<1>1. /\ ForUpdate(r, Target(r)) /\ UNCHANGED <<row, hist>> /\ CanLock(r, Target(r)) /\ View(r, Target(r)).alive
      /\ req[r].ph = "match" /\ MayBegin(r)
      /\ req' = [req EXCEPT ![r] = [@ EXCEPT !.ph = ToParent(r), !.tx = Opened(r)]]
  BY DEF EnforceOptimisticLock, Refuses
<1> QED BY <1>1, Passing, Types DEF IInv, TypeOK, SameWork, SameWalk, SameMark, ReqType

LEMMA RestrictWork ==
    ASSUME IInv, NEW r \in Requests, CascadeRestrict(r), ~Refuses(r)
    PROVE  /\ Keeps /\ SameWork(r) /\ req[r].ph = "restrict" /\ req'[r].ph = "write" /\ req'[r].tx = Opened(r)
           /\ ChildrenOf(r, Target(r)) = {} /\ MayBegin(r)
<1>1. /\ Keeps /\ req[r].ph = "restrict" /\ ChildrenOf(r, Target(r)) = {} /\ MayBegin(r)
      /\ req' = [req EXCEPT ![r] = [@ EXCEPT !.ph = "write", !.tx = Opened(r)]]
  BY DEF CascadeRestrict, Refuses
<1> QED BY <1>1, Types DEF IInv, TypeOK, SameWork, SameWalk, SameMark, ReqType

\* The next page of the walk: the first children past the ones already walked.
Rest(r) == {c \in ChildrenOf(r, Target(r)) : \A d \in req[r].walked : d < c}
Page(r) == {c \in Rest(r) : Cardinality({d \in Rest(r) : d < c}) < PageSize}

LEMMA PageWork ==
    ASSUME IInv, NEW r \in Requests, EachChildId(r)
    PROVE  /\ Keeps /\ SameMark(r) /\ req'[r].aff = req[r].aff /\ req[r].ph = "page" /\ req'[r].tx = Opened(r)
           /\ MayBegin(r)
           /\ \/ /\ Page(r) = {} /\ SameWalk(r)
                 /\ req'[r].ph = IF req[r].aff = {} THEN "write" ELSE "lockp"
              \/ /\ Page(r) # {} /\ req'[r].ph = "pre" /\ req'[r].todo = Page(r)
                 /\ req'[r].walked = req[r].walked \cup Page(r)
<1>1. Keeps /\ req[r].ph = "page" /\ MayBegin(r)
  BY DEF EachChildId
<1>2. CASE Page(r) = {}
  <2>1. req' = [req EXCEPT ![r] = [@ EXCEPT !.tx = Opened(r),
                                  !.ph = IF req[r].aff = {} THEN "write" ELSE "lockp"]]
    BY <1>2 DEF EachChildId, Page, Rest
  <2> QED BY <1>1, <1>2, <2>1, Types DEF IInv, TypeOK, SameWalk, SameMark, ReqType
<1>3. CASE Page(r) # {}
  <2>1. req' = [req EXCEPT ![r] = [@ EXCEPT !.tx = Opened(r), !.ph = "pre", !.todo = Page(r),
                                  !.walked = req[r].walked \cup Page(r)]]
    BY <1>3 DEF EachChildId, Page, Rest
  <2> QED BY <1>1, <1>3, <2>1, Types DEF IInv, TypeOK, SameWalk, SameMark, ReqType
<1> QED BY <1>2, <1>3

LEMMA PreWork ==
    ASSUME IInv, NEW r \in Requests, CascadePreImage(r), ~Refuses(r)
    PROVE  /\ Keeps /\ SameWalk(r) /\ req[r].ph = "pre" /\ req'[r].ph = "child" /\ req'[r].tx = req[r].tx
           /\ req'[r].cur \in req[r].todo /\ req'[r].cur \in Children
           /\ \A y \in req[r].todo : req'[r].cur <= y
           /\ (Versioned \/ cfg.rollup) => View(r, req'[r].cur).alive /\ req'[r].pre = View(r, req'[r].cur).ver
           /\ req'[r].aff = IF cfg.rollup THEN req[r].aff \cup ({View(r, req'[r].cur).fk} \cap Parents)
                            ELSE req[r].aff
<1> DEFINE c == Least(req[r].todo)
           read == Versioned \/ cfg.rollup
<1>1. /\ Keeps /\ req[r].ph = "pre" /\ (read => View(r, c).alive)
      /\ req' = [req EXCEPT ![r] = [@ EXCEPT !.ph = "child", !.cur = c, !.pre = IF read THEN View(r, c).ver ELSE 0,
             !.aff = IF cfg.rollup THEN req[r].aff \cup ({View(r, c).fk} \cap Parents) ELSE req[r].aff]]
  BY DEF CascadePreImage, Refuses
<1>2. c \in req[r].todo /\ \A y \in req[r].todo : c <= y
  <2>1. req[r].todo # {} /\ req[r].todo \in SUBSET Nat
    BY <1>1, IdAssumption, Types DEF IInv, WorkOf, ReqType
  <2> QED BY <2>1, LeastMember
<1>3. c \in Children
  BY <1>2, Types DEF IInv, ReqType
<1> HIDE DEF c
<1>4. req'[r].cur = c
  BY <1>1, Types DEF IInv, TypeOK, ReqType
<1> QED BY <1>1, <1>2, <1>3, <1>4, Types DEF IInv, TypeOK, SameWalk, ReqType

\* What a cascade does to the child at hand.
Nulled(old) ==
    IF cfg.onDelete = "setNull" THEN [old EXCEPT !.fk = None, !.ver = @ + 1]
    ELSE [old EXCEPT !.alive = FALSE, !.ver = @ + 1]

LEMMA ChildWork ==
    ASSUME IInv, NEW r \in Requests, CascadeWrite(r), ~Refuses(r)
    PROVE  LET c == req[r].cur IN
           /\ c \in Children /\ CanLock(r, c) /\ View(r, c).alive /\ Hold(r, c, Nulled(View(r, c)))
           /\ UNCHANGED <<row, hist>> /\ req[r].ph = "child" /\ req'[r].tx = req[r].tx /\ InTx(r)
           /\ req'[r].ph = IF Versioned THEN "count" ELSE Onward(req[r].todo \ {c})
           /\ req'[r].todo = req[r].todo \ {c} /\ req'[r].walked = req[r].walked
           /\ req'[r].cur = c /\ req'[r].pre = req[r].pre /\ req'[r].aff = req[r].aff
           /\ req'[r].post = Nulled(View(r, c)).ver
<1> DEFINE c == req[r].cur
           new == Nulled(View(r, c))
<1>1. c \in Children /\ InTx(r)
  BY DEF CascadeWrite, IInv, WorkOf
<1>2. /\ CanLock(r, c) /\ View(r, c).alive /\ Hold(r, c, new) /\ UNCHANGED <<row, hist>> /\ req[r].ph = "child"
      /\ req' = [req EXCEPT ![r] = [@ EXCEPT !.ph = IF Versioned THEN "count" ELSE Onward(req[r].todo \ {c}),
                                     !.todo = req[r].todo \ {c}, !.post = new.ver, !.try = 0]]
  BY DEF CascadeWrite, Refuses, Nulled
<1> HIDE DEF new
<1>3. /\ req'[r].ph = (IF Versioned THEN "count" ELSE Onward(req[r].todo \ {c})) /\ req'[r].tx = req[r].tx
      /\ req'[r].todo = req[r].todo \ {c} /\ req'[r].walked = req[r].walked
      /\ req'[r].cur = c /\ req'[r].pre = req[r].pre /\ req'[r].aff = req[r].aff
      /\ req'[r].post = new.ver
  BY <1>2, Types DEF IInv, TypeOK, ReqType
<1> QED BY <1>1, <1>2, <1>3 DEF new

LEMMA LockScopeWork ==
    ASSUME IInv, NEW r \in Requests, LockScope(r), ~Refuses(r)
    PROVE  /\ UNCHANGED <<row, hist>> /\ SameWork(r) /\ req[r].ph = "lockscope" /\ req'[r].ph = "write"
           /\ req'[r].tx = req[r].tx /\ InTx(r)
           /\ \/ Keeps
              \/ /\ Ask(r).fk \in Parents /\ CanLock(r, Ask(r).fk) /\ View(r, Ask(r).fk).alive
                 /\ ForUpdate(r, Ask(r).fk)
<1>1. /\ UNCHANGED <<row, hist>> /\ req[r].ph = "lockscope" /\ InTx(r) /\ Go(r, "write")
      /\ \/ Keeps
         \/ Ask(r).fk \in Parents /\ CanLock(r, Ask(r).fk) /\ View(r, Ask(r).fk).alive /\ ForUpdate(r, Ask(r).fk)
  BY DEF LockScope, Refuses, InScope, Keeps
<1> QED BY <1>1, Types DEF IInv, TypeOK, SameWork, SameWalk, SameMark, ReqType, Go

\* The write of a request: in its transaction, or bare, when nobody holds the row and the writer is free.
LEMMA WriteWork ==
    ASSUME IInv, NEW r \in Requests, Write(r), ~Refuses(r)
    PROVE  LET x == Target(r)
               new == Written(r, View(r, x)) IN
           /\ req[r].ph = "write" /\ WriterFree(r) /\ CanLock(r, x) /\ (Ask(r).op # "create" => View(r, x).alive)
           /\ SameWalk(r) /\ req'[r].aff = req[r].aff /\ req'[r].tx = req[r].tx /\ req'[r].cur = x
           /\ req'[r].pre = req[r].pre /\ req'[r].post = new.ver /\ UNCHANGED hist
           /\ req'[r].ph = IF req[r].tx = "own" THEN "owncommit" ELSE AfterDB(r)
           /\ \/ InTx(r) /\ Hold(r, x, new) /\ UNCHANGED row
              \/ ~InTx(r) /\ lk[x] = None /\ row' = [row EXCEPT ![x] = new] /\ UNCHANGED <<lk, unc>>
<1> DEFINE x == Target(r)
           new == Written(r, View(r, x))
<1>1. /\ req[r].ph = "write" /\ WriterFree(r) /\ CanLock(r, x) /\ (Ask(r).op # "create" => View(r, x).alive)
      /\ UNCHANGED hist
      /\ \/ /\ InTx(r) /\ Hold(r, x, new) /\ UNCHANGED row
            /\ req' = [req EXCEPT ![r] = [@ EXCEPT !.ph = IF req[r].tx = "own" THEN "owncommit" ELSE AfterDB(r),
                                   !.cur = x, !.post = new.ver, !.try = 0]]
         \/ /\ ~InTx(r) /\ row' = [row EXCEPT ![x] = new] /\ UNCHANGED <<lk, unc>>
            /\ req' = [req EXCEPT ![r] = [@ EXCEPT !.ph = AfterDB(r), !.cur = x, !.post = new.ver,
                                   !.try = 0, !.dur = TRUE, !.told = TRUE]]
  BY DEF Write, Refuses
<1>2. x \in Rows /\ (~InTx(r) => lk[x] # r)
  BY Types DEF IInv, TxOf
<1> HIDE DEF new
<1>3. SameWalk(r) /\ req'[r].aff = req[r].aff /\ req'[r].tx = req[r].tx /\ req'[r].cur = x
      /\ req'[r].pre = req[r].pre /\ req'[r].post = new.ver
      /\ req'[r].ph = IF req[r].tx = "own" THEN "owncommit" ELSE AfterDB(r)
  <2>1. CASE req' = [req EXCEPT ![r] = [@ EXCEPT !.ph = IF req[r].tx = "own" THEN "owncommit" ELSE AfterDB(r),
                                   !.cur = x, !.post = new.ver, !.try = 0]]
    BY <2>1, Types DEF IInv, TypeOK, SameWalk, ReqType
  <2>2. CASE /\ ~InTx(r)
             /\ req' = [req EXCEPT ![r] = [@ EXCEPT !.ph = AfterDB(r), !.cur = x, !.post = new.ver,
                                   !.try = 0, !.dur = TRUE, !.told = TRUE]]
    <3>1. req[r].tx # "own"
      BY <2>2 DEF InTx
    <3>2. /\ req'[r].todo = req[r].todo /\ req'[r].walked = req[r].walked /\ req'[r].aff = req[r].aff
          /\ req'[r].tx = req[r].tx /\ req'[r].cur = x /\ req'[r].pre = req[r].pre /\ req'[r].post = new.ver
          /\ req'[r].ph = AfterDB(r)
      BY <2>2, Types DEF IInv, TypeOK, ReqType
    <3> QED BY <3>1, <3>2 DEF SameWalk
  <2> QED BY <1>1, <2>1, <2>2
<1> QED BY <1>1, <1>2, <1>3 DEF new, CanLock

LEMMA OwnCommitWork ==
    ASSUME IInv, NEW r \in Requests, OwnCommit(r)
    PROVE  /\ Commit(r) /\ SameWork(r) /\ req[r].ph = "owncommit" /\ req'[r].ph = AfterDB(r) /\ req'[r].tx = "none"
           /\ InTx(r) /\ req[r].tx = "own" /\ req[r].aff = {}
<1>1. Commit(r) /\ req[r].ph = "owncommit"
      /\ req' = [req EXCEPT ![r] = [@ EXCEPT !.ph = AfterDB(r), !.tx = "none", !.dur = TRUE, !.told = TRUE]]
  BY DEF OwnCommit
<1>2. InTx(r) /\ req[r].tx = "own" /\ req[r].aff = {}
  BY <1>1 DEF IInv, WorkOf, InTx
<1> QED BY <1>1, <1>2, Types DEF IInv, TypeOK, SameWork, SameWalk, SameMark, ReqType

LEMMA CountWork ==
    ASSUME IInv, NEW r \in Requests, NextVersion(r)
    PROVE  /\ Keeps /\ SameWalk(r) /\ req'[r].aff = req[r].aff /\ req[r].ph = "count" /\ req'[r].ph = "insert"
           /\ req'[r].tx = req[r].tx /\ req'[r].cur = req[r].cur /\ req'[r].pre = req[r].pre
           /\ req'[r].post = req[r].post
           /\ req'[r].n = 1 + Cardinality({h \in hist : h.row = req[r].cur /\ h.open \in {None, r}})
<1> DEFINE n == 1 + Cardinality({h \in hist : h.row = req[r].cur /\ h.open \in {None, r}})
<1>1. Keeps /\ req[r].ph = "count" /\ req' = [req EXCEPT ![r] = [@ EXCEPT !.n = n, !.ph = "insert"]]
  BY DEF NextVersion
<1> HIDE DEF n
<1>2. SameWalk(r) /\ req'[r].aff = req[r].aff /\ req'[r].ph = "insert" /\ req'[r].n = n
      /\ req'[r].tx = req[r].tx /\ req'[r].cur = req[r].cur /\ req'[r].pre = req[r].pre
      /\ req'[r].post = req[r].post
  BY <1>1, Types DEF IInv, TypeOK, SameWalk, ReqType
<1> QED BY <1>1, <1>2 DEF n

Entry(r) == [row |-> req[r].cur, n |-> req[r].n, pre |-> req[r].pre, post |-> req[r].post,
             open |-> IF InTx(r) THEN r ELSE None]

\* The history row is inserted, given up, or attempted again.
LEMMA InsertWork ==
    ASSUME IInv, NEW r \in Requests, InsertHistory(r), ~Refuses(r)
    PROVE  /\ UNCHANGED <<row, lk, unc>> /\ req[r].ph = "insert" /\ SameWork(r) /\ req'[r].tx = req[r].tx
           /\ WriterFree(r)
           /\ \/ Rivals(r) = {} /\ hist' = hist \cup {Entry(r)} /\ req'[r].ph = AfterHistory(r)
              \/ Rivals(r) # {} /\ ~InTx(r) /\ Keeps /\ req'[r].ph = "count"
              \/ /\ Rivals(r) # {} /\ Keeps /\ req'[r].ph = AfterHistory(r)
                 /\ ~(cfg.versioned = "required" \/ (InTx(r) /\ cfg.pg))
<1>1. req[r].ph = "insert" /\ WriterFree(r)
  BY DEF InsertHistory
<1>2. CASE Rivals(r) = {}
  <2>1. hist' = hist \cup {Entry(r)} /\ Go(r, AfterHistory(r)) /\ UNCHANGED <<row, lk, unc>>
    BY <1>2 DEF InsertHistory, Entry
  <2> QED BY <1>1, <1>2, <2>1, Types DEF IInv, TypeOK, SameWork, SameWalk, SameMark, ReqType, Go
<1>3. CASE Rivals(r) # {} /\ ~InTx(r) /\ req[r].try + 1 < Retries
  <2>1. Keeps /\ req' = [req EXCEPT ![r] = [@ EXCEPT !.ph = "count", !.try = req[r].try + 1]]
    BY <1>3, Types, BoundAssumption DEF InsertHistory, IInv, ReqType
  <2> QED BY <1>1, <1>3, <2>1, Types DEF IInv, TypeOK, SameWork, SameWalk, SameMark, ReqType, Keeps
<1>4. CASE Rivals(r) # {} /\ ~(~InTx(r) /\ req[r].try + 1 < Retries)
  <2>1. Keeps /\ Go(r, AfterHistory(r)) /\ ~(cfg.versioned = "required" \/ (InTx(r) /\ cfg.pg))
    BY <1>4 DEF InsertHistory, WithoutHistory, Refuses
  <2> QED BY <1>1, <1>4, <2>1, Types DEF IInv, TypeOK, SameWork, SameWalk, SameMark, ReqType, Go, Keeps
<1> QED BY <1>2, <1>3, <1>4

\* A history row that failed and is only logged.
LEMMA LoggedWork ==
    ASSUME IInv, NEW r \in Requests, FailHistory(r), ~Refuses(r)
    PROVE  /\ Keeps /\ SameWork(r) /\ req[r].ph \in {"count", "insert"} /\ req'[r].ph = AfterHistory(r)
           /\ req'[r].tx = req[r].tx /\ ~(cfg.versioned = "required" \/ (InTx(r) /\ cfg.pg))
<1>1. Keeps /\ Go(r, AfterHistory(r)) /\ req[r].ph \in {"count", "insert"}
      /\ ~(cfg.versioned = "required" \/ (InTx(r) /\ cfg.pg))
  BY DEF FailHistory, WithoutHistory, Refuses
<1> QED BY <1>1, Types DEF IInv, TypeOK, SameWork, SameWalk, SameMark, ReqType, Go

LEMMA LockParentWork ==
    ASSUME IInv, NEW r \in Requests, LockParent(r), ~Refuses(r)
    PROVE  LET p == NextParent(r) IN
           /\ p \in Parents /\ p \in req[r].aff /\ (\A q \in req[r].aff : p <= q) /\ CanLock(r, p) /\ InTx(r)
           /\ req[r].ph = "lockp" /\ UNCHANGED <<row, hist>>
           /\ SameWalk(r) /\ SameMark(r) /\ req'[r].tx = req[r].tx
           /\ \/ /\ View(r, p).alive /\ ForUpdate(r, p) /\ req'[r].ph = "sum" /\ req'[r].aff = req[r].aff
              \/ /\ ~View(r, p).alive /\ IsDrop(r) /\ Keeps /\ req'[r].aff = req[r].aff \ {p}
                 /\ req'[r].ph = AfterTotals(r, req[r].aff \ {p})
<1> DEFINE p == NextParent(r)
<1>1. req[r].ph = "lockp" /\ CanLock(r, p)
      /\ \/ View(r, p).alive /\ ForUpdate(r, p) /\ Go(r, "sum") /\ UNCHANGED <<row, hist>>
         \/ /\ ~View(r, p).alive /\ IsDrop(r) /\ Keeps
            /\ req' = [req EXCEPT ![r] = [@ EXCEPT !.aff = req[r].aff \ {p}, !.ph = AfterTotals(r, req[r].aff \ {p})]]
  BY DEF LockParent, Refuses
<1>2. InTx(r) /\ req[r].aff # {}
  BY <1>1 DEF IInv, WorkOf
<1>3. p \in req[r].aff /\ \A q \in req[r].aff : p <= q
  <2>1. req[r].aff \in SUBSET Nat
    BY IdAssumption, Types DEF IInv, ReqType
  <2> QED BY <1>2, <2>1, LeastMember DEF NextParent
<1>4. p \in Parents
  BY <1>3, Types DEF IInv, ReqType
<1> HIDE DEF p
<1>5. SameWalk(r) /\ SameMark(r) /\ req'[r].tx = req[r].tx
      /\ \/ View(r, p).alive /\ ForUpdate(r, p) /\ req'[r].ph = "sum" /\ req'[r].aff = req[r].aff /\ UNCHANGED <<row, hist>>
         \/ /\ ~View(r, p).alive /\ IsDrop(r) /\ Keeps /\ req'[r].aff = req[r].aff \ {p}
            /\ req'[r].ph = AfterTotals(r, req[r].aff \ {p})
  <2>1. CASE View(r, p).alive /\ ForUpdate(r, p) /\ Go(r, "sum") /\ UNCHANGED <<row, hist>>
    BY <2>1, Types DEF IInv, TypeOK, SameWalk, SameMark, ReqType, Go
  <2>2. CASE /\ ~View(r, p).alive /\ IsDrop(r) /\ Keeps
             /\ req' = [req EXCEPT ![r] = [@ EXCEPT !.aff = req[r].aff \ {p}, !.ph = AfterTotals(r, req[r].aff \ {p})]]
    BY <2>2, Types DEF IInv, TypeOK, SameWalk, SameMark, ReqType
  <2> QED BY <1>1, <2>1, <2>2
<1> QED BY <1>1, <1>2, <1>3, <1>4, <1>5 DEF p, Keeps

LEMMA SumWork ==
    ASSUME IInv, NEW r \in Requests, Aggregate(r)
    PROVE  /\ Keeps /\ SameWalk(r) /\ req'[r].aff = req[r].aff /\ req[r].ph = "sum" /\ req'[r].ph = "store"
           /\ req'[r].tx = req[r].tx /\ req'[r].cur = req[r].cur /\ req'[r].pre = req[r].pre
           /\ req'[r].post = req[r].post /\ req'[r].n = Cardinality(ChildrenOf(r, NextParent(r)))
           /\ InTx(r) /\ req[r].aff # {}
<1> DEFINE n == Cardinality(ChildrenOf(r, NextParent(r)))
<1>1. Keeps /\ req[r].ph = "sum" /\ req' = [req EXCEPT ![r] = [@ EXCEPT !.n = n, !.ph = "store"]]
  BY DEF Aggregate
<1>2. InTx(r) /\ req[r].aff # {}
  BY <1>1 DEF IInv, WorkOf
<1> HIDE DEF n
<1>3. SameWalk(r) /\ req'[r].aff = req[r].aff /\ req'[r].ph = "store" /\ req'[r].n = n
      /\ req'[r].tx = req[r].tx /\ req'[r].cur = req[r].cur /\ req'[r].pre = req[r].pre
      /\ req'[r].post = req[r].post
  BY <1>1, Types DEF IInv, TypeOK, SameWalk, ReqType
<1> QED BY <1>1, <1>2, <1>3 DEF n

LEMMA StoreWork ==
    ASSUME IInv, NEW r \in Requests, StoreTotal(r)
    PROVE  LET p == NextParent(r) IN
           /\ p \in Parents /\ p \in req[r].aff /\ (\A q \in req[r].aff : p <= q) /\ CanLock(r, p) /\ InTx(r)
           /\ req[r].ph = "store" /\ UNCHANGED <<row, hist>> /\ SameWalk(r) /\ SameMark(r)
           /\ req'[r].tx = req[r].tx
           /\ Hold(r, p, [View(r, p) EXCEPT !.total = req[r].n, !.ver = @ + 1])
           /\ req'[r].aff = req[r].aff \ {p} /\ req'[r].ph = AfterTotals(r, req[r].aff \ {p})
<1> DEFINE p == NextParent(r)
<1>1. /\ req[r].ph = "store" /\ CanLock(r, p) /\ UNCHANGED <<row, hist>>
      /\ Hold(r, p, [View(r, p) EXCEPT !.total = req[r].n, !.ver = @ + 1])
      /\ req' = [req EXCEPT ![r] = [@ EXCEPT !.aff = req[r].aff \ {p}, !.ph = AfterTotals(r, req[r].aff \ {p})]]
  BY DEF StoreTotal
<1>2. InTx(r) /\ req[r].aff # {}
  BY <1>1 DEF IInv, WorkOf
<1>3. p \in req[r].aff /\ \A q \in req[r].aff : p <= q
  <2>1. req[r].aff \in SUBSET Nat
    BY IdAssumption, Types DEF IInv, ReqType
  <2> QED BY <1>2, <2>1, LeastMember DEF NextParent
<1>4. p \in Parents
  BY <1>3, Types DEF IInv, ReqType
<1> HIDE DEF p
<1>5. SameWalk(r) /\ SameMark(r) /\ req'[r].tx = req[r].tx
      /\ req'[r].aff = req[r].aff \ {p} /\ req'[r].ph = AfterTotals(r, req[r].aff \ {p})
  BY <1>1, Types DEF IInv, TypeOK, SameWalk, SameMark, ReqType
<1> QED BY <1>1, <1>2, <1>3, <1>4, <1>5 DEF p

\* The end of a request, committed or answered without a transaction.
LEMMA FinishWork ==
    ASSUME IInv, NEW r \in Requests, Finish(r) \/ CommitLost(r)
    PROVE  /\ SameWork(r) /\ req[r].ph = "finish" /\ req'[r].ph = "done" /\ req'[r].tx = "none"
           /\ \/ InTx(r) /\ Commit(r)
              \/ ~InTx(r) /\ Keeps
<1>1. CASE Finish(r)
  <2>1. /\ req[r].ph = "finish" /\ (IF InTx(r) THEN Commit(r) ELSE Keeps)
        /\ req' = [req EXCEPT ![r] = [@ EXCEPT !.ph = "done", !.st = "2xx", !.tx = "none",
                          !.dur = TRUE, !.told = TRUE]]
    BY <1>1 DEF Finish
  <2> QED BY <2>1, Types DEF IInv, TypeOK, SameWork, SameWalk, SameMark, ReqType
<1>2. CASE CommitLost(r)
  <2>1. /\ req[r].ph = "finish" /\ InTx(r) /\ Commit(r)
        /\ req' = [req EXCEPT ![r] = [@ EXCEPT !.ph = "done", !.st = "lost", !.tx = "none", !.dur = TRUE]]
    BY <1>2 DEF CommitLost
  <2> QED BY <2>1, Types DEF IInv, TypeOK, SameWork, SameWalk, SameMark, ReqType
<1> QED BY <1>1, <1>2

\* Every step of a request is one of these.
LEMMA StepCases ==
    ASSUME IInv, NEW r \in Requests, Step(r) \/ Fault(r), ~Refuses(r)
    PROVE  \/ Passes(r) \/ Affected(r) \/ CaptureImage(r) \/ EnforceOptimisticLock(r) \/ CascadeRestrict(r)
           \/ EachChildId(r) \/ CascadePreImage(r) \/ CascadeWrite(r) \/ LockScope(r) \/ Write(r) \/ OwnCommit(r)
           \/ NextVersion(r) \/ InsertHistory(r) \/ FailHistory(r) \/ LockParent(r) \/ Aggregate(r)
           \/ StoreTotal(r) \/ Finish(r) \/ CommitLost(r)
<1>1. CASE Progress(r)
  BY <1>1, GuardWork DEF Progress, DeadlockVictim, Refuses
<1>2. CASE Fail(r) \/ FailHistory(r) \/ CommitLost(r)
  BY <1>2 DEF Fail, Refuses
<1> QED BY <1>1, <1>2 DEF Step, Fault

-----------------------------------------------------------------------------
(* What a step leaves to the other requests *)

\* A step takes one row lock, writes one row bare, adds one history row, or ends a transaction.
Takes(r, x, image) == x \in Rows /\ CanLock(r, x) /\ Hold(r, x, image) /\ UNCHANGED <<row, hist>> /\ (cfg.pg \/ InTx(r))
WritesBare(r, x, image) ==
    /\ x \in Rows /\ ~InTx(r) /\ WriterFree(r) /\ lk[x] = None
    /\ row' = [row EXCEPT ![x] = image] /\ UNCHANGED <<lk, unc, hist>>
Records(r) ==
    req[r].ph = "insert" /\ UNCHANGED <<row, lk, unc>> /\ hist' = hist \cup {Entry(r)} /\ WriterFree(r)
Commits(r) == req[r].ph \in {"owncommit", "finish"} /\ InTx(r) /\ Commit(r)

LEMMA Locking ==
    ASSUME IInv, NEW r \in Requests, NEW x \in Rows, CanLock(r, x), ForUpdate(r, x), UNCHANGED <<row, hist>>
    PROVE  Keeps \/ (cfg.pg /\ Takes(r, x, View(r, x)))
BY DEF ForUpdate, Takes, Keeps

LEMMA TableSteps ==
    ASSUME IInv, NEW r \in Requests, Step(r) \/ Fault(r)
    PROVE  \/ Keeps \/ (\E x, image : Takes(r, x, image)) \/ (\E x, image : WritesBare(r, x, image))
           \/ Records(r) \/ Commits(r) \/ (Refuses(r) /\ Rollback(r))
<1> DEFINE Goal == \/ Keeps \/ (\E x, image : Takes(r, x, image)) \/ (\E x, image : WritesBare(r, x, image))
                   \/ Records(r) \/ Commits(r) \/ (Refuses(r) /\ Rollback(r))
<1>1. CASE Refuses(r)
  BY <1>1 DEF Refuses, Refuse
<1> SUFFICES ASSUME ~Refuses(r) PROVE Goal
  BY <1>1
<1>2. CASE Passes(r) \/ Affected(r) \/ CaptureImage(r) \/ CascadeRestrict(r) \/ EachChildId(r) \/ CascadePreImage(r)
           \/ NextVersion(r) \/ FailHistory(r) \/ Aggregate(r)
  BY <1>2, AffectedWork, ImageWork, RestrictWork, PageWork, PreWork, CountWork, LoggedWork, SumWork DEF Passes
<1>3. CASE EnforceOptimisticLock(r)
  BY <1>3, MatchWork, Locking, Types DEF IInv
<1>4. CASE CascadeWrite(r)
  BY <1>4, ChildWork DEF Takes, Rows
<1>5. CASE LockScope(r)
  BY <1>5, LockScopeWork, Locking, Types DEF IInv
<1>6. CASE Write(r)
  BY <1>6, WriteWork, Types DEF Takes, WritesBare, IInv
<1>7. CASE OwnCommit(r)
  BY <1>7, OwnCommitWork DEF Commits
<1>8. CASE InsertHistory(r)
  BY <1>8, InsertWork DEF Records
<1>9. CASE LockParent(r)
  BY <1>9, LockParentWork, Locking, Types DEF IInv
<1>10. CASE StoreTotal(r)
  BY <1>10, StoreWork, Types DEF IInv, Takes
<1>11. CASE Finish(r) \/ CommitLost(r)
  BY <1>11, FinishWork DEF Commits
<1> HIDE DEF Goal
<1> QED BY <1>2, <1>3, <1>4, <1>5, <1>6, <1>7, <1>8, <1>9, <1>10, <1>11, StepCases

\* What another request holds stays as it is; on SQLite, while it is in a transaction, everything does.
Undisturbed(o) ==
    /\ req'[o] = req[o]
    /\ \A x \in Rows : lk'[x] = o <=> lk[x] = o
    /\ \A x \in Rows : lk[x] = o => unc'[x] = unc[x] /\ row'[x] = row[x]
    /\ \A h : h.open = o => (h \in hist' <=> h \in hist)
    /\ (~cfg.pg /\ InTx(o)) => UNCHANGED <<row, lk, unc, hist>>

LEMMA OthersUndisturbed ==
    ASSUME IInv, NEW r \in Requests, Step(r) \/ Fault(r), cfg' = cfg, NEW o \in Requests, o # r
    PROVE  Undisturbed(o)
<1>1. req'[o] = req[o]
  BY ProgressSound, FaultSound DEF Step, Fault, Sound
<1>2. TypeOK /\ TxOf(r) /\ TxOf(o)
  BY DEF IInv
<1>3. CASE Keeps
  BY <1>1, <1>3 DEF Keeps, Undisturbed
<1>4. ASSUME NEW x, NEW image, Takes(r, x, image) PROVE Undisturbed(o)
  <2>1. lk[x] \in {r, None} /\ x \in Rows
    BY <1>4 DEF Takes, CanLock
  <2>2. (~cfg.pg /\ InTx(o)) => FALSE
    BY <1>4, <2>1 DEF Takes, IInv, OneWriter
  <2> QED BY <1>1, <1>2, <1>4, <2>1, <2>2, NoneAssumption DEF Takes, Hold, Undisturbed, TypeOK
<1>5. ASSUME NEW x, NEW image, WritesBare(r, x, image) PROVE Undisturbed(o)
  BY <1>1, <1>2, <1>5, NoneAssumption DEF WritesBare, Undisturbed, TypeOK, WriterFree
<1>6. CASE Records(r)
  <2>1. Entry(r).open # o
    BY NoneAssumption DEF Entry
  <2>2. (~cfg.pg /\ InTx(o)) => FALSE
    BY <1>6 DEF Records, WriterFree
  <2> HIDE DEF Entry
  <2> QED BY <1>1, <1>6, <2>1, <2>2 DEF Records, Undisturbed
<1>7. CASE Commits(r)
  <2>1. ~(~cfg.pg /\ InTx(o))
    BY <1>7 DEF Commits, IInv, OneWriter
  <2>2. \A x \in Rows : lk[x] = o => row'[x] = row[x]
    BY <1>7 DEF Commits, Commit, View
  <2>3. (\A x \in Rows : lk'[x] = o <=> lk[x] = o) /\ unc' = unc
    BY <1>2, <1>7, NoneAssumption DEF Commits, Commit, TypeOK
  <2>4. ASSUME NEW h, h.open = o PROVE h \in hist' <=> h \in hist
    <3> DEFINE f(g) == [g EXCEPT !.open = IF g.open = r THEN None ELSE g.open]
    <3>1. hist' = {f(g) : g \in hist}
      BY <1>7 DEF Commits, Commit
    <3>2. \A g \in hist : g \in HistType
      BY <1>2 DEF TypeOK
    <3>3. \A g \in HistType : (g.open # r => f(g) = g) /\ (g.open = r => f(g).open = None)
      BY DEF HistType
    <3> HIDE DEF f
    <3> QED BY <2>4, <3>1, <3>2, <3>3, NoneAssumption
  <2> QED BY <1>1, <2>1, <2>2, <2>3, <2>4 DEF Undisturbed
<1>8. CASE Rollback(r)
  <2>1. ASSUME ~InTx(r) PROVE lk' = lk /\ hist' = hist
    BY <1>2, <1>8, <2>1 DEF Rollback, TxOf, TypeOK
  <2>2. (~cfg.pg /\ InTx(o)) => UNCHANGED <<row, lk, unc, hist>>
    BY <1>8, <2>1 DEF IInv, OneWriter, Rollback
  <2> QED BY <1>1, <1>2, <1>8, <2>2, NoneAssumption DEF Rollback, Undisturbed, TypeOK
<1> QED BY <1>3, <1>4, <1>5, <1>6, <1>7, <1>8, TableSteps

-----------------------------------------------------------------------------
(* What was asked, and the rows that do not exist yet *)

Creating(r) == Ask(r).op = "create" /\ req[r].ph \notin PastWrite \cup {"done"}

\* A request stays the one it was sent as, and until its write nobody sees the row it creates.
Fresh(r) ==
    /\ Ask(r) \in Asks[r]
    /\ req[r].ph \in {"image", "match"} => Ask(r).op # "create"
    /\ req[r].ph = "match" => Ask(r).im # "no"
    /\ req[r].ph = "affected" => IsChild(r)
    /\ req[r].ph = "lockscope" => IsChild(r) /\ Ask(r).op = "create"
    /\ Creating(r) => row[Target(r)] = InitRow[Target(r)] /\ lk[Target(r)] = None
FreshInv == \A r \in Requests : Fresh(r)

\* A request keeps what it asks for, and what follows from that alone.
LEMMA SameAsk ==
    ASSUME IInv, NEW r \in Requests, Step(r) \/ Fault(r), cfg' = cfg, NEW o \in Requests
    PROVE  /\ Ask(o)' = Ask(o) /\ Target(o)' = Target(o) /\ IsChild(o)' = IsChild(o) /\ IsDrop(o)' = IsDrop(o)
           /\ IInv'
           /\ o # r => Undisturbed(o) /\ InTx(o)' = InTx(o)
<1>1. Sound(r)
  BY ProgressSound, FaultSound DEF Step, Fault
<1>2. faults' \in 0..MaxFaults
  <2>1. CASE Step(r)
    BY <2>1 DEF Step, IInv, TypeOK
  <2>2. CASE Fault(r)
    BY <2>2, BoundAssumption DEF Fault, Fail, FailHistory, CommitLost, IInv, TypeOK
  <2> QED BY <2>1, <2>2
<1>3. IInv'
  BY <1>1, <1>2, SoundStep
<1>4. o # r => Undisturbed(o) /\ InTx(o)' = InTx(o)
  BY OthersUndisturbed DEF Undisturbed, InTx
<1>5. req'[o].ask = req[o].ask
  BY <1>1 DEF Sound
<1> QED BY <1>3, <1>4, <1>5 DEF Ask, Target, IsChild, IsDrop

\* Only its creator's write touches a row that does not exist yet.
LEMMA UntouchedUntilWritten ==
    ASSUME IInv, FreshInv, NEW r \in Requests, Step(r) \/ Fault(r), NEW o \in Requests, Creating(o),
           ~(o = r /\ Write(r) /\ ~Refuses(r))
    PROVE  row'[Target(o)] = row[Target(o)] /\ lk'[Target(o)] = None
<1> DEFINE x == Target(o)
           Same == row'[x] = row[x] /\ lk'[x] = None
<1>1. x \in Children /\ x \in Rows /\ x \notin Parents /\ ~row[x].alive /\ lk[x] = None
      /\ \A q \in Requests \ {o} : Target(q) # x
  BY FreshAssumption, IdAssumption DEF FreshInv, Fresh, Creating, Target, Rows
<1>2. TypeOK /\ \A q \in Requests : View(q, x) = row[x]
  BY <1>1, NoneAssumption DEF IInv, View
<1>3. ASSUME NEW y \in Rows, y # x, Hold(r, y, unc'[y]) \/ ForUpdate(r, y), UNCHANGED <<row, hist>> PROVE Same
  BY <1>1, <1>2, <1>3 DEF Hold, ForUpdate, TypeOK
<1>4. ASSUME Keeps PROVE Same
  BY <1>1, <1>4 DEF Keeps
<1>5. ASSUME Rollback(r) \/ Commit(r) PROVE Same
  BY <1>1, <1>2, <1>5, NoneAssumption DEF Rollback, Commit, TypeOK
<1>6. CASE Refuses(r)
  BY <1>5, <1>6 DEF Refuses, Refuse
<1> SUFFICES ASSUME ~Refuses(r) PROVE Same
  BY <1>6
<1> HIDE DEF Same
<1>7. CASE Passes(r) \/ Affected(r) \/ CaptureImage(r) \/ CascadeRestrict(r) \/ EachChildId(r) \/ CascadePreImage(r)
           \/ NextVersion(r) \/ FailHistory(r) \/ Aggregate(r)
  BY <1>4, <1>7, AffectedWork, ImageWork, RestrictWork, PageWork, PreWork, CountWork, LoggedWork, SumWork DEF Passes
<1>8. CASE EnforceOptimisticLock(r)
  <2>1. Target(r) # x
    BY <1>1, <1>8, MatchWork DEF FreshInv, Fresh, Creating
  <2> QED BY <1>3, <1>8, <2>1, MatchWork, Types DEF IInv
<1>9. CASE CascadeWrite(r)
  <2>1. req[r].cur \in Rows /\ req[r].cur # x /\ UNCHANGED <<row, hist>>
        /\ Hold(r, req[r].cur, Nulled(View(r, req[r].cur)))
    BY <1>1, <1>2, <1>9, ChildWork DEF Rows
  <2>2. lk'[x] = lk[x]
    BY <2>1 DEF Hold
  <2> QED BY <1>1, <2>1, <2>2 DEF Same
<1>10. CASE LockScope(r)
  BY <1>1, <1>3, <1>4, <1>10, LockScopeWork DEF Rows
<1>11. CASE Write(r)
  <2>1. Target(r) # x
    BY <1>1, <1>11
  <2> QED BY <1>1, <1>2, <1>11, <2>1, WriteWork DEF Same, Hold, TypeOK
<1>12. CASE OwnCommit(r) \/ Finish(r) \/ CommitLost(r)
  BY <1>4, <1>5, <1>12, OwnCommitWork, FinishWork
<1>13. CASE InsertHistory(r)
  BY <1>1, <1>13, InsertWork DEF Same
<1>14. CASE LockParent(r)
  BY <1>1, <1>3, <1>4, <1>14, LockParentWork DEF Rows
<1>15. CASE StoreTotal(r)
  <2>1. NextParent(r) # x /\ lk' = [lk EXCEPT ![NextParent(r)] = r] /\ row' = row
    BY <1>1, <1>15, StoreWork DEF Hold
  <2> QED BY <1>1, <2>1 DEF Same
<1>16. Same
  BY <1>7, <1>8, <1>9, <1>10, <1>11, <1>12, <1>13, <1>14, <1>15, StepCases
<1> QED BY <1>16 DEF Same

\* Where a request may be found after a step: the guards lead forward, the work after the write stays after it.
LEMMA Paths ==
    ASSUME IInv, FreshInv, NEW r \in Requests, Step(r) \/ Fault(r)
    PROVE  /\ req'[r].ph \in {"image", "match"} => Ask(r).op # "create"
           /\ req'[r].ph = "match" => Ask(r).im # "no"
           /\ req'[r].ph = "affected" => IsChild(r)
           /\ req'[r].ph = "lockscope" => IsChild(r) /\ Ask(r).op = "create"
           /\ (req[r].ph \in PastWrite \cup {"done"} /\ ~IsDrop(r)) => req'[r].ph \in PastWrite \cup {"done"}
           /\ (Write(r) /\ ~Refuses(r)) => req'[r].ph \in PastWrite
           /\ req'[r].ph # "new"
<1>1. CASE Refuses(r)
  BY <1>1, RefuseWork DEF PastWrite
<1> USE DEF PastWrite, FromCascade, FromParent, FromMatch, FromLockWhen, FromScope, FromImage, FromAffected, FromBegin
<1>0. Write(r) => req[r].ph = "write"
  BY DEF Write
<1>2. CASE Passes(r)
  <2>1. req[r].ph \notin PastWrite \cup {"done", "write"}
    BY <1>2 DEF Passes
  <2>2. req'[r].ph \in Guards(r)
    <3>1. \/ req'[r].ph \in {"validate"} \cup FromBegin(r) \/ req'[r].ph \in FromAffected(r)
          \/ req'[r].ph \in FromLockWhen(r) \/ req'[r].ph \in FromMatch(r) \/ req'[r].ph \in FromCascade(r)
      BY <1>2 DEF Passes
    <3> HIDE DEF FromCascade, FromMatch, FromLockWhen, FromAffected, FromBegin
    <3>2. "validate" \in Guards(r)
      BY DEF Guards
    <3> QED BY <3>1, <3>2, Narrowing
  <2>3. req'[r].ph # "new"
    BY <2>2 DEF Guards
  <2>4. req'[r].ph = "affected" => IsChild(r)
    BY <1>2 DEF Passes
  <2> QED BY <1>0, <2>1, <2>2, <2>3, <2>4 DEF Guards
<1> SUFFICES ASSUME ~Refuses(r), ~Passes(r)
             PROVE  /\ req'[r].ph \in {"image", "match"} => Ask(r).op # "create"
                    /\ req'[r].ph = "match" => Ask(r).im # "no"
                    /\ req'[r].ph = "affected" => IsChild(r)
                    /\ req'[r].ph = "lockscope" => IsChild(r) /\ Ask(r).op = "create"
                    /\ (req[r].ph \in PastWrite \cup {"done"} /\ ~IsDrop(r)) => req'[r].ph \in PastWrite \cup {"done"}
                    /\ (Write(r) /\ ~Refuses(r)) => req'[r].ph \in PastWrite
                    /\ req'[r].ph # "new"
  BY <1>1, <1>2
<1>3. ASSUME Write(r) PROVE req'[r].ph \in PastWrite
  BY <1>3, WriteWork, After DEF IInv
<1>4. CASE Affected(r)
  BY <1>0, <1>3, <1>4, AffectedWork
<1>5. CASE CaptureImage(r)
  BY <1>0, <1>3, <1>5, ImageWork
<1>6. CASE EnforceOptimisticLock(r)
  BY <1>0, <1>3, <1>6, MatchWork
<1>7. CASE CascadeRestrict(r) \/ EachChildId(r) \/ CascadePreImage(r)
  BY <1>0, <1>3, <1>7, RestrictWork, PageWork, PreWork
<1>8. CASE CascadeWrite(r)
  BY <1>0, <1>3, <1>8, ChildWork DEF Onward
<1>9. CASE LockScope(r)
  BY <1>0, <1>3, <1>9, LockScopeWork
<1>10. CASE Write(r)
  BY <1>0, <1>3, <1>10
<1>11. CASE OwnCommit(r)
  BY <1>0, <1>3, <1>11, OwnCommitWork, After DEF IInv
<1>12. CASE NextVersion(r)
  BY <1>0, <1>3, <1>12, CountWork
<1>13. CASE InsertHistory(r) \/ FailHistory(r)
  BY <1>0, <1>3, <1>13, InsertWork, LoggedWork DEF AfterHistory, Onward, Outward
<1>14. CASE LockParent(r)
  BY <1>0, <1>3, <1>14, LockParentWork DEF AfterTotals
<1>15. CASE Aggregate(r)
  BY <1>0, <1>3, <1>15, SumWork
<1>16. CASE StoreTotal(r)
  BY <1>0, <1>3, <1>16, StoreWork DEF AfterTotals
<1>17. CASE Finish(r) \/ CommitLost(r)
  BY <1>0, <1>3, <1>17, FinishWork
<1> QED BY <1>4, <1>5, <1>6, <1>7, <1>8, <1>9, <1>10, <1>11, <1>12, <1>13, <1>14, <1>15, <1>16, <1>17, StepCases

LEMMA FreshStep ==
    ASSUME IInv, FreshInv, NEW r \in Requests, Step(r) \/ Fault(r), cfg' = cfg
    PROVE  FreshInv'
<1>1. SUFFICES ASSUME NEW o \in Requests PROVE Fresh(o)'
  BY DEF FreshInv
<1>2. Fresh(o) /\ Ask(o)' = Ask(o) /\ Target(o)' = Target(o) /\ IsChild(o)' = IsChild(o)
  BY SameAsk DEF FreshInv
<1>3. /\ req'[o].ph \in {"image", "match"} => Ask(o).op # "create"
      /\ req'[o].ph = "match" => Ask(o).im # "no"
      /\ req'[o].ph = "affected" => IsChild(o)
      /\ req'[o].ph = "lockscope" => IsChild(o) /\ Ask(o).op = "create"
  <2>1. CASE o = r
    BY <2>1, Paths
  <2>2. CASE o # r
    BY <2>2, <1>2, SameAsk DEF Undisturbed, Fresh
  <2> QED BY <2>1, <2>2
<1>4. ASSUME Creating(o)' PROVE Creating(o) /\ ~(o = r /\ Write(r) /\ ~Refuses(r))
  <2>1. CASE o = r
    <3>1. ~IsDrop(r)
      BY <2>1, <1>2, <1>4 DEF Creating, IsDrop
    <3> QED BY <2>1, <3>1, <1>2, <1>4, Paths DEF Creating
  <2>2. CASE o # r
    BY <2>2, <1>2, <1>4, SameAsk DEF Undisturbed, Creating
  <2> QED BY <2>1, <2>2
<1> QED BY <1>2, <1>3, <1>4, UntouchedUntilWritten DEF Fresh


LEMMA FreshNext == IInv /\ FreshInv /\ [Next]_vars => FreshInv'
<1>1. ASSUME IInv, FreshInv, NEW r \in Requests, Step(r) \/ Fault(r) PROVE FreshInv'
  BY <1>1, FreshStep DEF Step, Fault
<1>2. ASSUME FreshInv, UNCHANGED vars PROVE FreshInv'
  BY <1>2 DEF vars, FreshInv, Fresh, Creating, Target, Ask, IsChild
<1> QED BY <1>1, <1>2 DEF Next

LEMMA FreshInit == Init => FreshInv
<1> SUFFICES ASSUME Init, NEW r \in Requests PROVE Fresh(r)
  BY DEF FreshInv
<1>1. req[r].ph = "new" /\ Ask(r) \in Asks[r]
  BY DEF Init, Ask
<1>2. Target(r) \in Rows
  BY InitInv DEF IInv, TypeOK, ReqType, AskType, Target, Ask
<1> QED BY <1>1, <1>2 DEF Fresh, Init

-----------------------------------------------------------------------------
(* What a request sees of the tables after its own step *)

LEMMA Holding ==
    ASSUME IInv, NEW r \in Requests, NEW x \in Rows, NEW image, Hold(r, x, image), row' = row
    PROVE  /\ View(r, x)' = image /\ lk'[x] = r /\ unc'[x] = image
           /\ \A y \in Rows \ {x} : View(r, y)' = View(r, y) /\ lk'[y] = lk[y] /\ unc'[y] = unc[y]
BY DEF Hold, View, IInv, TypeOK

LEMMA Reading ==
    ASSUME IInv, NEW r \in Requests, NEW x \in Rows, CanLock(r, x), Keeps \/ (ForUpdate(r, x) /\ row' = row)
    PROVE  /\ \A y \in Rows : View(r, y)' = View(r, y)
           /\ \A y \in Rows : lk'[y] = r => lk[y] = r \/ (cfg.pg /\ y = x /\ unc'[y] = row[y])
           /\ \A y \in Rows : lk[y] = r => lk'[y] = r /\ unc'[y] = unc[y]
<1>1. CASE Keeps
  BY <1>1 DEF Keeps, View
<1>2. CASE ForUpdate(r, x) /\ row' = row /\ ~cfg.pg
  BY <1>2 DEF ForUpdate, View
<1>3. CASE ForUpdate(r, x) /\ row' = row /\ cfg.pg
  <2>1. Hold(r, x, View(r, x))
    BY <1>3 DEF ForUpdate
  <2>2. lk[x] # r => View(r, x) = row[x]
    BY DEF View
  <2>3. lk[x] = r => View(r, x) = unc[x]
    BY DEF View
  <2> QED BY <1>3, <2>1, <2>2, <2>3, Holding
<1> QED BY <1>1, <1>2, <1>3

LEMMA KeepsViews ==
    ASSUME NEW r \in Requests, Keeps PROVE \A y \in Rows : View(r, y)' = View(r, y)
BY DEF Keeps, View

LEMMA SameChildren ==
    ASSUME NEW r \in Requests, \A c \in Children : View(r, c)' = View(r, c)
    PROVE  \A p : ChildrenOf(r, p)' = ChildrenOf(r, p)
BY DEF ChildrenOf

LEMMA FiniteChildren ==
    ASSUME NEW S \in SUBSET Children PROVE IsFiniteSet(S) /\ Cardinality(S) \in Nat
BY IdAssumption, FS_Subset, FS_CardinalityType

-----------------------------------------------------------------------------
(* The cascade's walk *)

Early == {"new", "validate", "begin", "affected", "image", "scope", "lockwhen", "match", "parent",
          "restrict", "lockscope"}
Walk == {"page", "pre", "child", "count", "insert"}

\* The walk goes up the ids.  Before its first page a drop has walked nothing, and it is in a
\* transaction from then on.
WalkOrder(r) ==
    /\ req[r].todo \subseteq req[r].walked
    /\ \A x \in req[r].walked \ req[r].todo, y \in req[r].todo : x < y
    /\ req[r].ph = "child" => req[r].cur \in req[r].todo /\ \A y \in req[r].todo : req[r].cur <= y
    /\ req[r].ph \in Early => req[r].walked = {}
    /\ req[r].ph = "page" => req[r].todo = {} /\ (~InTx(r) => req[r].walked = {})

\* The children that a drop still sees are on the page at hand, or further up.
WalkAhead(r) ==
    (IsDrop(r) /\ req[r].ph \in Walk) =>
        \A c \in ChildrenOf(r, Target(r)) : c \in req[r].todo \/ \A d \in req[r].walked : d < c

\* Once the walk is over, and until the commit, there are none.
WalkOver(r) ==
    (IsDrop(r) /\ \/ req[r].ph \in {"lockp", "sum", "store", "write", "owncommit"}
                  \/ req[r].ph = "finish" /\ InTx(r)) =>
        InTx(r) /\ ChildrenOf(r, Target(r)) = {}

\* Only a drop that is through with its walk has a parent dead that is alive for the others.
Dropping(r) ==
    \A p \in Parents : (lk[p] = r /\ ~unc[p].alive /\ row[p].alive) =>
        IsDrop(r) /\ Target(r) = p /\ req[r].ph \in {"owncommit", "finish"}

WalkOf(r) == WalkOrder(r) /\ (~cfg.pg => WalkAhead(r) /\ WalkOver(r) /\ Dropping(r))
WalkInv == \A r \in Requests : WalkOf(r)

LEMMA WalkInit == Init => WalkInv
<1> SUFFICES ASSUME Init, NEW r \in Requests PROVE WalkOf(r)
  BY DEF WalkInv
<1>1. req[r].ph = "new" /\ req[r].todo = {} /\ req[r].walked = {}
  BY DEF Init
<1>2. \A p \in Parents : lk[p] # r
  BY NoneAssumption DEF Init, Rows
<1> QED BY <1>1, <1>2 DEF WalkOf, WalkOrder, WalkAhead, WalkOver, Dropping, Walk

LEMMA WalkStays == ASSUME WalkInv, UNCHANGED vars PROVE WalkInv'
BY DEF vars, WalkInv, WalkOf, WalkOrder, WalkAhead, WalkOver, Dropping, IsDrop, Target, Ask, ChildrenOf, View, InTx

LEMMA WalkOfOthers ==
    ASSUME IInv, NEW r \in Requests, Step(r) \/ Fault(r), cfg' = cfg, NEW o \in Requests, o # r, WalkOf(o)
    PROVE  WalkOf(o)'
<1>1. Undisturbed(o) /\ InTx(o)' = InTx(o) /\ IsDrop(o)' = IsDrop(o) /\ Target(o)' = Target(o)
  BY SameAsk
<1>2. req'[o] = req[o]
  BY <1>1 DEF Undisturbed
<1>3. WalkOrder(o)'
  BY <1>1, <1>2 DEF WalkOf, WalkOrder
<1>4. ASSUME ~cfg.pg PROVE (WalkAhead(o) /\ WalkOver(o) /\ Dropping(o))'
  <2>1. InTx(o) => \A p : ChildrenOf(o, p)' = ChildrenOf(o, p)
    BY <1>1, <1>4 DEF Undisturbed, ChildrenOf, View
  <2>2. WalkOver(o)'
    BY <1>1, <1>2, <1>4, <2>1 DEF WalkOf, WalkOver
  <2>3. (IsDrop(o) /\ req[o].ph \in Walk /\ ~InTx(o)) => req[o].walked = {}
    BY DEF WalkOf, WalkOrder, IInv, WorkOf, Walk
  <2>4. WalkAhead(o)'
    BY <1>1, <1>2, <1>4, <2>1, <2>3 DEF WalkOf, WalkAhead
  <2>5. Dropping(o)'
    BY <1>1, <1>2, <1>4 DEF WalkOf, Dropping, Undisturbed, Rows
  <2> QED BY <2>2, <2>4, <2>5
<1> QED BY <1>3, <1>4 DEF WalkOf

\* A page is what comes next, and an empty page means that nothing does.
LEMMA PageOrder ==
    ASSUME IInv, NEW r \in Requests
    PROVE  /\ Page(r) \subseteq Rest(r) /\ Rest(r) \subseteq Children
           /\ \A c \in Rest(r) \ Page(r), d \in Page(r) : d < c
           /\ Page(r) = {} => Rest(r) = {}
<1>1. Page(r) \subseteq Rest(r) /\ Rest(r) \subseteq Children
  BY DEF Page, Rest, ChildrenOf
<1>2. \A c \in Rest(r) : c \in Nat
  BY <1>1, IdAssumption
<1>3. ASSUME NEW c \in Rest(r) \ Page(r), NEW d \in Page(r) PROVE d < c
  <2>1. SUFFICES ASSUME c < d PROVE FALSE
    BY <1>1, <1>2, <1>3
  <2> DEFINE below(e) == {f \in Rest(r) : f < e}
  <2>2. below(c) \subseteq below(d)
    BY <1>1, <1>2, <2>1
  <2>3. below(c) \in SUBSET Children /\ below(d) \in SUBSET Children
    BY <1>1
  <2>4. IsFiniteSet(below(d)) /\ Cardinality(below(c)) \in Nat /\ Cardinality(below(d)) \in Nat
    BY <2>3, FiniteChildren
  <2>5. Cardinality(below(c)) <= Cardinality(below(d))
    BY <2>2, <2>4, FS_Subset
  <2>6. Cardinality(below(d)) < PageSize
    BY DEF Page
  <2>7. Cardinality(below(c)) < PageSize
    BY <2>4, <2>5, <2>6, BoundAssumption
  <2> QED BY <2>7 DEF Page
<1>4. ASSUME Rest(r) # {} PROVE Page(r) # {}
  <2>1. Rest(r) \in SUBSET Nat
    BY <1>2
  <2>2. PICK c \in Rest(r) : \A y \in Rest(r) : c <= y
    BY <1>4, <2>1, LeastMember
  <2>3. {d \in Rest(r) : d < c} = {}
    BY <1>2, <2>2
  <2>4. Cardinality({d \in Rest(r) : d < c}) < PageSize
    BY <2>3, FS_EmptySet, BoundAssumption
  <2> QED BY <2>4 DEF Page
<1> QED BY <1>1, <1>3, <1>4

\* Up to the first page nothing has been walked, and no lock matters yet.
LEMMA WalkApproach ==
    ASSUME IInv, NEW r \in Requests, WalkOf(r), cfg' = cfg, Ask(r)' = Ask(r), SameWalk(r),
           req[r].ph \in Early, req'[r].ph \in Early \cup {"page", "write"}, IsDrop(r) => req'[r].ph # "write",
           ~cfg.pg => UNCHANGED <<row, lk, unc>>
    PROVE  WalkOf(r)'
<1>1. req'[r].todo = {} /\ req'[r].walked = {}
  BY DEF WalkOf, WalkOrder, SameWalk
<1>2. WalkOrder(r)' /\ WalkAhead(r)'
  BY <1>1 DEF WalkOrder, WalkAhead, Early
<1>3. WalkOver(r)'
  BY DEF WalkOver, IsDrop, Target, Early
<1>4. ~cfg.pg => Dropping(r)'
  BY DEF WalkOf, Dropping, Early
<1> QED BY <1>2, <1>3, <1>4 DEF WalkOf

\* A step that leaves the children and the dead parents as they are is judged by its phases alone.
LEMMA WalkOn ==
    ASSUME IInv, NEW r \in Requests, WalkOf(r), cfg' = cfg, Ask(r)' = Ask(r), WalkOrder(r)',
           ~cfg.pg => /\ \A c \in Children : View(r, c)' = View(r, c)
                      /\ Dropping(r)'
                      /\ IsDrop(r) => \/ req[r].ph \in Walk /\ req'[r].ph \in Walk /\ SameWalk(r)
                                      \/ /\ ChildrenOf(r, Target(r)) = {} /\ InTx(r)'
                                         /\ req'[r].ph \notin Walk
                                      \/ req'[r].ph = "finish" /\ ~InTx(r)'
                                      \/ req'[r].ph = "done"
    PROVE  WalkOf(r)'
<1>1. IsDrop(r)' = IsDrop(r) /\ Target(r)' = Target(r)
  BY DEF IsDrop, Target
<1>2. ASSUME ~cfg.pg PROVE WalkAhead(r)' /\ WalkOver(r)'
  <2>1. ChildrenOf(r, Target(r))' = ChildrenOf(r, Target(r))
    BY <1>1, <1>2, SameChildren
  <2> QED BY <1>1, <1>2, <2>1 DEF WalkOf, WalkAhead, WalkOver, Walk, SameWalk
<1> QED BY <1>2 DEF WalkOf

\* A parent is written dead by its drop's own write, and by no other step.
LEMMA DroppingKept ==
    ASSUME IInv, NEW r \in Requests, Dropping(r), row' = row, req[r].ph \notin {"owncommit", "finish"},
           \A p \in Parents : lk'[p] = r => \/ lk[p] = r /\ unc'[p].alive = unc[p].alive
                                            \/ unc'[p].alive = row[p].alive
    PROVE  Dropping(r)'
BY DEF Dropping

\* A recompute leaves the children alone, and every parent as alive as it was.
LEMMA TotalWork ==
    ASSUME IInv, NEW r \in Requests, LockParent(r) \/ Aggregate(r) \/ StoreTotal(r), ~Refuses(r)
    PROVE  /\ req[r].ph \in {"lockp", "sum", "store"} /\ req'[r].ph \in {"lockp", "sum", "store", "write", "finish"}
           /\ SameWalk(r) /\ InTx(r) /\ req'[r].tx = req[r].tx /\ UNCHANGED <<row, hist>>
           /\ req'[r].ph = "write" => IsDrop(r)
           /\ req'[r].cur = req[r].cur /\ req'[r].pre = req[r].pre /\ req'[r].post = req[r].post
           /\ \A c \in Children : View(r, c)' = View(r, c) /\ lk'[c] = lk[c] /\ unc'[c] = unc[c]
           /\ \A p \in Parents : lk'[p] = r => \/ lk[p] = r /\ unc'[p].alive = unc[p].alive
                                               \/ unc'[p].alive = row[p].alive
<1>1. /\ req[r].ph \in {"lockp", "sum", "store"} /\ SameWalk(r) /\ InTx(r) /\ req'[r].tx = req[r].tx
      /\ req'[r].ph \in {"lockp", "sum", "store", "write", "finish"} /\ UNCHANGED <<row, hist>>
      /\ req'[r].ph = "write" => IsDrop(r)
      /\ req'[r].cur = req[r].cur /\ req'[r].pre = req[r].pre /\ req'[r].post = req[r].post
  BY LockParentWork, SumWork, StoreWork DEF AfterTotals, Keeps, SameMark
<1>2. PICK p \in Parents : p = NextParent(r)
  BY NextParentRow, LockParentWork, SumWork, StoreWork DEF IInv
<1>3. p \in Rows /\ p \notin Children /\ \A q \in Parents \cup Children : q \in Rows
  BY IdAssumption DEF Rows
<1>4. \/ Keeps
      \/ CanLock(r, p) /\ ForUpdate(r, p)
      \/ Hold(r, p, [View(r, p) EXCEPT !.total = req[r].n, !.ver = @ + 1])
  BY <1>2, LockParentWork, SumWork, StoreWork
<1>5. CASE Keeps
  BY <1>1, <1>3, <1>5, KeepsViews DEF Keeps
<1>6. CASE CanLock(r, p) /\ ForUpdate(r, p) /\ ~cfg.pg
  BY <1>1, <1>3, <1>6 DEF ForUpdate, View
<1>7. ASSUME NEW image, Hold(r, p, image), image.alive = View(r, p).alive
      PROVE  /\ \A c \in Children : View(r, c)' = View(r, c) /\ lk'[c] = lk[c] /\ unc'[c] = unc[c]
             /\ \A q \in Parents : lk'[q] = r => \/ lk[q] = r /\ unc'[q].alive = unc[q].alive
                                                 \/ unc'[q].alive = row[q].alive
  <2>1. /\ unc'[p] = image
        /\ \A y \in Rows \ {p} : View(r, y)' = View(r, y) /\ lk'[y] = lk[y] /\ unc'[y] = unc[y]
    BY <1>1, <1>3, <1>7, Holding
  <2>2. image.alive = IF lk[p] = r THEN unc[p].alive ELSE row[p].alive
    BY <1>7 DEF View
  <2> QED BY <1>3, <2>1, <2>2
<1>8. CASE CanLock(r, p) /\ ForUpdate(r, p) /\ cfg.pg
  BY <1>1, <1>7, <1>8 DEF ForUpdate
<1>9. CASE Hold(r, p, [View(r, p) EXCEPT !.total = req[r].n, !.ver = @ + 1])
  <2>1. View(r, p) \in RowType
    BY <1>3, Types DEF IInv
  <2>2. [View(r, p) EXCEPT !.total = req[r].n, !.ver = @ + 1].alive = View(r, p).alive
    BY <2>1 DEF RowType
  <2> QED BY <1>1, <1>7, <1>9, <2>2
<1> QED BY <1>1, <1>4, <1>5, <1>6, <1>8, <1>9

LEMMA WalkOwn ==
    ASSUME IInv, FreshInv, WalkInv, NEW r \in Requests, Step(r) \/ Fault(r), cfg' = cfg
    PROVE  WalkOf(r)'
<1>1. /\ Ask(r)' = Ask(r) /\ IsDrop(r)' = IsDrop(r) /\ IInv' /\ WalkOf(r)
      /\ IsDrop(r) => Target(r) \in Parents
  BY SameAsk DEF WalkInv, IsDrop
<1> USE <1>1
<1> DEFINE Children0 == \A c \in Children : View(r, c)' = View(r, c)
<1>2. ASSUME Keeps PROVE Children0 /\ row' = row
  BY <1>2, KeepsViews DEF Rows, Keeps
<1>3. ASSUME ~cfg.pg, Keeps, req[r].ph \notin {"owncommit", "finish"} PROVE Dropping(r)'
  BY <1>3, DroppingKept DEF WalkOf, Keeps
<1>4. WalkOrder(r) /\ TxOf(r) /\ WorkOf(r) /\ TypeOK
  BY DEF WalkOf, IInv
<1>5. CASE Refuses(r) \/ Finish(r) \/ CommitLost(r)
  <2>1. SameWalk(r) /\ req'[r].ph = "done" /\ req'[r].tx = "none"
    BY <1>5, RefuseWork, FinishWork DEF SameWork
  <2>2. WalkOrder(r)'
    BY <1>4, <2>1 DEF WalkOrder, SameWalk, Early
  <2>3. \A p \in Rows : lk'[p] # r
    BY <2>1 DEF IInv, TxOf, InTx
  <2>4. Dropping(r)'
    BY <2>3 DEF Dropping, Rows
  <2> QED BY <2>1, <2>2, <2>4 DEF WalkOf, WalkAhead, WalkOver, Walk
<1> SUFFICES ASSUME ~Refuses(r), ~Finish(r), ~CommitLost(r) PROVE WalkOf(r)'
  BY <1>5
<1>6. CASE Passes(r) \/ Affected(r) \/ CaptureImage(r) \/ EnforceOptimisticLock(r)
  <2>1. SameWalk(r) /\ req[r].ph \in Early /\ req'[r].ph \in Guards(r) /\ (~cfg.pg => UNCHANGED <<row, lk, unc>>)
    <3>1. CASE Passes(r)
      BY <3>1, Narrowing DEF Passes, SameWork, Early, Guards, Keeps
    <3>2. CASE Affected(r)
      BY <3>2, Narrowing, AffectedWork DEF Early, Keeps
    <3>3. CASE CaptureImage(r)
      BY <3>3, Narrowing, ImageWork DEF Early, Keeps
    <3>4. CASE EnforceOptimisticLock(r)
      BY <3>4, Narrowing, MatchWork DEF Early, ForUpdate, SameWork
    <3> QED BY <1>6, <3>1, <3>2, <3>3, <3>4
  <2>2. \A ph \in Guards(r) : ph \in Early \cup {"page", "write"} /\ (IsDrop(r) => ph # "write")
    BY DEF Guards, FromScope, FromLockWhen, FromMatch, FromParent, FromCascade, Early
  <2> QED BY <2>1, <2>2, WalkApproach
<1>7. CASE CascadeRestrict(r)
  <2>1. WalkOrder(r)'
    BY <1>4, <1>7, RestrictWork DEF WalkOrder, SameWork, SameWalk, Early
  <2>2. InTx(r)' /\ req'[r].ph \notin Walk
    BY <1>7, RestrictWork DEF Opened, InTx, Walk
  <2> QED BY <1>2, <1>3, <1>7, <2>1, <2>2, RestrictWork, WalkOn
<1>8. CASE CascadePreImage(r)
  <2>1. WalkOrder(r)'
    BY <1>4, <1>8, PreWork DEF WalkOrder, SameWalk, Early
  <2> QED BY <1>2, <1>3, <1>8, <2>1, PreWork, WalkOn DEF Walk
<1>9. CASE NextVersion(r)
  <2>1. WalkOrder(r)'
    BY <1>4, <1>9, CountWork DEF WalkOrder, SameWalk, Early
  <2> QED BY <1>2, <1>3, <1>9, <2>1, CountWork, WalkOn DEF Walk
<1>10. CASE InsertHistory(r) \/ FailHistory(r)
  <2>1. /\ SameWalk(r) /\ req[r].ph \in {"count", "insert"} /\ UNCHANGED <<row, lk, unc>>
        /\ req'[r].ph \in {AfterHistory(r), "count"} /\ req'[r].tx = req[r].tx
    BY <1>10, InsertWork, LoggedWork DEF SameWork, Keeps
  <2>2. IsDrop(r) => /\ InTx(r) /\ req'[r].ph \in {"pre", "page", "count"} /\ (req'[r].ph = "page" => req[r].todo = {})
    BY <1>4, <2>1 DEF AfterHistory, Onward, WorkOf
  <2>3. ~IsDrop(r) => req'[r].ph \in {"lockp", "finish", "count"}
    BY <2>1 DEF AfterHistory, Outward
  <2>4. WalkOrder(r)'
    BY <1>4, <2>1, <2>2, <2>3 DEF WalkOrder, SameWalk, Early, InTx
  <2>5. Children0
    BY <2>1 DEF View
  <2>6. ~cfg.pg => Dropping(r)'
    BY <2>1, DroppingKept DEF WalkOf
  <2> QED BY <2>1, <2>2, <2>4, <2>5, <2>6, WalkOn DEF Walk
<1>11. CASE EachChildId(r)
  <2>1. /\ Keeps /\ req[r].ph = "page" /\ req'[r].tx # "none" /\ IsDrop(r) /\ req[r].todo = {}
        /\ \/ /\ Page(r) = {} /\ SameWalk(r) /\ req'[r].ph \in {"write", "lockp"}
           \/ /\ req'[r].ph = "pre" /\ req'[r].todo = Page(r) /\ req'[r].walked = req[r].walked \cup Page(r)
    BY <1>4, <1>11, PageWork DEF Opened, InTx, WorkOf, WalkOrder
  <2>2. ~cfg.pg => \A c \in ChildrenOf(r, Target(r)) : c \in Rest(r)
    BY <2>1 DEF WalkOf, WalkAhead, Walk, Rest
  <2>3. CASE Page(r) = {} /\ SameWalk(r) /\ req'[r].ph \in {"write", "lockp"}
    <3>1. WalkOrder(r)'
      BY <1>4, <2>3 DEF WalkOrder, SameWalk, Early
    <3>2. ~cfg.pg => ChildrenOf(r, Target(r)) = {}
      BY <2>2, <2>3, PageOrder
    <3>3. InTx(r)'
      BY <2>1 DEF InTx
    <3> QED BY <1>2, <1>3, <2>1, <2>3, <3>1, <3>2, <3>3, WalkOn DEF Walk
  <2>4. CASE req'[r].ph = "pre" /\ req'[r].todo = Page(r) /\ req'[r].walked = req[r].walked \cup Page(r)
    <3>1. ASSUME NEW x \in req'[r].walked \ req'[r].todo, NEW y \in req'[r].todo PROVE x < y
      BY <2>4, <3>1, PageOrder DEF Rest
    <3>2. WalkOrder(r)'
      BY <2>4, <3>1 DEF WalkOrder, Early
    <3>3. ASSUME ~cfg.pg, NEW c \in ChildrenOf(r, Target(r)), c \notin Page(r), NEW d \in req[r].walked \cup Page(r)
          PROVE  d < c
      BY <2>2, <3>3, PageOrder DEF Rest
    <3>4. ~cfg.pg => WalkAhead(r)'
      <4>1. ChildrenOf(r, Target(r))' = ChildrenOf(r, Target(r))
        BY <1>2, <2>1, SameChildren DEF Target
      <4> QED BY <2>4, <3>3, <4>1 DEF WalkAhead
    <3>5. WalkOver(r)'
      BY <2>4 DEF WalkOver
    <3> QED BY <1>3, <2>1, <3>2, <3>4, <3>5 DEF WalkOf
  <2> QED BY <2>1, <2>3, <2>4
<1>12. CASE CascadeWrite(r)
  <2>0. PICK c \in Children : c = req[r].cur
    BY <1>12, ChildWork
  <2>1. /\ c \in Children /\ c \in Rows /\ c \notin Parents /\ Hold(r, c, Nulled(View(r, c))) /\ row' = row
        /\ req[r].ph = "child" /\ InTx(r) /\ req'[r].tx = req[r].tx /\ IsDrop(r)
        /\ req'[r].ph \in {"count", "pre", "page"} /\ req'[r].todo = req[r].todo \ {c}
        /\ (req'[r].ph = "page" => req'[r].todo = {}) /\ req'[r].walked = req[r].walked
    BY <1>4, <1>12, <2>0, ChildWork, IdAssumption DEF Onward, WorkOf, Rows
  <2>2. /\ View(r, c)' = Nulled(View(r, c))
        /\ \A y \in Rows \ {c} : View(r, y)' = View(r, y) /\ lk'[y] = lk[y] /\ unc'[y] = unc[y]
    BY <2>1, Holding
  <2>3. req[r].todo \in SUBSET Nat /\ c \in req[r].todo /\ \A y \in req[r].todo : c <= y
    BY <1>4, <2>0, <2>1, IdAssumption, Types DEF WalkOrder, ReqType
  <2>4. ASSUME NEW x \in req'[r].walked \ req'[r].todo, NEW y \in req'[r].todo PROVE x < y
    BY <1>4, <2>1, <2>3, <2>4 DEF WalkOrder
  <2>5. WalkOrder(r)'
    BY <1>4, <2>1, <2>4 DEF WalkOrder, Early, InTx
  <2>6. ASSUME NEW d \in ChildrenOf(r, Target(r))' PROVE d # c /\ d \in ChildrenOf(r, Target(r))
    <3>1. ~(View(r, c)'.alive /\ View(r, c)'.fk = Target(r))
      <4>1. View(r, c) \in RowType /\ Target(r) # None
        BY <1>4, <2>1, Types, NoneAssumption
      <4> QED BY <2>2, <4>1 DEF Nulled, RowType
    <3> QED BY <2>2, <2>6, <3>1 DEF ChildrenOf, Target, Rows
  <2>7. ~cfg.pg => WalkAhead(r)'
    BY <2>1, <2>6 DEF WalkOf, WalkAhead, Walk, Target
  <2>8. ~cfg.pg => Dropping(r)'
    BY <2>1, <2>2, DroppingKept DEF WalkOf, Rows
  <2>9. WalkOver(r)'
    BY <2>1 DEF WalkOver
  <2> QED BY <2>5, <2>7, <2>8, <2>9 DEF WalkOf
<1>13. CASE LockScope(r)
  <2>1. ~cfg.pg => UNCHANGED <<row, lk, unc>>
    BY <1>13, LockScopeWork DEF Keeps, ForUpdate
  <2>2. SameWalk(r) /\ req[r].ph = "lockscope" /\ req'[r].ph = "write"
    BY <1>13, LockScopeWork DEF SameWork
  <2>3. ~IsDrop(r)
    BY <2>2, IdAssumption DEF FreshInv, Fresh, IsDrop, IsChild
  <2> QED BY <2>1, <2>2, <2>3, WalkApproach DEF Early
<1>14. CASE Write(r)
  <2>0. PICK x \in Rows : x = Target(r)
    BY <1>4, Types
  <2> DEFINE new == Written(r, View(r, x))
  <2>1. /\ req[r].ph = "write" /\ SameWalk(r) /\ req'[r].tx = req[r].tx
        /\ req'[r].ph = IF req[r].tx = "own" THEN "owncommit" ELSE AfterDB(r)
        /\ \/ InTx(r) /\ Hold(r, x, new) /\ UNCHANGED row
           \/ ~InTx(r) /\ row' = [row EXCEPT ![x] = new] /\ UNCHANGED <<lk, unc>>
    BY <1>14, <2>0, WriteWork
  <2>2. IsDrop(r) => req[r].aff = {}
    BY <1>4, <2>1 DEF WorkOf
  <2>3. /\ req'[r].ph \in {"owncommit", "count", "lockp", "finish"}
        /\ IsDrop(r) => req'[r].ph \in {"owncommit", "finish"}
    BY <1>4, <2>1, <2>2, After
  <2>4. WalkOrder(r)'
    BY <1>4, <2>1, <2>3 DEF WalkOrder, SameWalk, Early
  <2>5. (~cfg.pg /\ IsDrop(r)) => InTx(r) /\ ChildrenOf(r, Target(r)) = {}
    BY <2>1 DEF WalkOf, WalkOver
  <2>6. ASSUME ~cfg.pg PROVE Dropping(r)'
    <3>1. SUFFICES ASSUME NEW p \in Parents, lk'[p] = r, ~unc'[p].alive, row'[p].alive
                   PROVE  IsDrop(r) /\ Target(r) = p /\ req'[r].ph \in {"owncommit", "finish"}
      BY DEF Dropping, Target
    <3>2. p \in Rows
      BY DEF Rows
    <3>3. CASE ~InTx(r)
      BY <1>4, <2>1, <3>1, <3>2, <3>3 DEF TxOf
    <3>4. CASE InTx(r) /\ p # x
      <4>1. lk[p] = r /\ unc'[p] = unc[p] /\ row'[p] = row[p]
        BY <2>1, <3>1, <3>2, <3>4, Holding
      <4> QED BY <2>1, <2>6, <3>1, <4>1 DEF WalkOf, Dropping
    <3>5. CASE InTx(r) /\ p = x
      <4>1. unc'[x] = new
        BY <2>1, <3>5, Holding
      <4>2. View(r, x) \in RowType
        BY <1>4, Types
      <4>3. Ask(r).op = "delete"
        BY <3>1, <3>5, <4>1, <4>2 DEF Written, RowType
      <4> QED BY <2>0, <2>3, <3>5, <4>3 DEF IsDrop
    <3> QED BY <3>3, <3>4, <3>5
  <2>7. IsDrop(r) => x \notin Children
    BY <2>0, IdAssumption DEF IsDrop
  <2>8. WalkAhead(r)'
    BY <2>3 DEF WalkAhead, Walk
  <2>9. ~cfg.pg => WalkOver(r)'
    <3>1. (~cfg.pg /\ IsDrop(r)) => Children0
      BY <2>1, <2>5, <2>7, Holding DEF Rows
    <3>2. (~cfg.pg /\ IsDrop(r)) => ChildrenOf(r, Target(r))' = ChildrenOf(r, Target(r)) /\ Target(r)' = Target(r)
      BY <3>1, SameChildren DEF Target
    <3> QED BY <2>1, <2>5, <3>2 DEF WalkOver, InTx
  <2> QED BY <2>4, <2>6, <2>8, <2>9 DEF WalkOf
<1>15. CASE OwnCommit(r)
  <2>1. SameWalk(r) /\ req'[r].ph = AfterDB(r) /\ req'[r].tx = "none" /\ req[r].aff = {}
    BY <1>15, OwnCommitWork DEF SameWork
  <2>2. req'[r].ph \in {"count", "lockp", "finish"} /\ (IsDrop(r) => req'[r].ph = "finish") /\ ~InTx(r)'
    BY <1>4, <2>1, After DEF InTx
  <2>3. WalkOrder(r)'
    BY <1>4, <2>1, <2>2 DEF WalkOrder, SameWalk, Early
  <2>4. \A p \in Rows : lk'[p] # r
    BY <2>2 DEF IInv, TxOf
  <2> QED BY <2>2, <2>3, <2>4 DEF WalkOf, WalkAhead, WalkOver, Dropping, Walk, Rows
<1>16. CASE LockParent(r) \/ Aggregate(r) \/ StoreTotal(r)
  <2>1. /\ SameWalk(r) /\ req[r].ph \in {"lockp", "sum", "store"} /\ InTx(r) /\ req'[r].tx = req[r].tx
        /\ req'[r].ph \in {"sum", "store", "lockp", "write", "finish"} /\ row' = row /\ Children0
    BY <1>16, TotalWork
  <2>2. WalkOrder(r)'
    BY <1>4, <2>1 DEF WalkOrder, SameWalk, Early
  <2>3. ~cfg.pg => Dropping(r)'
    BY <1>16, <2>1, TotalWork, DroppingKept DEF WalkOf
  <2>4. (~cfg.pg /\ IsDrop(r)) => ChildrenOf(r, Target(r)) = {}
    BY <2>1 DEF WalkOf, WalkOver
  <2> QED BY <2>1, <2>2, <2>3, <2>4, WalkOn DEF Walk, InTx
<1> QED BY <1>6, <1>7, <1>8, <1>9, <1>10, <1>11, <1>12, <1>13, <1>14, <1>15, <1>16, StepCases

LEMMA WalkNext == IInv /\ FreshInv /\ WalkInv /\ [Next]_vars => WalkInv'
<1>1. ASSUME IInv, FreshInv, WalkInv, NEW r \in Requests, Step(r) \/ Fault(r) PROVE WalkInv'
  <2>1. cfg' = cfg
    BY <1>1 DEF Step, Fault
  <2> QED BY <1>1, <2>1, WalkOwn, WalkOfOthers DEF WalkInv
<1> QED BY <1>1, WalkStays DEF Next

\* A committed row changes in a commit or in a bare write.
LEMMA RowSteps ==
    ASSUME IInv, NEW r \in Requests, Step(r) \/ Fault(r)
    PROVE  row' = row \/ ((Write(r) \/ OwnCommit(r) \/ Finish(r) \/ CommitLost(r)) /\ ~Refuses(r))
<1>1. CASE Refuses(r)
  BY <1>1 DEF Refuses, Refuse, Rollback
<1>2. CASE ~Refuses(r)
  BY <1>2, StepCases, AffectedWork, ImageWork, MatchWork, RestrictWork, PageWork, PreWork, ChildWork,
     LockScopeWork, CountWork, InsertWork, LoggedWork, TotalWork DEF Passes, Keeps
<1> QED BY <1>1, <1>2

\* On SQLite a parent that goes leaves no live child pointing at it (cascade.go:457).
THEOREM CascadesAreComplete == Spec => NoChildLeftBehind
<1>1. ASSUME IInv, FreshInv, WalkInv, Next, ~cfg.pg, NEW p \in Parents, row[p].alive, ~row'[p].alive,
             NEW c \in Children, row'[c].alive
      PROVE  row'[c].fk # p
  <2>1. PICK r \in Requests : Step(r) \/ Fault(r)
    BY <1>1 DEF Next
  <2>2. p \in Rows /\ c \in Rows /\ TypeOK /\ WalkOf(r) /\ TxOf(r)
    BY <1>1 DEF Rows, IInv, WalkInv
  <2>3. row' # row
    BY <1>1
  <2>4. CASE Refuses(r)
    BY <2>3, <2>4 DEF Refuses, Refuse, Rollback
  <2>5. CASE Write(r) /\ ~Refuses(r)
    <3>1. /\ req[r].ph = "write" /\ ~InTx(r) /\ row' = [row EXCEPT ![Target(r)] = Written(r, View(r, Target(r)))]
      BY <1>1, <2>3, <2>5, WriteWork
    <3>2. p = Target(r) /\ row'[p] = Written(r, View(r, p))
      BY <1>1, <2>2, <3>1 DEF TypeOK
    <3>3. Ask(r).op = "delete"
      <4>1. View(r, p) \in RowType
        BY <2>2, Types
      <4> QED BY <1>1, <3>2, <4>1 DEF Written, RowType
    <3> QED BY <1>1, <2>2, <3>1, <3>2, <3>3 DEF WalkOf, WalkOver, IsDrop
  <2>6. CASE (OwnCommit(r) \/ Finish(r) \/ CommitLost(r)) /\ ~Refuses(r)
    <3>1. InTx(r) /\ Commit(r) /\ req[r].ph \in {"owncommit", "finish"}
      BY <1>1, <2>3, <2>6, OwnCommitWork, FinishWork DEF Keeps
    <3>2. row'[p] = View(r, p) /\ row'[c] = View(r, c)
      BY <2>2, <3>1 DEF Commit
    <3>3. lk[p] = r /\ unc[p] = row'[p]
      BY <1>1, <3>2 DEF View
    <3>4. IsDrop(r) /\ Target(r) = p
      BY <1>1, <2>2, <3>3 DEF WalkOf, Dropping
    <3>5. ChildrenOf(r, p) = {}
      BY <1>1, <2>2, <3>1, <3>4 DEF WalkOf, WalkOver
    <3> QED BY <1>1, <3>2, <3>5 DEF ChildrenOf
  <2>7. row' = row \/ Write(r) \/ OwnCommit(r) \/ Finish(r) \/ CommitLost(r) \/ Refuses(r)
    BY <1>1, <2>1, RowSteps
  <2> QED BY <2>3, <2>4, <2>5, <2>6, <2>7
<1>2. IInv /\ FreshInv /\ WalkInv /\ [Next]_vars =>
        [\A p \in Parents :
           (~cfg.pg /\ row[p].alive /\ ~row'[p].alive) => \A c \in Children : row'[c].alive => row'[c].fk # p]_vars
  BY <1>1
<1> QED BY <1>2, Invariant, FreshInit, FreshNext, WalkInit, WalkNext, PTL DEF Spec, NoChildLeftBehind

-----------------------------------------------------------------------------
(* The history *)

\* Nobody's request changes kind, and the registration stays.
Strict == cfg.versioned = "required" /\ AllTx

LEMMA SameKind ==
    ASSUME IInv, NEW r \in Requests, Step(r) \/ Fault(r), cfg' = cfg
    PROVE  AllTx' = AllTx /\ Moves' = Moves
<1>1. \A o \in Requests : IsChild(o)' = IsChild(o) /\ Ask(o)' = Ask(o)
  BY SameAsk
<1> QED BY <1>1 DEF AllTx, Moves

\* The rows carry the versions 1 to k, each once.
Numbered(S, k) ==
    /\ {h.n : h \in S} = 1..k
    /\ \A g, h \in S : g.n = h.n => g = h
    /\ \A h \in S : h.post = h.n

Kept(c) == {h \in hist : h.row = c /\ h.open = None}
Seen(r, c) == {h \in hist : h.row = c /\ h.open \in {None, r}}
Recording(r) == req[r].ph \in {"count", "insert"}
\* The version of c that the rows r sees reach up to: the one it is recording is still missing.
Logged(r, c) == IF Recording(r) /\ req[r].cur = c THEN unc[c].ver - 1 ELSE unc[c].ver

HistTables ==
    /\ \A c \in Children : Numbered(Kept(c), row[c].ver)
    /\ \A h \in hist : (h.open # None => lk[h.row] = h.open) /\ (~cfg.pg => h.pre = h.n - 1)

Held(r) == \A c \in Children : lk[c] = r => Numbered(Seen(r, c), Logged(r, c))

\* What a request is about to record is the write it just made, and on SQLite the image before it.
Recorded(r) ==
    Recording(r) =>
        /\ InTx(r) /\ lk[req[r].cur] = r
        /\ req[r].post = unc[req[r].cur].ver /\ req[r].post > 0
        /\ req[r].ph = "insert" => req[r].n = req[r].post
        /\ ~cfg.pg => req[r].pre = req[r].post - 1

Imaged(r) ==
    /\ (IsChild(r) /\ Ask(r).op = "create" /\ req[r].ph \in Early \cup {"write"}) => req[r].pre = 0
    /\ (~cfg.pg /\ req[r].ph = "child") => req[r].pre = View(r, req[r].cur).ver
    /\ (/\ ~cfg.pg /\ IsChild(r) /\ Ask(r).op # "create"
        /\ req[r].ph \in {"scope", "lockwhen", "match", "parent", "lockscope", "write"}
        /\ View(r, Target(r)).alive) => req[r].pre = View(r, Target(r)).ver

HistOf(r) == Held(r) /\ Recorded(r) /\ Imaged(r)
HistInv == Strict => HistTables /\ \A r \in Requests : HistOf(r)

LEMMA NumberedCount ==
    ASSUME NEW S, IsFiniteSet(S), NEW k \in Nat, Numbered(S, k) PROVE Cardinality(S) = k
<1> DEFINE f == [i \in 1..k |-> CHOOSE h \in S : h.n = i]
<1>1. ASSUME NEW i \in 1..k PROVE f[i] \in S /\ f[i].n = i
  <2>1. \E h \in S : h.n = i
    BY DEF Numbered
  <2> QED BY <2>1
<1>2. f \in [1..k -> S] /\ \A h \in S : h.n \in 1..k
  BY <1>1 DEF Numbered
<1> HIDE DEF f
<1>3. \A h \in S : f[h.n] = h
  BY <1>1, <1>2 DEF Numbered
<1>4. f \in Bijection(1..k, S)
  BY <1>1, <1>2, <1>3 DEF Bijection, Injection, Surjection, IsInjective
<1>5. IsFiniteSet(1..k) /\ Cardinality(1..k) = k
  BY FS_Interval
<1>6. Cardinality(1..k) = Cardinality(S)
  BY <1>4, <1>5, FS_Bijection DEF ExistsBijection
<1> QED BY <1>5, <1>6

LEMMA NumberedMore ==
    ASSUME NEW S, NEW k \in Nat, k > 0, Numbered(S, k - 1), NEW e, e.n = k, e.post = k
    PROVE  Numbered(S \cup {e}, k)
<1>1. \A h \in S : h.n \in 1..(k - 1)
  BY DEF Numbered
<1>2. {h.n : h \in S \cup {e}} = {h.n : h \in S} \cup {e.n}
  OBVIOUS
<1>3. 1..k = (1..(k - 1)) \cup {k}
  OBVIOUS
<1>4. {h.n : h \in S \cup {e}} = 1..k
  BY <1>2, <1>3 DEF Numbered
<1>5. \A g, h \in S \cup {e} : g.n = h.n => g = h
  BY <1>1 DEF Numbered
<1> QED BY <1>4, <1>5 DEF Numbered

\* Rows that change hands keep their numbers.
LEMMA NumberedCopy ==
    ASSUME NEW S, NEW k, Numbered(S, k), NEW f, \A h \in S : f[h].n = h.n /\ f[h].post = h.post
    PROVE  Numbered({f[h] : h \in S}, k)
<1>1. {g.n : g \in {f[h] : h \in S}} = {h.n : h \in S}
  OBVIOUS
<1> QED BY <1>1 DEF Numbered

\* Without c's lock r sees what is committed of c's history.
LEMMA SeenCommitted ==
    ASSUME HistTables, NEW r \in Requests, NEW c, lk[c] # r PROVE Seen(r, c) = Kept(c)
BY NoneAssumption DEF HistTables, Seen, Kept

LEMMA SeenNow ==
    ASSUME HistTables, NEW r \in Requests, Held(r), NEW c \in Children, ~(Recording(r) /\ req[r].cur = c)
    PROVE  Numbered(Seen(r, c), View(r, c).ver)
<1>1. CASE lk[c] = r
  BY <1>1 DEF Held, Logged, View
<1>2. CASE lk[c] # r
  BY <1>2, SeenCommitted DEF HistTables, View
<1> QED BY <1>1, <1>2

LEMMA HistInit == Init => HistInv
<1> SUFFICES ASSUME Init PROVE HistTables /\ \A r \in Requests : HistOf(r)
  BY DEF HistInv
<1> DEFINE past(c, k) == [row |-> c, n |-> k, pre |-> k - 1, post |-> k, open |-> None]
<1>1. hist = UNION {{past(c, k) : k \in 1..InitRow[c].ver} : c \in Children} /\ row = InitRow
  BY DEF Init
<1>2. \A c \in Children : InitRow[c].ver \in Nat
  BY InstanceAssumption DEF Rows, RowType
<1>3. ASSUME NEW c \in Children PROVE Numbered(Kept(c), row[c].ver)
  <2> DEFINE of == {past(c, k) : k \in 1..InitRow[c].ver}
  <2>1. Kept(c) = of
    <3>1. \A d \in Children : \A k \in 1..InitRow[d].ver : past(d, k).row = d /\ past(d, k).open = None
      OBVIOUS
    <3> HIDE DEF past
    <3> QED BY <1>1, <3>1 DEF Kept
  <2>2. {h.n : h \in of} = 1..InitRow[c].ver
    <3>1. \A k \in 1..InitRow[c].ver : past(c, k).n = k
      OBVIOUS
    <3> HIDE DEF past
    <3> QED BY <3>1
  <2>3. \A h \in of : h.post = h.n /\ h = past(c, h.n)
    OBVIOUS
  <2> HIDE DEF of, past
  <2>4. \A g, h \in of : g.n = h.n => g = h
    BY <2>3
  <2> QED BY <1>1, <2>1, <2>2, <2>3, <2>4 DEF Numbered
<1>4. ASSUME NEW h \in hist PROVE h.open = None /\ h.pre = h.n - 1
  <2>1. PICK c \in Children : \E k \in 1..InitRow[c].ver : h = past(c, k)
    BY <1>1, <1>4
  <2> QED BY <2>1
<1> HIDE DEF past
<1>5. HistTables
  BY <1>3, <1>4 DEF HistTables
<1>6. ASSUME NEW r \in Requests PROVE HistOf(r)
  <2>1. req[r].ph = "new" /\ req[r].pre = 0
    BY DEF Init
  <2>2. \A c \in Children : lk[c] # r
    BY NoneAssumption DEF Init, Rows
  <2> QED BY <2>1, <2>2 DEF HistOf, Held, Recorded, Recording, Imaged
<1> QED BY <1>5, <1>6

LEMMA HistStays == ASSUME HistInv, UNCHANGED vars PROVE HistInv'
BY DEF vars, HistInv, Strict, AllTx, HistTables, HistOf, Held, Recorded, Imaged, Numbered, Kept, Seen, Recording, Logged,
       IsChild, Target, Ask, View, InTx

\* Under WithTransaction the write and the history of a child are in its transaction.
LEMMA StrictInTx ==
    ASSUME IInv, Strict, NEW r \in Requests, IsChild(r), req[r].ph \notin {"new", "validate", "begin", "done"}
    PROVE  InTx(r) /\ req[r].tx = "with"
BY DEF Strict, AllTx, IInv, AnswerOf, InTx

\* The history of a row that holds no row of r changes only when r records one.
About(c) == {h \in hist : h.row = c}

LEMMA HistoryOfOthers ==
    ASSUME IInv, NEW r \in Requests, Step(r) \/ Fault(r), NEW c, \A h \in hist : h.row = c => h.open # r,
           Records(r) => req[r].cur # c
    PROVE  About(c)' = About(c)
<1>1. CASE Keeps \/ (\E x, image : Takes(r, x, image)) \/ (\E x, image : WritesBare(r, x, image))
  BY <1>1 DEF Keeps, Takes, WritesBare, About
<1>2. CASE Records(r)
  BY <1>2 DEF Records, Entry, About
<1>3. CASE Commits(r)
  <2> DEFINE f(g) == [g EXCEPT !.open = IF g.open = r THEN None ELSE g.open]
  <2>1. hist' = {f(g) : g \in hist}
    BY <1>3 DEF Commits, Commit
  <2>2. \A g \in HistType : f(g).row = g.row /\ (g.open # r => f(g) = g)
    BY DEF HistType
  <2>3. \A g \in hist : g \in HistType
    BY DEF IInv, TypeOK
  <2> HIDE DEF f
  <2> QED BY <2>1, <2>2, <2>3 DEF About
<1>4. CASE Rollback(r)
  BY <1>4 DEF Rollback, About
<1> QED BY <1>1, <1>2, <1>3, <1>4, TableSteps

LEMMA HistTablesStep ==
    ASSUME IInv, HistTables, Strict, NEW r \in Requests, HistOf(r), Step(r) \/ Fault(r), cfg' = cfg
    PROVE  HistTables'
<1>1. TypeOK /\ TxOf(r) /\ Children \subseteq Rows
  BY DEF IInv, Rows
<1>2. Records(r) => /\ lk[req[r].cur] = r /\ InTx(r) /\ req[r].post = req[r].n
                    /\ (~cfg.pg => req[r].pre = req[r].n - 1)
  BY DEF HistOf, Recorded, Recording, Records
<1>3. ASSUME NEW c \in Children, lk[c] # r PROVE Numbered(Kept(c)', row'[c].ver)
  <2>1. About(c)' = About(c)
    BY <1>2, <1>3, HistoryOfOthers, NoneAssumption DEF HistTables
  <2>2. Kept(c)' = Kept(c)
    BY <2>1 DEF About, Kept
  <2>3. row'[c] = row[c]
    <3>1. CASE Write(r) /\ ~Refuses(r)
      <4>1. req[r].ph = "write"
        BY <3>1, WriteWork
      <4>2. CASE c # Target(r)
        BY <1>1, <3>1, <4>2, WriteWork DEF TypeOK
      <4>3. CASE c = Target(r)
        BY <3>1, <4>1, <4>3, StrictInTx, WriteWork DEF IsChild
      <4> QED BY <4>2, <4>3
    <3>2. CASE (OwnCommit(r) \/ Finish(r) \/ CommitLost(r)) /\ ~Refuses(r)
      BY <1>1, <1>3, <3>2, OwnCommitWork, FinishWork DEF Commit, View, Keeps
    <3> QED BY <3>1, <3>2, RowSteps
  <2> QED BY <2>2, <2>3 DEF HistTables, Numbered
<1>4. ASSUME NEW c \in Children, lk[c] = r PROVE Numbered(Kept(c)', row'[c].ver)
  <2>1. CASE Kept(c)' = Kept(c) /\ row'[c] = row[c]
    BY <2>1 DEF HistTables, Numbered
  <2>2. CASE Keeps \/ (\E x, image : Takes(r, x, image))
    BY <2>1, <2>2 DEF Keeps, Takes, Kept
  <2>3. ASSUME NEW x, NEW image, WritesBare(r, x, image) PROVE FALSE
    BY <1>1, <1>4, <2>3 DEF WritesBare, TxOf
  <2>4. CASE Records(r)
    <3>1. Entry(r).open # None
      BY <1>2, <2>4, NoneAssumption DEF Entry
    <3> QED BY <2>1, <2>4, <3>1 DEF Records, Kept
  <2>5. CASE Rollback(r)
    BY <2>1, <2>5, NoneAssumption DEF Rollback, Kept
  <2>6. CASE Commits(r)
    <3> DEFINE f(g) == [g EXCEPT !.open = IF g.open = r THEN None ELSE g.open]
               F == [g \in hist |-> f(g)]
    <3>1. hist' = {F[g] : g \in hist}
      BY <2>6 DEF Commits, Commit
    <3>2. \A g \in HistType : /\ f(g).row = g.row /\ f(g).n = g.n /\ f(g).post = g.post
                             /\ (f(g).open = None <=> g.open \in {None, r})
      BY DEF HistType
    <3>3. \A g \in hist : /\ F[g].row = g.row /\ F[g].n = g.n /\ F[g].post = g.post
                          /\ (F[g].open = None <=> g.open \in {None, r})
      BY <1>1, <3>2 DEF TypeOK
    <3> HIDE DEF F
    <3>4. Kept(c)' = {F[g] : g \in Seen(r, c)}
      BY <3>1, <3>3 DEF Kept, Seen
    <3>5. row'[c] = unc[c] /\ ~Recording(r)
      BY <1>1, <1>4, <2>6 DEF Commits, Commit, View, Recording
    <3>6. Numbered(Seen(r, c), unc[c].ver)
      BY <1>4, <3>5 DEF HistOf, Held, Logged
    <3>7. \A g \in Seen(r, c) : F[g].n = g.n /\ F[g].post = g.post
      BY <3>3 DEF Seen
    <3>8. Numbered({F[g] : g \in Seen(r, c)}, unc[c].ver)
      BY <3>6, <3>7, NumberedCopy
    <3> QED BY <3>4, <3>5, <3>8 DEF Numbered
  <2> QED BY <2>2, <2>3, <2>4, <2>5, <2>6, TableSteps
<1>5. ASSUME NEW h \in hist' PROVE (h.open # None => lk'[h.row] = h.open) /\ (~cfg.pg => h.pre = h.n - 1)
  <2>1. \A g \in hist : g.row \in Rows /\ g.open \in Requests \cup {None}
    BY <1>1 DEF TypeOK, HistType
  <2>2. CASE Keeps
    BY <1>5, <2>2 DEF Keeps, HistTables
  <2>3. ASSUME NEW x, NEW image, Takes(r, x, image) PROVE h.open # None => lk'[h.row] = h.open
    BY <1>1, <1>5, <2>1, <2>3 DEF Takes, Hold, CanLock, HistTables, TypeOK
  <2>4. (\E x, image : Takes(r, x, image) \/ WritesBare(r, x, image)) => h \in hist
    BY <1>5 DEF Takes, WritesBare
  <2>5. ASSUME NEW x, NEW image, WritesBare(r, x, image) PROVE h.open # None => lk'[h.row] = h.open
    BY <1>5, <2>5 DEF WritesBare, HistTables
  <2>6. CASE Records(r)
    <3>1. CASE h \in hist
      BY <2>6, <3>1 DEF Records, HistTables
    <3>2. CASE h = Entry(r)
      BY <1>2, <2>6, <3>2 DEF Entry, Records
    <3> QED BY <1>5, <2>6, <3>1, <3>2 DEF Records
  <2>7. CASE Commits(r)
    <3> DEFINE f(g) == [g EXCEPT !.open = IF g.open = r THEN None ELSE g.open]
    <3>1. hist' = {f(g) : g \in hist}
      BY <2>7 DEF Commits, Commit
    <3>2. \A g \in HistType : /\ f(g).row = g.row /\ f(g).n = g.n /\ f(g).pre = g.pre
                             /\ (f(g).open # None => g.open # None /\ g.open # r /\ f(g).open = g.open)
      BY DEF HistType
    <3> HIDE DEF f
    <3>3. PICK g \in hist : h = f(g)
      BY <1>5, <3>1
    <3>4. \A x \in Rows : lk[x] # r => lk'[x] = lk[x]
      BY <2>7 DEF Commits, Commit
    <3>5. g \in HistType
      BY <1>1 DEF TypeOK
    <3> QED BY <2>1, <3>2, <3>3, <3>4, <3>5 DEF HistTables
  <2>8. CASE Rollback(r)
    <3>1. h \in hist /\ h.open # r
      BY <1>5, <2>8 DEF Rollback
    <3>2. \A x \in Rows : lk[x] # r => lk'[x] = lk[x]
      BY <2>8 DEF Rollback
    <3> QED BY <2>1, <3>1, <3>2 DEF HistTables
  <2>9. h \in hist => (~cfg.pg => h.pre = h.n - 1)
    BY DEF HistTables
  <2> QED BY <2>2, <2>3, <2>4, <2>5, <2>6, <2>7, <2>8, <2>9, TableSteps
<1> QED BY <1>3, <1>4, <1>5 DEF HistTables

LEMMA HistOfOthers ==
    ASSUME IInv, HistTables, Strict, NEW r \in Requests, HistOf(r), Step(r) \/ Fault(r), cfg' = cfg,
           NEW o \in Requests, o # r, HistOf(o)
    PROVE  HistOf(o)'
<1>1. /\ Undisturbed(o) /\ InTx(o)' = InTx(o) /\ IsChild(o)' = IsChild(o) /\ Target(o)' = Target(o)
      /\ Ask(o)' = Ask(o) /\ Children \subseteq Rows
  BY SameAsk DEF Rows
<1>2. req'[o] = req[o] /\ Recording(o)' = Recording(o)
  BY <1>1 DEF Undisturbed, Recording
<1>3. ASSUME NEW c \in Children, lk'[c] = o PROVE Numbered(Seen(o, c)', Logged(o, c)')
  <2>1. lk[c] = o /\ unc'[c] = unc[c]
    BY <1>1, <1>3 DEF Undisturbed
  <2>2. \A h \in hist : h.row = c => h.open # r
    BY <1>3, <2>1, NoneAssumption DEF HistTables
  <2>3. Records(r) => req[r].cur # c
    BY <2>1 DEF HistOf, Recorded, Recording, Records
  <2>4. About(c)' = About(c)
    BY <2>2, <2>3, HistoryOfOthers
  <2>5. Seen(o, c)' = Seen(o, c)
    BY <2>4 DEF About, Seen
  <2>6. Logged(o, c)' = Logged(o, c)
    BY <1>2, <2>1 DEF Logged
  <2> QED BY <2>1, <2>5, <2>6 DEF HistOf, Held
<1>4. Held(o)'
  BY <1>3 DEF Held
<1>5. Recorded(o)'
  <2>1. Recording(o) => req[o].cur \in Rows
    BY <1>1 DEF IInv, WorkOf, Recording
  <2> QED BY <1>1, <1>2, <2>1 DEF HistOf, Recorded, Undisturbed
<1>6. Imaged(o)'
  <2>1. (~cfg.pg /\ InTx(o)) => \A x : View(o, x)' = View(o, x)
    BY <1>1 DEF Undisturbed, View
  <2>2. req[o].ph = "child" => InTx(o)
    BY DEF IInv, WorkOf
  <2>3. (IsChild(o) /\ req[o].ph \in {"scope", "lockwhen", "match", "parent", "lockscope", "write"}) => InTx(o)
    BY StrictInTx
  <2>4. (~cfg.pg /\ req[o].ph = "child") => View(o, req[o].cur)' = View(o, req[o].cur)
    BY <1>2, <2>1, <2>2 DEF View
  <2>5. (/\ ~cfg.pg /\ IsChild(o)
         /\ req[o].ph \in {"scope", "lockwhen", "match", "parent", "lockscope", "write"}) =>
           View(o, Target(o))' = View(o, Target(o))
    BY <1>1, <2>1, <2>3 DEF View
  <2> QED BY <1>1, <1>2, <2>4, <2>5 DEF HistOf, Imaged
<1> QED BY <1>4, <1>5, <1>6 DEF HistOf

\* A step that records nothing and locks no child but as it is committed keeps r's history.
LEMMA HeldKept ==
    ASSUME HistTables, NEW r \in Requests, Held(r), ~Recording(r), ~Recording(r)', hist' = hist, row' = row,
           \A c \in Children : lk'[c] = r => \/ lk[c] = r /\ unc'[c] = unc[c]
                                             \/ lk[c] # r /\ unc'[c] = row[c]
    PROVE  Held(r)'
<1>1. ASSUME NEW c \in Children, lk'[c] = r PROVE Numbered(Seen(r, c)', unc'[c].ver)
  <2>1. Seen(r, c)' = Seen(r, c) /\ View(r, c) = unc'[c]
    BY <1>1 DEF Seen, View
  <2> QED BY <2>1, SeenNow
<1> QED BY <1>1 DEF Held, Logged

\* Where the images have been taken, the rows they were taken of stay as they are.
LEMMA ImagedKept ==
    ASSUME NEW r \in Requests, Imaged(r), cfg' = cfg, Ask(r)' = Ask(r), req'[r].pre = req[r].pre,
           (IsChild(r) /\ req'[r].ph \in Early \cup {"write"}) => req[r].ph \in Early, req'[r].ph # "child",
           (IsChild(r) /\ Ask(r).op # "create" /\ ~cfg.pg
              /\ req'[r].ph \in {"scope", "lockwhen", "match", "parent", "lockscope", "write"}) =>
             /\ req[r].ph \in {"scope", "lockwhen", "match", "parent", "lockscope"}
             /\ View(r, Target(r))' = View(r, Target(r))
    PROVE  Imaged(r)'
<1>1. IsChild(r)' = IsChild(r)
  BY DEF IsChild, Target
<1> QED BY <1>1 DEF Imaged, Early

LEMMA HistOwn ==
    ASSUME IInv, FreshInv, HistTables, Strict, NEW r \in Requests, HistOf(r), Step(r) \/ Fault(r), cfg' = cfg
    PROVE  HistOf(r)'
<1>1. /\ Ask(r)' = Ask(r) /\ Target(r)' = Target(r) /\ IsChild(r)' = IsChild(r) /\ IInv'
      /\ Held(r) /\ Recorded(r) /\ Imaged(r)
      /\ TypeOK /\ TxOf(r) /\ WorkOf(r) /\ Fresh(r) /\ Children \subseteq Rows
      /\ IsDrop(r) => ~IsChild(r)
      /\ Versioned /\ Versioned' = Versioned
  BY SameAsk, IdAssumption DEF HistOf, IInv, FreshInv, Rows, IsDrop, IsChild, Strict, Versioned
<1> USE <1>1
<1>2. ASSUME Keeps, ~Recording(r), ~Recording(r)' PROVE Held(r)'
  BY <1>2, HeldKept DEF Keeps
<1>3. ASSUME req'[r].ph = "done" \/ req'[r].ph = "finish", \A x \in Rows : lk'[x] # r PROVE HistOf(r)'
  BY <1>3 DEF HistOf, Held, Recorded, Recording, Imaged, Early
<1>4. CASE Refuses(r) \/ Finish(r) \/ CommitLost(r)
  <2>1. req'[r].ph = "done" /\ req'[r].tx = "none"
    BY <1>4, RefuseWork, FinishWork
  <2>2. \A x \in Rows : lk'[x] # r
    BY <2>1 DEF IInv, TxOf, InTx
  <2> QED BY <1>3, <2>1, <2>2
<1> SUFFICES ASSUME ~Refuses(r), ~Finish(r), ~CommitLost(r) PROVE HistOf(r)'
  BY <1>4
<1>5. CASE OwnCommit(r)
  <2>1. req'[r].ph = AfterDB(r) /\ req'[r].tx = "none" /\ req[r].tx = "own" /\ req[r].ph = "owncommit" /\ req[r].aff = {}
    BY <1>5, OwnCommitWork
  <2>2. ~IsChild(r)
    BY <2>1, StrictInTx
  <2>3. req'[r].ph = "finish"
    BY <2>1, <2>2 DEF AfterDB, Outward
  <2>4. \A x \in Rows : lk'[x] # r
    BY <2>1 DEF IInv, TxOf, InTx
  <2> QED BY <1>3, <2>3, <2>4
<1>6. CASE Passes(r) \/ Affected(r)
  <2>3. (IsChild(r) /\ Ask(r).op # "create") => \A ph \in {"validate"} \cup FromBegin(r) \cup FromAffected(r) \cup FromImage(r) :
           ph \in {"validate", "begin", "affected", "image"}
    BY DEF FromBegin, FromAffected, FromImage
  <2>1. /\ Keeps /\ req'[r].pre = req[r].pre
        /\ req[r].ph \in {"new", "validate", "begin", "affected", "scope", "lockwhen", "parent"}
        /\ req'[r].ph \in Guards(r)
        /\ req[r].ph \in {"new", "validate", "begin", "affected"} =>
             req'[r].ph \in {"validate"} \cup FromBegin(r) \cup FromAffected(r) \cup FromImage(r)
    <3>1. "validate" \in Guards(r)
      BY DEF Guards
    <3>2. CASE Passes(r)
      BY <3>1, <3>2, Narrowing DEF Passes, SameWork, SameMark
    <3>3. CASE Affected(r)
      BY <3>1, <3>3, AffectedWork, Narrowing DEF SameMark
    <3> QED BY <1>6, <3>2, <3>3
  <2>2. \A ph \in Guards(r) : ph \in Early \cup {"page", "write"}
    BY DEF Guards, FromScope, FromLockWhen, FromMatch, FromParent, FromCascade, Early
  <2>4. View(r, Target(r))' = View(r, Target(r))
    BY <2>1 DEF View, Keeps
  <2>5. Held(r)' /\ Recorded(r)'
    BY <1>2, <2>1, <2>2 DEF Recording, Recorded, Early
  <2>6. Imaged(r)'
    BY <2>1, <2>2, <2>3, <2>4, ImagedKept DEF Early
  <2> QED BY <2>5, <2>6 DEF HistOf
<1>7. CASE CaptureImage(r)
  <2>1. /\ Keeps /\ req[r].ph = "image" /\ req'[r].ph \in FromScope(r) /\ Ask(r).op # "create"
        /\ View(r, Target(r)).alive => req'[r].pre = View(r, Target(r)).ver
    BY <1>7, ImageWork DEF Fresh
  <2>2. \A ph \in FromScope(r) : ph \in Early \cup {"page", "write"}
    BY DEF FromScope, FromLockWhen, FromMatch, FromParent, FromCascade, Early
  <2>3. View(r, Target(r))' = View(r, Target(r))
    BY <2>1 DEF View, Keeps
  <2>4. Held(r)' /\ Recorded(r)'
    BY <1>2, <2>1, <2>2 DEF Recording, Recorded, Early
  <2>5. Imaged(r)'
    BY <2>1, <2>2, <2>3 DEF Imaged, Early
  <2> QED BY <2>4, <2>5 DEF HistOf
<1>8. CASE EnforceOptimisticLock(r)
  <2>0. PICK x \in Rows : x = Target(r)
    BY Types
  <2>1. /\ ForUpdate(r, x) /\ UNCHANGED <<row, hist>> /\ CanLock(r, x) /\ req'[r].pre = req[r].pre
        /\ req[r].ph = "match" /\ req'[r].ph \in FromParent(r)
    BY <1>8, <2>0, MatchWork DEF SameWork, SameMark
  <2>2. \A ph \in FromParent(r) : ph \in Early \cup {"page", "write"} /\ ph # "child"
    BY DEF FromParent, FromCascade, Early
  <2>3. ~Recording(r) /\ ~Recording(r)'
    BY <2>1, <2>2 DEF Recording, Early
  <2>4. /\ View(r, x)' = View(r, x)
        /\ \A c \in Children : lk'[c] = r => \/ lk[c] = r /\ unc'[c] = unc[c]
                                             \/ lk[c] # r /\ unc'[c] = row[c]
    BY <2>1, Reading
  <2>5. Held(r)' /\ Recorded(r)'
    BY <2>1, <2>3, <2>4, HeldKept DEF Recorded
  <2>6. View(r, Target(r))' = View(r, Target(r))
    BY <2>0, <2>4 DEF View
  <2>7. Imaged(r)'
    BY <2>1, <2>2, <2>6, ImagedKept DEF Early
  <2> QED BY <2>5, <2>7 DEF HistOf
<1>9. CASE CascadeRestrict(r) \/ EachChildId(r)
  <2>1. Keeps /\ req[r].ph \in {"restrict", "page"} /\ req'[r].ph \in {"write", "lockp", "pre"}
    BY <1>9, RestrictWork, PageWork
  <2>2. ~IsChild(r)
    BY <2>1 DEF WorkOf
  <2>3. Held(r)' /\ Recorded(r)'
    BY <1>2, <2>1 DEF Recording, Recorded
  <2> QED BY <2>1, <2>2, <2>3 DEF HistOf, Imaged
<1>10. CASE CascadePreImage(r)
  <2>1. /\ Keeps /\ req[r].ph = "pre" /\ req'[r].ph = "child"
        /\ req'[r].pre = View(r, req'[r].cur).ver
    BY <1>10, PreWork
  <2>2. ~IsChild(r)
    BY <2>1 DEF WorkOf
  <2>3. Held(r)' /\ Recorded(r)'
    BY <1>2, <2>1 DEF Recording, Recorded
  <2>4. View(r, req[r].cur)' = View(r, req'[r].cur)
    BY <2>1 DEF View, Keeps
  <2> QED BY <2>1, <2>2, <2>3, <2>4 DEF HistOf, Imaged, Early
<1>11. CASE LockScope(r)
  <2>1. /\ UNCHANGED <<row, hist>> /\ req[r].ph = "lockscope" /\ req'[r].ph = "write" /\ req'[r].pre = req[r].pre
        /\ Ask(r).op = "create"
    BY <1>11, LockScopeWork DEF SameWork, SameMark, Fresh
  <2>2. \A c \in Children : lk'[c] = r => lk[c] = r /\ unc'[c] = unc[c]
    <3>1. CASE Keeps
      BY <3>1 DEF Keeps
    <3>2. CASE ~Keeps
      <4>1. PICK p \in Parents : p = Ask(r).fk /\ ForUpdate(r, p)
        BY <1>11, <3>2, LockScopeWork
      <4>2. \A c \in Children : c # p /\ c \in Rows
        BY IdAssumption
      <4> QED BY <4>1, <4>2 DEF ForUpdate, Hold, TypeOK
    <3> QED BY <3>1, <3>2
  <2>3. Held(r)' /\ Recorded(r)'
    BY <2>1, <2>2, HeldKept DEF Recorded, Recording
  <2>4. Imaged(r)'
    BY <2>1, ImagedKept DEF Early
  <2> QED BY <2>3, <2>4 DEF HistOf
<1>12. CASE LockParent(r) \/ Aggregate(r) \/ StoreTotal(r)
  <2>1. /\ req[r].ph \in {"lockp", "sum", "store"} /\ req'[r].ph \in {"lockp", "sum", "store", "write", "finish"}
        /\ UNCHANGED <<row, hist>> /\ req'[r].pre = req[r].pre /\ (req'[r].ph = "write" => ~IsChild(r))
        /\ \A c \in Children : lk'[c] = lk[c] /\ unc'[c] = unc[c]
    BY <1>12, TotalWork
  <2>2. Held(r)' /\ Recorded(r)'
    BY <2>1, HeldKept DEF Recorded, Recording
  <2>3. Imaged(r)'
    BY <2>1, ImagedKept DEF Early
  <2> QED BY <2>2, <2>3 DEF HistOf
<1>13. ASSUME NEW c \in Children, NEW image, Hold(r, c, image), image.ver = View(r, c).ver + 1, ~Recording(r),
              UNCHANGED <<row, hist>>, req'[r].ph = "count", req'[r].cur = c, req'[r].post = image.ver, InTx(r),
              req'[r].tx = req[r].tx, ~cfg.pg => req'[r].pre = View(r, c).ver
       PROVE  HistOf(r)'
  <2>1. /\ lk'[c] = r /\ unc'[c] = image /\ Recording(r)' /\ View(r, c).ver \in Nat
        /\ \A y \in Rows \ {c} : lk'[y] = lk[y] /\ unc'[y] = unc[y]
    BY <1>13, Holding, Types DEF Recording, RowType
  <2>2. ASSUME NEW d \in Children, lk'[d] = r PROVE Numbered(Seen(r, d)', Logged(r, d)')
    <3>1. Seen(r, d)' = Seen(r, d)
      BY <1>13 DEF Seen
    <3>2. Numbered(Seen(r, d), View(r, d).ver)
      BY <1>13, SeenNow
    <3>3. CASE d = c
      <4>1. Logged(r, d)' = View(r, c).ver
        BY <1>13, <2>1, <3>3 DEF Logged
      <4> QED BY <3>1, <3>2, <3>3, <4>1
    <3>4. CASE d # c
      <4>1. Logged(r, d)' = View(r, d).ver
        BY <1>13, <2>1, <2>2, <3>4 DEF Logged, View
      <4> QED BY <3>1, <3>2, <4>1
    <3> QED BY <3>3, <3>4
  <2>3. Held(r)'
    BY <2>2 DEF Held
  <2>4. Recorded(r)'
    BY <1>13, <2>1 DEF Recorded, InTx
  <2> QED BY <1>13, <2>3, <2>4 DEF HistOf, Imaged, Early
<1>14. CASE CascadeWrite(r)
  <2>1. PICK c \in Children : c = req[r].cur
    BY <1>14, ChildWork
  <2>2. /\ Hold(r, c, Nulled(View(r, c))) /\ UNCHANGED <<row, hist>> /\ req[r].ph = "child" /\ req'[r].ph = "count"
        /\ req'[r].tx = req[r].tx /\ InTx(r) /\ req'[r].cur = c /\ req'[r].pre = req[r].pre
        /\ req'[r].post = Nulled(View(r, c)).ver
    BY <1>14, <2>1, ChildWork
  <2>3. Nulled(View(r, c)).ver = View(r, c).ver + 1
    BY Types DEF Nulled, RowType
  <2>4. ~cfg.pg => req'[r].pre = View(r, c).ver
    BY <2>1, <2>2 DEF Imaged
  <2> QED BY <1>13, <2>2, <2>3, <2>4 DEF Recording
<1>15. CASE Write(r)
  <2>0. PICK x \in Rows : x = Target(r)
    BY Types
  <2> DEFINE new == Written(r, View(r, x))
  <2>1. /\ req[r].ph = "write" /\ (Ask(r).op # "create" => View(r, x).alive) /\ UNCHANGED hist
        /\ req'[r].cur = x /\ req'[r].pre = req[r].pre /\ req'[r].post = new.ver /\ req'[r].tx = req[r].tx
        /\ req'[r].ph = IF req[r].tx = "own" THEN "owncommit" ELSE AfterDB(r)
        /\ \/ InTx(r) /\ Hold(r, x, new) /\ UNCHANGED row
           \/ ~InTx(r) /\ UNCHANGED <<lk, unc>>
    BY <1>15, <2>0, WriteWork
  <2>2. new.ver = View(r, x).ver + 1
    BY Types DEF Written, RowType
  <2> HIDE DEF new
  <2>3. CASE IsChild(r)
    <3>1. InTx(r) /\ req'[r].ph = "count" /\ x \in Children
      BY <2>0, <2>1, <2>3, StrictInTx DEF AfterDB, IsChild
    <3>2. ~cfg.pg => req'[r].pre = View(r, x).ver
      <4>1. CASE Ask(r).op = "create"
        <5>1. row[x] = InitRow[x] /\ lk[x] = None /\ InitRow[x].ver = 0
          BY <2>0, <2>1, <4>1, FreshAssumption DEF Fresh, Creating, PastWrite, Target
        <5>2. View(r, x).ver = 0
          BY <5>1, NoneAssumption DEF View
        <5> QED BY <2>1, <2>3, <4>1, <5>2 DEF Imaged
      <4>2. CASE Ask(r).op # "create"
        BY <2>0, <2>1, <2>3, <4>2 DEF Imaged
      <4> QED BY <4>1, <4>2
    <3> QED BY <1>13, <2>1, <2>2, <3>1, <3>2 DEF Recording
  <2>4. CASE ~IsChild(r)
    <3>1. req'[r].ph \in {"owncommit", "lockp", "finish"}
      BY <2>1, <2>4 DEF AfterDB, Outward
    <3>2. \A c \in Children : lk'[c] = r => lk[c] = r /\ unc'[c] = unc[c]
      BY <2>0, <2>1, <2>4, Holding DEF IsChild
    <3>3. Held(r)'
      <4>1. CASE row' = row
        BY <2>1, <3>1, <3>2, <4>1, HeldKept DEF Recording
      <4>2. CASE ~InTx(r)
        BY <2>1, <4>2, <3>2 DEF Held, TxOf
      <4> QED BY <2>1, <4>1, <4>2
    <3> QED BY <3>1, <3>3, <2>4 DEF HistOf, Recorded, Recording, Imaged, Early
  <2> QED BY <2>3, <2>4
<1>16. CASE NextVersion(r)
  <2>1. PICK c \in Children : c = req[r].cur
    BY <1>16, CountWork DEF WorkOf
  <2>2. /\ Keeps /\ req[r].ph = "count" /\ req'[r].ph = "insert" /\ req'[r].cur = c /\ req'[r].tx = req[r].tx
        /\ req'[r].pre = req[r].pre /\ req'[r].post = req[r].post
        /\ req'[r].n = 1 + Cardinality(Seen(r, c))
    BY <1>16, <2>1, CountWork DEF Seen
  <2>3. InTx(r) /\ lk[c] = r /\ req[r].post = unc[c].ver /\ unc[c].ver > 0 /\ unc[c].ver \in Nat
    BY <2>1, <2>2, Types DEF Recorded, Recording, TypeOK, RowType
  <2>4. Numbered(Seen(r, c), unc[c].ver - 1) /\ IsFiniteSet(Seen(r, c))
    BY <2>1, <2>2, <2>3, FS_Subset DEF Held, Logged, Recording, TypeOK, Seen
  <2>5. req'[r].n = req'[r].post
    BY <2>2, <2>3, <2>4, NumberedCount
  <2>6. Held(r)'
    BY <2>1, <2>2 DEF Held, Seen, Logged, Recording, Keeps
  <2>7. Recorded(r)'
    BY <2>1, <2>2, <2>3, <2>5 DEF Recorded, Recording, Keeps, InTx
  <2> QED BY <2>2, <2>6, <2>7 DEF HistOf, Imaged, Early
<1>17. CASE InsertHistory(r) \/ FailHistory(r)
  <2>1. PICK c \in Children : c = req[r].cur
    BY <1>17, InsertWork, LoggedWork DEF WorkOf
  <2>2. InTx(r) /\ lk[c] = r /\ req[r].post = unc[c].ver /\ unc[c].ver > 0 /\ unc[c].ver \in Nat
    BY <1>17, <2>1, InsertWork, LoggedWork DEF Recorded, Recording, TypeOK, RowType
  <2>3. /\ req[r].ph = "insert" /\ hist' = hist \cup {Entry(r)} /\ UNCHANGED <<row, lk, unc>>
        /\ req'[r].ph = AfterHistory(r)
    BY <1>17, <2>2, InsertWork, LoggedWork DEF Strict
  <2>4. req'[r].ph \in {"pre", "page", "lockp", "finish"}
    BY <2>3 DEF AfterHistory, Onward, Outward
  <2>5. Entry(r).row = c /\ Entry(r).n = unc[c].ver /\ Entry(r).post = unc[c].ver /\ Entry(r).open = r
    BY <2>1, <2>2, <2>3 DEF Entry, Recorded, Recording
  <2>6. ASSUME NEW d \in Children, lk[d] = r PROVE Numbered(Seen(r, d)', unc[d].ver)
    <3>1. CASE d = c
      <4>1. Numbered(Seen(r, c), unc[c].ver - 1)
        BY <2>1, <2>2, <2>3 DEF Held, Logged, Recording
      <4>2. Seen(r, d)' = Seen(r, c) \cup {Entry(r)}
        BY <2>3, <2>5, <3>1 DEF Seen
      <4> QED BY <2>2, <2>5, <3>1, <4>1, <4>2, NumberedMore
    <3>2. CASE d # c
      <4>1. Seen(r, d)' = Seen(r, d)
        BY <2>3, <2>5, <3>2 DEF Seen
      <4> QED BY <2>1, <2>6, <3>2, <4>1 DEF Held, Logged
    <3> QED BY <3>1, <3>2
  <2>7. Held(r)'
    BY <2>3, <2>4, <2>6 DEF Held, Logged, Recording
  <2> QED BY <2>4, <2>7 DEF HistOf, Recorded, Recording, Imaged, Early
<1> QED BY <1>5, <1>6, <1>7, <1>8, <1>9, <1>10, <1>11, <1>12, <1>14, <1>15, <1>16, <1>17, StepCases

LEMMA HistNext == IInv /\ FreshInv /\ HistInv /\ [Next]_vars => HistInv'
<1>1. ASSUME IInv, FreshInv, HistInv, NEW r \in Requests, Step(r) \/ Fault(r) PROVE HistInv'
  <2>1. cfg' = cfg
    BY <1>1 DEF Step, Fault
  <2>2. Strict' = Strict
    BY <1>1, <2>1, SameKind DEF Strict
  <2>3. ASSUME Strict PROVE HistTables' /\ \A o \in Requests : HistOf(o)'
    BY <1>1, <2>1, <2>3, HistTablesStep, HistOwn, HistOfOthers DEF HistInv
  <2> QED BY <2>2, <2>3 DEF HistInv
<1> QED BY <1>1, HistStays DEF Next

\* With VersionedRequired and WithTransaction a child's committed history is its committed writes,
\* one version each and in their order (versioning.go:161).
THEOREM HistoriesAreExact == Spec => []HistoryExact
<1>1. ASSUME IInv, HistInv, Strict, NEW c \in Children
      PROVE  /\ {h.n : h \in Kept(c)} = 1..row[c].ver
             /\ Cardinality(Kept(c)) = row[c].ver
             /\ \A h \in Kept(c) : h.post = h.n /\ (~cfg.pg => h.pre = h.n - 1)
  <2>1. Numbered(Kept(c), row[c].ver) /\ \A h \in hist : ~cfg.pg => h.pre = h.n - 1
    BY <1>1 DEF HistInv, HistTables
  <2>2. IsFiniteSet(Kept(c)) /\ row[c].ver \in Nat
    BY <1>1, FS_Subset DEF IInv, TypeOK, Kept, RowType, Rows
  <2>3. Cardinality(Kept(c)) = row[c].ver
    BY <2>1, <2>2, NumberedCount
  <2> QED BY <2>1, <2>3 DEF Numbered, Kept
<1>2. IInv /\ HistInv => HistoryExact
  BY <1>1 DEF HistoryExact, Strict, Kept
<1> QED BY <1>2, Invariant, FreshInit, FreshNext, HistInit, HistNext, PTL DEF Spec

-----------------------------------------------------------------------------
(* The rollup *)

Rolled == cfg.rollup /\ AllTx /\ (cfg.pg => ~Moves)

\* c is live under p in this image.
In(image, p) == image.alive /\ image.fk = p
Changed(r, p) == \E c \in Children : lk[c] = r /\ In(unc[c], p) # In(row[c], p)

\* Nobody but its creator has seen c yet.
Unborn(c) == \E o \in Requests : Ask(o).op = "create" /\ Target(o) = c /\ (Creating(o) \/ lk[c] = o)

\* A locked parent is live, and a transaction that changes who belongs to a live parent still owes it a
\* recompute or has its lock; of the parents it has locked and owes nothing, it has the total right.
Live(r) == \A p \in Parents : lk[p] = r => row[p].alive
Owes(r) == \A p \in Parents : Changed(r, p) => p \in req[r].aff \/ lk[p] = r \/ ~row[p].alive
Totalled(r) ==
    \A p \in Parents : (lk[p] = r /\ p \notin req[r].aff /\ unc[p].alive) =>
        unc[p].total = Cardinality(ChildrenOf(r, p))

\* The sum at hand is that of a live parent which, on PostgreSQL, is locked.
Summing(r) ==
    /\ req[r].ph \in {"sum", "store"} => row[NextParent(r)].alive /\ (cfg.pg => lk[NextParent(r)] = r)
    /\ req[r].ph = "store" => req[r].n = Cardinality(ChildrenOf(r, NextParent(r)))
    /\ req[r].ph = "finish" => req[r].aff = {}

\* A request on one child locks no other, and changes it in its write alone.
OneChild(r) ==
    ~IsDrop(r) => \A c \in Children : lk[c] = r => c = Target(r) /\ (req[r].ph \notin PastWrite => unc[c] = row[c])

\* Before a child is written, the parents it leaves and joins are among those to be recomputed.
OnWay == {"image", "scope", "lockwhen", "match", "parent", "lockscope", "write"}
Named(r, image) == (image.alive /\ image.fk \in Parents) => image.fk \in req[r].aff
Aims(r) ==
    (IsChild(r) /\ req[r].ph \in OnWay) =>
        /\ Ask(r).op # "create" => Named(r, View(r, Target(r)))
        /\ (Ask(r).op # "delete" /\ Ask(r).fk \in Parents) => Ask(r).fk \in req[r].aff
Visits(r) ==
    /\ req[r].ph = "child" => Named(r, View(r, req[r].cur)) /\ ~Unborn(req[r].cur)
    /\ \A c \in req[r].todo : ~Unborn(c)

\* On PostgreSQL without moves, a child only ever leaves its parent or dies.
Shrinks(r) ==
    cfg.pg => \A c \in Children : (lk[c] = r /\ ~(Ask(r).op = "create" /\ Target(r) = c) /\ unc[c].alive) =>
        row[c].alive /\ unc[c].fk \in {row[c].fk, None}

RollOf(r) ==
    Live(r) /\ Owes(r) /\ Totalled(r) /\ Summing(r) /\ OneChild(r) /\ Aims(r) /\ Visits(r) /\ Shrinks(r)
Hidden == \A c \in Children : Unborn(c) => ~row[c].alive
RollInv == Rolled => TotalsAgree /\ Hidden /\ \A r \in Requests : RollOf(r)

\* The rows the requests find have their totals right.
InitAgree ==
    \A p \in Parents :
        InitRow[p].alive => InitRow[p].total = Cardinality({c \in Children : InitRow[c].alive /\ InitRow[c].fk = p})

LEMMA RollInit == ASSUME InitAgree PROVE Init => RollInv
<1> SUFFICES ASSUME Init PROVE TotalsAgree /\ Hidden /\ \A r \in Requests : RollOf(r)
  BY DEF RollInv
<1>1. TotalsAgree
  BY DEF Init, InitAgree, TotalsAgree
<1>2. Hidden
  <2>1. ASSUME NEW c \in Children, NEW o \in Requests, Ask(o).op = "create", Target(o) = c PROVE ~row[c].alive
    BY <2>1, FreshAssumption DEF Init, Ask, Target
  <2> QED BY <2>1 DEF Hidden, Unborn
<1>3. ASSUME NEW r \in Requests PROVE RollOf(r)
  <2>1. req[r].ph = "new" /\ req[r].todo = {}
    BY DEF Init
  <2>2. \A x \in Rows : lk[x] # r
    BY NoneAssumption DEF Init
  <2>3. Live(r) /\ Owes(r) /\ Totalled(r) /\ OneChild(r) /\ Shrinks(r)
    BY <2>2 DEF Live, Owes, Changed, Totalled, OneChild, Shrinks, Rows
  <2>4. Summing(r) /\ Aims(r) /\ Visits(r)
    BY <2>1 DEF Summing, Aims, Visits, OnWay
  <2> QED BY <2>3, <2>4 DEF RollOf
<1> QED BY <1>1, <1>2, <1>3

LEMMA RollStays == ASSUME RollInv, UNCHANGED vars PROVE RollInv'
<1> USE DEF vars
<1>1. \A r \in Requests : Ask(r)' = Ask(r) /\ Target(r)' = Target(r) /\ IsChild(r)' = IsChild(r)
                           /\ IsDrop(r)' = IsDrop(r) /\ NextParent(r)' = NextParent(r)
  BY DEF Ask, Target, IsChild, IsDrop, NextParent
<1>2. Rolled' = Rolled /\ TotalsAgree' = TotalsAgree
  BY <1>1 DEF Rolled, AllTx, Moves, TotalsAgree
<1>3. \A c : Unborn(c)' = Unborn(c)
  BY <1>1 DEF Unborn, Creating
<1>4. \A r \in Requests : \A x : View(r, x)' = View(r, x)
  BY DEF View
<1>5. \A r \in Requests : \A p : ChildrenOf(r, p)' = ChildrenOf(r, p) /\ Changed(r, p)' = Changed(r, p)
  BY <1>4 DEF ChildrenOf, Changed
<1>6. \A r \in Requests : View(r, Target(r))' = View(r, Target(r)) /\ View(r, req[r].cur)' = View(r, req[r].cur)
  BY DEF View, Target, Ask
<1>7. \A r \in Requests : RollOf(r) => RollOf(r)'
  <2> SUFFICES ASSUME NEW r \in Requests, RollOf(r) PROVE RollOf(r)'
    OBVIOUS
  <2>1. Live(r)' /\ Owes(r)' /\ OneChild(r)' /\ Shrinks(r)'
    BY <1>1, <1>5 DEF RollOf, Live, Owes, OneChild, Shrinks
  <2>2. Totalled(r)'
    BY <1>5 DEF RollOf, Totalled
  <2>3. Summing(r)'
    <3>1. ChildrenOf(r, NextParent(r))' = ChildrenOf(r, NextParent(r))
      BY <1>1, <1>5 DEF ChildrenOf, View
    <3> QED BY <1>1, <3>1 DEF RollOf, Summing
  <2>4. Aims(r)'
    BY <1>1, <1>6 DEF RollOf, Aims, Named
  <2>5. Visits(r)'
    <3>1. Unborn(req[r].cur)' = Unborn(req[r].cur)
      BY <1>1 DEF Unborn, Creating
    <3> QED BY <1>3, <1>6, <3>1 DEF RollOf, Visits, Named
  <2> QED BY <2>1, <2>2, <2>3, <2>4, <2>5 DEF RollOf
<1> QED BY <1>2, <1>3, <1>7 DEF RollInv, Hidden

\* Under WithTransaction a child is written in its transaction.
LEMMA ChildInTx ==
    ASSUME IInv, AllTx, NEW r \in Requests, IsChild(r), req[r].ph \notin {"new", "validate", "begin", "done"}
    PROVE  InTx(r) /\ req[r].tx = "with"
BY DEF AllTx, IInv, AnswerOf, InTx

\* A committed child changes in the commit of the transaction that has it locked, and a committed parent
\* in that or in a bare write.
LEMMA CommittedRows ==
    ASSUME IInv, FreshInv, AllTx, NEW r \in Requests, Step(r) \/ Fault(r)
    PROVE  \/ row' = row
           \/ /\ Commits(r) /\ (req[r].ph = "finish" \/ req[r].aff = {})
              /\ \A x \in Rows : row'[x] = IF lk[x] = r THEN unc[x] ELSE row[x]
           \/ /\ ~InTx(r) /\ Target(r) \in Parents /\ row[Target(r)].alive /\ lk[Target(r)] = None /\ lk' = lk
              /\ row' = [row EXCEPT ![Target(r)] = Written(r, row[Target(r)])]
<1>1. CASE Write(r) /\ ~Refuses(r)
  <2>1. req[r].ph = "write" /\ (Ask(r).op # "create" => View(r, Target(r)).alive)
        /\ \/ row' = row
           \/ /\ ~InTx(r) /\ lk[Target(r)] = None /\ lk' = lk
              /\ row' = [row EXCEPT ![Target(r)] = Written(r, View(r, Target(r)))]
    BY <1>1, WriteWork
  <2>2. lk[Target(r)] = None => View(r, Target(r)) = row[Target(r)]
    BY NoneAssumption DEF View
  <2>3. Ask(r).op = "create" => IsChild(r)
    BY FreshAssumption DEF FreshInv, Fresh, IsChild, Target
  <2>4. Target(r) \in Rows
    BY Types DEF IInv
  <2>5. ~InTx(r) => ~IsChild(r)
    BY <2>1, ChildInTx
  <2> QED BY <2>1, <2>2, <2>3, <2>4, <2>5 DEF IsChild, Rows
<1>2. CASE (OwnCommit(r) \/ Finish(r) \/ CommitLost(r)) /\ ~Refuses(r)
  BY <1>2, OwnCommitWork, FinishWork DEF Commits, Commit, View, Keeps
<1> QED BY <1>1, <1>2, RowSteps

\* The locks a request has after its step: as before, taken to read, or taken to write.
Reads(r, x) ==
    /\ cfg.pg /\ lk[x] = None /\ unc'[x] = row[x] /\ row[x].alive
    /\ \/ EnforceOptimisticLock(r) /\ x = Target(r)
       \/ LockScope(r) /\ x = Ask(r).fk /\ x \in Parents
       \/ LockParent(r) /\ x = NextParent(r) /\ x \in Parents /\ req'[r].aff = req[r].aff
Nulls(r, x) == CascadeWrite(r) /\ x = req[r].cur /\ x \in Children /\ unc'[x] = Nulled(View(r, x))
Changes(r, x) == Write(r) /\ x = Target(r) /\ unc'[x] = Written(r, View(r, x))
Totals(r, x) ==
    StoreTotal(r) /\ x = NextParent(r) /\ x \in Parents /\ unc'[x] = [View(r, x) EXCEPT !.total = req[r].n, !.ver = @ + 1]

LEMMA OwnLocks ==
    ASSUME IInv, NEW r \in Requests, Step(r) \/ Fault(r), NEW x \in Rows, lk'[x] = r
    PROVE  /\ UNCHANGED row /\ ~Refuses(r) /\ \A y \in Rows : lk[y] = r => lk'[y] = r
           /\ \/ lk[x] = r /\ unc'[x] = unc[x]
              \/ lk[x] \in {r, None} /\ (Reads(r, x) \/ Nulls(r, x) \/ Changes(r, x) \/ Totals(r, x))
<1> DEFINE Goal == \/ lk[x] = r /\ unc'[x] = unc[x]
                   \/ lk[x] \in {r, None} /\ (Reads(r, x) \/ Nulls(r, x) \/ Changes(r, x) \/ Totals(r, x))
           Keeping == \A y \in Rows : lk[y] = r => lk'[y] = r
<1>1. TypeOK /\ TxOf(r)
  BY DEF IInv
<1>2. ~Rollback(r) /\ ~Commit(r)
  BY NoneAssumption DEF Rollback, Commit
<1>3. ~Refuses(r)
  BY <1>2 DEF Refuses, Refuse
<1>4. ASSUME UNCHANGED <<row, lk, unc>> PROVE row' = row /\ Keeping /\ Goal
  BY <1>4
<1>5. ASSUME NEW y \in Rows, NEW image, Hold(r, y, image), row' = row, CanLock(r, y)
      PROVE  row' = row /\ Keeping /\ (x # y => lk[x] = r /\ unc'[x] = unc[x]) /\ (x = y => unc'[x] = image)
             /\ lk[y] \in {r, None}
  BY <1>5, Holding DEF CanLock
<1>6. ASSUME NEW y \in Rows, ForUpdate(r, y), row' = row, CanLock(r, y), View(r, y).alive
      PROVE  /\ row' = row /\ Keeping
             /\ \/ lk[x] = r /\ unc'[x] = unc[x]
                \/ x = y /\ cfg.pg /\ lk[x] = None /\ unc'[x] = row[x] /\ row[x].alive
  <2>1. CASE cfg.pg
    <3>1. Hold(r, y, View(r, y))
      BY <1>6, <2>1 DEF ForUpdate
    <3>2. lk[y] # r => View(r, y) = row[y]
      BY DEF View
    <3>3. lk[y] = r => View(r, y) = unc[y]
      BY DEF View
    <3> QED BY <1>5, <1>6, <2>1, <3>1, <3>2, <3>3
  <2>2. CASE ~cfg.pg
    BY <1>4, <1>6, <2>2 DEF ForUpdate
  <2> QED BY <2>1, <2>2
<1>7. CASE Passes(r) \/ Affected(r) \/ CaptureImage(r) \/ CascadeRestrict(r) \/ EachChildId(r) \/ CascadePreImage(r)
           \/ NextVersion(r) \/ FailHistory(r) \/ Aggregate(r)
  BY <1>3, <1>4, <1>7, AffectedWork, ImageWork, RestrictWork, PageWork, PreWork, CountWork, LoggedWork, SumWork
     DEF Passes, Keeps
<1>8. CASE EnforceOptimisticLock(r)
  <2>1. PICK y \in Rows : y = Target(r)
    BY <1>1, Types
  <2> QED BY <1>3, <1>6, <1>8, <2>1, MatchWork DEF Reads
<1>9. CASE CascadeWrite(r)
  <2>1. PICK y \in Children : y = req[r].cur
    BY <1>3, <1>9, ChildWork
  <2>2. y \in Rows
    BY DEF Rows
  <2> QED BY <1>3, <1>5, <1>9, <2>1, <2>2, ChildWork DEF Nulls
<1>10. CASE LockScope(r)
  <2>1. CASE Keeps
    BY <1>3, <1>4, <2>1 DEF Keeps
  <2>2. CASE ~Keeps
    <3>1. PICK y \in Parents : y = Ask(r).fk
      BY <1>3, <1>10, <2>2, LockScopeWork
    <3>2. y \in Rows
      BY DEF Rows
    <3> QED BY <1>3, <1>6, <1>10, <2>2, <3>1, <3>2, LockScopeWork DEF Reads
  <2> QED BY <1>3, <2>1, <2>2
<1>11. CASE Write(r)
  <2>1. PICK y \in Rows : y = Target(r)
    BY <1>1, Types
  <2>2. CASE InTx(r)
    BY <1>3, <1>5, <1>11, <2>1, <2>2, WriteWork DEF Changes
  <2>3. CASE ~InTx(r)
    BY <1>1, <1>3, <1>11, <2>3, WriteWork DEF TxOf
  <2> QED BY <2>2, <2>3
<1>12. CASE OwnCommit(r) \/ Finish(r) \/ CommitLost(r)
  BY <1>2, <1>3, <1>4, <1>12, OwnCommitWork, FinishWork DEF Keeps
<1>13. CASE InsertHistory(r)
  BY <1>3, <1>4, <1>13, InsertWork
<1>14. CASE LockParent(r)
  <2>1. PICK y \in Parents : y = NextParent(r)
    BY <1>3, <1>14, LockParentWork
  <2>2. y \in Rows
    BY DEF Rows
  <2>3. CASE Keeps
    BY <1>3, <1>4, <2>3 DEF Keeps
  <2>4. CASE ~Keeps
    BY <1>3, <1>6, <1>14, <2>1, <2>2, <2>4, LockParentWork DEF Reads
  <2> QED BY <1>3, <2>3, <2>4
<1>15. CASE StoreTotal(r)
  <2>1. PICK y \in Parents : y = NextParent(r)
    BY <1>15, StoreWork
  <2>2. y \in Rows
    BY DEF Rows
  <2> QED BY <1>3, <1>5, <1>15, <2>1, <2>2, StoreWork DEF Totals
<1> QED BY <1>3, <1>7, <1>8, <1>9, <1>10, <1>11, <1>12, <1>13, <1>14, <1>15, StepCases

\* r sees another image of a child after its step only where it wrote it, unless it committed meanwhile.
LEMMA OwnViews ==
    ASSUME IInv, FreshInv, AllTx, NEW r \in Requests, Step(r) \/ Fault(r), NEW c \in Children, ~Refuses(r)
    PROVE  View(r, c)' = View(r, c) \/ Nulls(r, c) \/ Changes(r, c)
<1>1. c \in Rows /\ c \notin Parents
  BY IdAssumption DEF Rows
<1>2. CASE lk'[c] = r
  <2>1. row' = row
    BY <1>1, <1>2, OwnLocks
  <2>2. Reads(r, c) => lk[c] # r /\ unc'[c] = row[c]
    BY NoneAssumption DEF Reads
  <2> QED BY <1>1, <1>2, <2>1, <2>2, OwnLocks DEF View, Totals
<1>3. CASE lk'[c] # r
  <2>1. CASE Commits(r)
    BY <1>1, <1>3, <2>1 DEF Commits, Commit, View
  <2>2. CASE ~Commits(r)
    <3>1. lk[c] # r
      BY <1>1, <1>3, <2>2, TableSteps DEF Keeps, Takes, Hold, WritesBare, Records, IInv, TypeOK
    <3>2. row'[c] = row[c]
      BY <1>1, <2>2, CommittedRows DEF IInv, TypeOK
    <3> QED BY <1>3, <3>1, <3>2 DEF View
  <2> QED BY <2>1, <2>2
<1> QED BY <1>2, <1>3

LEMMA CreatingBefore ==
    ASSUME IInv, FreshInv, NEW r \in Requests, Step(r) \/ Fault(r), cfg' = cfg, NEW o \in Requests, Creating(o)'
    PROVE  Creating(o)
<1>1. Ask(o)' = Ask(o) /\ Target(o)' = Target(o) /\ (o # r => req'[o] = req[o])
  BY SameAsk DEF Undisturbed
<1>2. CASE o = r
  <2>1. ~IsDrop(r)
    BY <1>1, <1>2 DEF Creating, IsDrop
  <2> QED BY <1>1, <1>2, <2>1, Paths DEF Creating
<1> QED BY <1>1, <1>2 DEF Creating

\* A row that is not there yet stays so until its creator commits, and has never been there before.
LEMMA UnbornStep ==
    ASSUME IInv, FreshInv, NEW r \in Requests, Step(r) \/ Fault(r), cfg' = cfg, NEW c \in Children, Unborn(c)'
    PROVE  Unborn(c) /\ (~row[c].alive => ~row'[c].alive)
<1>1. PICK o \in Requests : Ask(o).op = "create" /\ Target(o) = c /\ (Creating(o)' \/ lk'[c] = o)
  BY SameAsk DEF Unborn
<1>2. c \in Rows /\ c \notin Parents
  BY IdAssumption DEF Rows
<1>3. CASE lk'[c] = o /\ o = r
  <2>1. row' = row
    BY <1>2, <1>3, OwnLocks
  <2>2. Write(r) => Creating(r)
    BY <1>1, <1>3 DEF Write, Creating, PastWrite
  <2>3. ~EnforceOptimisticLock(r)
    BY <1>1, <1>3 DEF EnforceOptimisticLock, FreshInv, Fresh
  <2>4. ~CascadeWrite(r)
    BY <1>1, <1>3 DEF CascadeWrite, IInv, WorkOf, IsDrop
  <2> QED BY <1>1, <1>2, <1>3, <2>1, <2>2, <2>3, <2>4, OwnLocks DEF Unborn, Reads, Nulls, Changes, Totals
<1>4. CASE lk'[c] = o /\ o # r
  <2>1. lk[c] = o /\ row'[c] = row[c]
    BY <1>2, <1>4, SameAsk DEF Undisturbed
  <2> QED BY <1>1, <2>1 DEF Unborn
<1>5. CASE Creating(o)'
  <2>1. Creating(o)
    BY <1>5, CreatingBefore
  <2>2. row'[Target(o)] = InitRow[Target(o)]
    BY <1>5, FreshStep, SameAsk DEF FreshInv, Fresh
  <2>3. ~InitRow[c].alive
    BY <1>1, FreshAssumption DEF FreshInv, Fresh, Target
  <2> QED BY <1>1, <2>1, <2>2, <2>3 DEF Unborn
<1> QED BY <1>1, <1>3, <1>4, <1>5

\* What is known while the rollup's invariant is shown to last.
RollStep(r) ==
    /\ IInv /\ FreshInv /\ AllTx /\ Rolled /\ TotalsAgree /\ Hidden /\ cfg' = cfg
    /\ \A o \in Requests : RollOf(o)
    /\ Step(r) \/ Fault(r)

\* A child's write changes who belongs to a parent only if the request has to recompute it.
LEMMA Named1 ==
    ASSUME NEW r \in Requests, RollStep(r), Write(r), ~Refuses(r), IsChild(r), NEW p \in Parents
    PROVE  LET c == Target(r) IN
           /\ View(r, c) = row[c]
           /\ In(row[c], p) => p \in req[r].aff
           /\ In(Written(r, View(r, c)), p) => p \in req[r].aff
<1> DEFINE c == Target(r)
<1>1. req[r].ph = "write" /\ (Ask(r).op # "create" => View(r, c).alive)
  BY WriteWork DEF RollStep
<1>2. RollOf(r) /\ Fresh(r) /\ c \in Rows /\ c \in Children /\ Ask(r) \in AskType /\ row[c] \in RowType
  BY Types DEF RollStep, IInv, FreshInv, IsChild
<1>3. View(r, c) = row[c]
  <2>1. ~IsDrop(r)
    BY <1>2, IdAssumption DEF IsDrop
  <2> QED BY <1>1, <1>2, <2>1 DEF RollOf, OneChild, View, PastWrite
<1>4. /\ Ask(r).op # "create" => Named(r, row[c])
      /\ (Ask(r).op # "delete" /\ Ask(r).fk \in Parents) => Ask(r).fk \in req[r].aff
  BY <1>1, <1>2, <1>3 DEF RollOf, Aims, OnWay
<1>5. Ask(r).op = "create" => ~row[c].alive /\ row[c].fk \notin Parents
  <2>1. Ask(r).op = "create" => row[c] = InitRow[c]
    BY <1>1, <1>2 DEF Fresh, Creating, PastWrite
  <2>2. Ask(r).op = "create" => ~InitRow[c].alive /\ InitRow[c].fk = None
    BY <1>2, FreshAssumption DEF Fresh, Target
  <2> QED BY <2>1, <2>2, NoneAssumption
<1>6. In(row[c], p) => p \in req[r].aff
  BY <1>4, <1>5 DEF In, Named
<1>7. In(Written(r, row[c]), p) => p \in req[r].aff
  <2> SUFFICES ASSUME In(Written(r, row[c]), p) PROVE p \in req[r].aff
    OBVIOUS
  <2>1. Ask(r).op # "delete" /\ p = IF Ask(r).fk # Keep THEN Ask(r).fk ELSE row[c].fk
    BY <1>2 DEF In, Written, RowType
  <2>2. CASE Ask(r).fk # Keep
    BY <1>4, <2>1, <2>2
  <2>3. CASE Ask(r).fk = Keep
    BY <1>1, <1>2, <1>3, <1>5, <1>6, <2>1, <2>3 DEF In, AskType
  <2> QED BY <2>2, <2>3
<1> QED BY <1>3, <1>6, <1>7

\* So does a cascade's write.
LEMMA Named2 ==
    ASSUME NEW r \in Requests, RollStep(r), CascadeWrite(r), ~Refuses(r), NEW p \in Parents
    PROVE  LET c == req[r].cur IN
           /\ In(View(r, c), p) => p \in req[r].aff
           /\ ~In(Nulled(View(r, c)), p)
<1> DEFINE c == req[r].cur
<1>1. c \in Children /\ req[r].ph = "child"
  BY ChildWork DEF RollStep
<1>2. Named(r, View(r, c))
  BY <1>1 DEF RollStep, RollOf, Visits
<1>3. View(r, c) \in RowType
  <2>1. c \in Rows
    BY <1>1 DEF Rows
  <2> QED BY <2>1, Types DEF RollStep, IInv, TypeOK, View
<1>4. ~In(Nulled(View(r, c)), p)
  BY <1>3, NoneAssumption DEF Nulled, In, RowType
<1> QED BY <1>2, <1>4 DEF In, Named

\* The children of a parent that r does not have to recompute stay the same in r's own step.
LEMMA OwnChildren ==
    ASSUME NEW r \in Requests, RollStep(r), ~Refuses(r), NEW p \in Parents,
           p \notin req[r].aff \/ StoreTotal(r) \/ Aggregate(r)
    PROVE  ChildrenOf(r, p)' = ChildrenOf(r, p)
<1>1. ASSUME NEW c \in Children PROVE In(View(r, c)', p) = In(View(r, c), p)
  <2>1. CASE View(r, c)' = View(r, c)
    BY <2>1
  <2>2. CASE Nulls(r, c)
    <3>1. CascadeWrite(r) /\ c = req[r].cur /\ req[r].ph = "child"
      BY <2>2 DEF Nulls, CascadeWrite
    <3>2. p \notin req[r].aff
      BY <3>1 DEF StoreTotal, Aggregate
    <3>3. View(r, c)' = Nulled(View(r, c))
      <4>1. c \in Rows
        BY DEF Rows
      <4>2. Hold(r, c, Nulled(View(r, c))) /\ row' = row
        BY <3>1, ChildWork DEF RollStep
      <4> QED BY <4>1, <4>2, Holding DEF RollStep
    <3> QED BY <3>1, <3>2, <3>3, Named2 DEF In
  <2>3. CASE Changes(r, c)
    <3>1. Write(r) /\ c = Target(r) /\ req[r].ph = "write" /\ IsChild(r)
      BY <2>3 DEF Changes, Write, IsChild
    <3>2. p \notin req[r].aff
      BY <3>1 DEF StoreTotal, Aggregate
    <3>3. View(r, c)' = Written(r, View(r, c))
      <4>1. c \in Rows
        BY DEF Rows
      <4>2. InTx(r)
        BY <3>1, ChildInTx DEF RollStep
      <4>3. Hold(r, c, Written(r, View(r, c))) /\ row' = row
        BY <3>1, <4>2, WriteWork DEF RollStep
      <4> QED BY <4>1, <4>3, Holding DEF RollStep
    <3> QED BY <3>1, <3>2, <3>3, Named1 DEF In
  <2> QED BY <2>1, <2>2, <2>3, OwnViews DEF RollStep
<1>2. ChildrenOf(r, p) = {c \in Children : In(View(r, c), p)}
  BY DEF ChildrenOf, In
<1>3. ChildrenOf(r, p)' = {c \in Children : In(View(r, c)', p)}
  BY DEF ChildrenOf, In, View
<1> QED BY <1>1, <1>2, <1>3

\* A parent goes off r's list once it is locked or found dead.
LEMMA PaidOff ==
    ASSUME NEW r \in Requests, RollStep(r), ~Refuses(r), NEW p \in Parents, p \in req[r].aff, p \notin req'[r].aff
    PROVE  \/ req[r].ph = "affected"
           \/ LockParent(r) /\ p = NextParent(r) /\ ~View(r, p).alive /\ Keeps
           \/ StoreTotal(r) /\ p = NextParent(r)
<1> USE DEF RollStep
<1>1. CASE Passes(r) \/ CaptureImage(r) \/ EnforceOptimisticLock(r) \/ CascadeRestrict(r)
           \/ EachChildId(r) \/ CascadeWrite(r) \/ LockScope(r) \/ Write(r)
  BY <1>1, ImageWork, MatchWork, RestrictWork, PageWork, ChildWork, LockScopeWork, WriteWork DEF Passes, SameWork
<1>5. CASE OwnCommit(r) \/ NextVersion(r) \/ InsertHistory(r) \/ FailHistory(r) \/ Aggregate(r) \/ Finish(r)
           \/ CommitLost(r)
  BY <1>5, OwnCommitWork, CountWork, InsertWork, LoggedWork, SumWork, FinishWork DEF SameWork
<1>6. CASE CascadePreImage(r)
  BY <1>6, PreWork
<1>2. CASE Affected(r)
  BY <1>2, AffectedWork
<1>3. CASE LockParent(r)
  BY <1>3, LockParentWork
<1>4. CASE StoreTotal(r)
  BY <1>4, StoreWork
<1> QED BY <1>1, <1>2, <1>3, <1>4, <1>5, <1>6, StepCases

LEMMA OwnLive == ASSUME NEW r \in Requests, RollStep(r) PROVE Live(r)'
<1> SUFFICES ASSUME NEW p \in Parents, lk'[p] = r PROVE row'[p].alive
  BY DEF Live
<1>1. p \in Rows /\ p \notin Children /\ Live(r) /\ IInv
  BY IdAssumption DEF Rows, RollStep, RollOf
<1>2. row' = row /\ ~Refuses(r)
  BY <1>1, OwnLocks DEF RollStep
<1>3. lk[p] = r => row[p].alive
  BY <1>1 DEF Live
<1>4. CASE Changes(r, p)
  <2>1. View(r, p).alive
    <3>1. Ask(r).op # "create"
      BY <1>1, <1>4, FreshAssumption DEF RollStep, FreshInv, Fresh, Changes, Target
    <3> QED BY <1>1, <1>2, <1>4, <3>1, WriteWork DEF Changes
  <2> QED BY <1>2, <1>3, <2>1 DEF View
<1>5. CASE Totals(r, p)
  BY <1>2, <1>5 DEF Totals, StoreTotal, RollStep, RollOf, Summing
<1> QED BY <1>1, <1>2, <1>3, <1>4, <1>5, OwnLocks DEF RollStep, Reads, Nulls

LEMMA OwnOwes == ASSUME NEW r \in Requests, RollStep(r) PROVE Owes(r)'
<1> SUFFICES ASSUME NEW p \in Parents, NEW c \in Children, lk'[c] = r, In(unc'[c], p) # In(row'[c], p)
             PROVE  p \in req'[r].aff \/ lk'[p] = r \/ ~row'[p].alive
  BY DEF Owes, Changed
<1>1. p \in Rows /\ c \in Rows /\ c \notin Parents /\ IInv /\ RollOf(r) /\ TxOf(r)
  BY IdAssumption DEF Rows, RollStep, RollOf, IInv
<1>2. row' = row /\ ~Refuses(r) /\ (lk[p] = r => lk'[p] = r)
  BY <1>1, OwnLocks DEF RollStep
<1>3. p \in req[r].aff \/ lk[p] = r \/ ~row[p].alive
  <2>1. CASE lk[c] = r /\ unc'[c] = unc[c]
    BY <1>1, <1>2, <2>1 DEF RollOf, Owes, Changed
  <2>2. CASE Nulls(r, c)
    <3>1. ~In(unc'[c], p) /\ (In(View(r, c), p) => p \in req[r].aff)
      BY <1>2, <2>2, Named2 DEF Nulls
    <3>2. CASE lk[c] = r
      BY <1>1, <1>2, <3>1, <3>2 DEF RollOf, Owes, Changed, View, In
    <3>3. CASE lk[c] # r
      BY <1>2, <3>1, <3>3 DEF View, In
    <3> QED BY <3>2, <3>3
  <2>3. CASE Changes(r, c)
    <3>1. IsChild(r)
      BY <2>3 DEF Changes, IsChild
    <3> QED BY <1>2, <2>3, <3>1, Named1 DEF Changes, In
  <2>4. CASE Reads(r, c)
    BY <1>2, <2>4 DEF Reads
  <2> QED BY <1>1, <2>1, <2>2, <2>3, <2>4, OwnLocks DEF RollStep, Totals
<1>4. CASE p \in req[r].aff /\ p \notin req'[r].aff
  <2>1. req[r].ph = "affected" => FALSE
    <3>1. req[r].ph = "affected" => \A x \in Rows : lk[x] # r
      BY <1>1 DEF TxOf, PastMatch, PastParent, PastWrite
    <3>2. req[r].ph = "affected" => Affected(r)
      BY <1>2, AffectedWork, ImageWork, MatchWork, RestrictWork, PageWork, PreWork, ChildWork, LockScopeWork, WriteWork,
         OwnCommitWork, CountWork, InsertWork, LoggedWork, LockParentWork, SumWork, StoreWork, FinishWork, StepCases,
         ZenonT(60) DEF Passes, RollStep
    <3>3. Affected(r) => lk' = lk
      BY <1>2, AffectedWork DEF RollStep, Keeps
    <3> QED BY <1>1, <3>1, <3>2, <3>3
  <2>2. CASE LockParent(r) /\ p = NextParent(r) /\ ~View(r, p).alive
    BY <1>1, <1>2, <2>2 DEF View
  <2>3. CASE StoreTotal(r) /\ p = NextParent(r)
    <3>1. PICK image : Hold(r, p, image)
      BY <1>1, <2>3, StoreWork
    <3> QED BY <1>1, <3>1 DEF Hold, IInv, TypeOK
  <2> QED BY <1>2, <1>4, <2>1, <2>2, <2>3, PaidOff
<1> QED BY <1>2, <1>3, <1>4

LEMMA OwnShrinks == ASSUME NEW r \in Requests, RollStep(r) PROVE Shrinks(r)'
<1> SUFFICES ASSUME cfg.pg, NEW c \in Children, lk'[c] = r, ~(Ask(r).op = "create" /\ Target(r) = c), unc'[c].alive
             PROVE  row'[c].alive /\ unc'[c].fk \in {row'[c].fk, None}
  BY SameAsk DEF Shrinks, RollStep
<1>1. c \in Rows /\ c \notin Parents /\ IInv /\ RollOf(r)
  BY IdAssumption DEF Rows, RollStep, RollOf
<1>2. row' = row /\ ~Refuses(r)
  BY <1>1, OwnLocks DEF RollStep
<1>3. row[c] \in RowType /\ View(r, c) \in RowType
  BY <1>1, Types DEF IInv, TypeOK, View
<1>4. CASE lk[c] = r /\ unc'[c] = unc[c]
  BY <1>1, <1>2, <1>4 DEF RollOf, Shrinks
<1>5. CASE Reads(r, c)
  BY <1>2, <1>5 DEF Reads
<1>6. CASE Nulls(r, c)
  <2>1. View(r, c).alive
    BY <1>1, <1>2, <1>6, ChildWork DEF Nulls
  <2>2. row[c].alive
    BY <1>1, <2>1 DEF View, RollOf, Shrinks
  <2>3. unc'[c].fk = None
    BY <1>3, <1>6 DEF Nulls, Nulled, RowType
  <2> QED BY <1>2, <2>2, <2>3
<1>7. CASE Changes(r, c)
  <2>1. Write(r) /\ c = Target(r) /\ IsChild(r) /\ unc'[c] = Written(r, View(r, c)) /\ Ask(r).op # "create"
    BY <1>7 DEF Changes, IsChild
  <2>2. View(r, c) = row[c] /\ row[c].alive
    <3>1. req[r].ph = "write" /\ ~IsDrop(r)
      BY <2>1, IdAssumption DEF Write, IsDrop, IsChild
    <3>2. View(r, c) = row[c]
      BY <1>1, <2>1, <3>1 DEF RollOf, OneChild, View, PastWrite
    <3> QED BY <1>1, <1>2, <2>1, <3>2, WriteWork
  <2>3. Ask(r).op = "update" /\ Ask(r).fk = Keep
    <3>1. Ask(r) \in AskType
      BY Types DEF IInv, RollStep
    <3>2. Ask(r).op # "delete"
      BY <1>3, <2>1 DEF Written, RowType
    <3> QED BY <2>1, <3>1, <3>2 DEF AskType, RollStep, Rolled, Moves
  <2>4. unc'[c].fk = row[c].fk
    BY <1>3, <2>1, <2>2, <2>3 DEF Written, RowType
  <2> QED BY <1>2, <2>2, <2>4
<1> QED BY <1>1, <1>4, <1>5, <1>6, <1>7, OwnLocks DEF RollStep, Totals

LEMMA OwnOneChild == ASSUME NEW r \in Requests, RollStep(r) PROVE OneChild(r)'
<1> SUFFICES ASSUME ~IsDrop(r), NEW c \in Children, lk'[c] = r
             PROVE  c = Target(r) /\ (req'[r].ph \notin PastWrite => unc'[c] = row'[c])
  BY SameAsk DEF OneChild, RollStep
<1>1. c \in Rows /\ c \notin Parents /\ IInv /\ RollOf(r) /\ WorkOf(r)
  BY IdAssumption DEF Rows, RollStep, RollOf, IInv
<1>2. row' = row /\ ~Refuses(r)
  BY <1>1, OwnLocks DEF RollStep
<1>3. req'[r].ph # "done"
  <2>1. IInv'
    BY SameAsk DEF RollStep
  <2>2. TxOf(r)'
    BY <2>1 DEF IInv
  <2> QED BY <1>1, <2>2 DEF TxOf, InTx, Joined, PastScope, PastLockWhen, PastMatch, PastParent, PastWrite
<1>4. CASE lk[c] = r /\ unc'[c] = unc[c]
  BY <1>1, <1>2, <1>3, <1>4, Paths DEF RollOf, OneChild, RollStep
<1>5. CASE Reads(r, c)
  BY <1>1, <1>2, <1>5 DEF Reads
<1>6. CASE Nulls(r, c)
  BY <1>1, <1>6 DEF Nulls, CascadeWrite, WorkOf
<1>7. CASE Changes(r, c)
  BY <1>2, <1>7, Paths DEF Changes, RollStep
<1> QED BY <1>1, <1>4, <1>5, <1>6, <1>7, OwnLocks DEF RollStep, Totals

LEMMA OwnTotalled == ASSUME NEW r \in Requests, RollStep(r) PROVE Totalled(r)'
<1> SUFFICES ASSUME NEW p \in Parents, lk'[p] = r, p \notin req'[r].aff, unc'[p].alive
             PROVE  unc'[p].total = Cardinality(ChildrenOf(r, p)')
  BY DEF Totalled
<1>1. p \in Rows /\ p \notin Children /\ IInv /\ RollOf(r) /\ TxOf(r)
  BY IdAssumption DEF Rows, RollStep, RollOf, IInv
<1>2. row' = row /\ ~Refuses(r)
  BY <1>1, OwnLocks DEF RollStep
<1>3. View(r, p) \in RowType
  BY <1>1, Types DEF IInv, TypeOK, View
<1>4. CASE StoreTotal(r) /\ p = NextParent(r)
  <2>1. row' = row /\ req[r].ph = "store" /\ Hold(r, p, [View(r, p) EXCEPT !.total = req[r].n, !.ver = @ + 1])
    BY <1>1, <1>4, StoreWork
  <2>2. unc'[p] = [View(r, p) EXCEPT !.total = req[r].n, !.ver = @ + 1]
    BY <1>1, <2>1, Holding
  <2>3. unc'[p].total = req[r].n
    BY <1>3, <2>2 DEF RowType
  <2>4. req[r].n = Cardinality(ChildrenOf(r, p))
    BY <1>1, <1>4, <2>1 DEF RollOf, Summing
  <2> QED BY <1>2, <1>4, <2>3, <2>4, OwnChildren
<1>5. ASSUME ~(StoreTotal(r) /\ p = NextParent(r)), p \in req[r].aff PROVE FALSE
  <2>1. CASE req[r].ph = "affected"
    <3>1. \A x \in Rows : lk[x] # r
      BY <1>1, <2>1 DEF TxOf, PastMatch, PastParent, PastWrite
    <3>2. Reads(r, p) => req[r].ph # "affected"
      BY DEF Reads, EnforceOptimisticLock, LockScope, LockParent
    <3>3. Changes(r, p) \/ Totals(r, p) => req[r].ph # "affected"
      BY DEF Changes, Write, Totals, StoreTotal
    <3> QED BY <1>1, <2>1, <3>1, <3>2, <3>3, OwnLocks DEF RollStep, Nulls
  <2>2. CASE LockParent(r) /\ p = NextParent(r) /\ ~View(r, p).alive /\ Keeps
    BY <1>1, <2>2 DEF View, Keeps
  <2> QED BY <1>2, <1>5, <2>1, <2>2, PaidOff
<1>6. ASSUME p \notin req[r].aff PROVE unc'[p].total = Cardinality(ChildrenOf(r, p)')
  <2>1. ChildrenOf(r, p)' = ChildrenOf(r, p)
    BY <1>2, <1>6, OwnChildren
  <2>2. ASSUME \A c \in Children : lk[c] # r PROVE ChildrenOf(r, p) = {c \in Children : row[c].alive /\ row[c].fk = p}
    BY <2>2 DEF ChildrenOf, View
  <2>3. CASE lk[p] = r /\ unc'[p] = unc[p]
    BY <1>1, <1>6, <2>1, <2>3 DEF RollOf, Totalled
  <2>4. CASE Reads(r, p)
    <3>1. req[r].ph = "match"
      <4>1. CASE LockScope(r) /\ p = Ask(r).fk
        <5>1. IsChild(r) /\ Ask(r).op = "create" /\ req[r].ph = "lockscope"
          BY <4>1 DEF LockScope, RollStep, FreshInv, Fresh
        <5> QED BY <1>1, <1>6, <4>1, <5>1 DEF RollOf, Aims, OnWay
      <4>2. CASE LockParent(r) /\ p = NextParent(r)
        BY <1>1, <1>2, <1>6, <4>2, LockParentWork
      <4> QED BY <2>4, <4>1, <4>2 DEF Reads, EnforceOptimisticLock
    <3>2. \A c \in Children : lk[c] # r
      BY <1>1, <3>1 DEF TxOf, PastMatch, PastParent, PastWrite, Rows
    <3> QED BY <2>1, <2>2, <2>4, <3>2 DEF Reads, RollStep, TotalsAgree
  <2>5. CASE Changes(r, p)
    <3>1. Write(r) /\ p = Target(r) /\ unc'[p] = Written(r, View(r, p)) /\ Ask(r).op # "create"
      BY <1>1, <2>5, FreshAssumption DEF RollStep, FreshInv, Fresh, Changes, Target
    <3>2. View(r, p).alive
      BY <1>1, <1>2, <3>1, WriteWork
    <3>3. Ask(r).op # "delete"
      BY <1>3, <3>1 DEF Written, RowType
    <3>4. unc'[p].total = View(r, p).total
      BY <1>3, <3>1, <3>3 DEF Written, RowType
    <3>5. CASE lk[p] = r
      BY <1>1, <1>6, <2>1, <3>2, <3>4, <3>5 DEF RollOf, Totalled, View
    <3>6. CASE lk[p] # r
      <4>1. \A c \in Children : lk[c] # r
        BY <1>1, <3>1, <3>3 DEF RollOf, OneChild, IsDrop
      <4> QED BY <2>1, <2>2, <3>2, <3>4, <3>6, <4>1 DEF View, RollStep, TotalsAgree
    <3> QED BY <3>5, <3>6
  <2>6. CASE Totals(r, p)
    <3>1. StoreTotal(r) /\ p = NextParent(r)
      BY <2>6 DEF Totals
    <3> QED BY <1>1, <1>6, <3>1, StoreWork
  <2> QED BY <1>1, <2>3, <2>4, <2>5, <2>6, OwnLocks DEF RollStep, Nulls
<1> QED BY <1>4, <1>5, <1>6

LEMMA OwnSumming == ASSUME NEW r \in Requests, RollStep(r) PROVE Summing(r)'
<1>1. IInv /\ RollOf(r) /\ TypeOK /\ WorkOf(r)
  BY DEF RollStep, IInv
<1>2. CASE Refuses(r)
  BY <1>1, <1>2, RefuseWork DEF Summing
<1>3. CASE (Passes(r) \/ Affected(r) \/ CaptureImage(r) \/ EnforceOptimisticLock(r) \/ LockScope(r)) /\ ~Refuses(r)
  <2>1. req'[r].ph \in Guards(r) \cup {"write"}
    <3>1. CASE Passes(r)
      BY <3>1, Narrowing DEF Passes, Guards
    <3>2. CASE Affected(r) \/ CaptureImage(r) \/ EnforceOptimisticLock(r) \/ LockScope(r)
      BY <1>1, <1>3, <3>2, AffectedWork, ImageWork, MatchWork, LockScopeWork, Narrowing
    <3> QED BY <1>3, <3>1, <3>2
  <2> QED BY <2>1 DEF Summing, Guards, FromScope, FromLockWhen, FromMatch, FromParent, FromCascade
<1>4. CASE (CascadeRestrict(r) \/ EachChildId(r) \/ CascadePreImage(r) \/ NextVersion(r) \/ CommitLost(r) \/ Finish(r))
           /\ ~Refuses(r)
  <2>1. req'[r].ph \notin {"sum", "store", "finish"}
    BY <1>1, <1>4, RestrictWork, PageWork, PreWork, CountWork, FinishWork
  <2> QED BY <2>1 DEF Summing
<1>5. CASE (CascadeWrite(r) \/ Write(r) \/ OwnCommit(r) \/ InsertHistory(r) \/ FailHistory(r)) /\ ~Refuses(r)
  <2>1. req'[r].aff = req[r].aff
    BY <1>1, <1>5, ChildWork, WriteWork, OwnCommitWork, InsertWork, LoggedWork DEF SameWork
  <2>2. req'[r].ph \notin {"sum", "store"} /\ (req'[r].ph = "finish" => req[r].aff = {})
    BY <1>1, <1>5, ChildWork, WriteWork, OwnCommitWork, InsertWork, LoggedWork
       DEF AfterDB, AfterHistory, Outward, Onward
  <2> QED BY <2>1, <2>2 DEF Summing
<1>6. CASE LockParent(r) /\ ~Refuses(r)
  <2>1. PICK p \in Parents : p = NextParent(r)
    BY <1>1, <1>6, LockParentWork
  <2>2. CASE View(r, p).alive /\ ForUpdate(r, p) /\ req'[r].ph = "sum" /\ req'[r].aff = req[r].aff /\ row' = row
    <3>1. p \in Rows /\ NextParent(r)' = p
      BY <2>1, <2>2 DEF Rows, NextParent
    <3>2. row[p].alive
      BY <1>1, <2>2 DEF View, RollOf, Live
    <3>3. cfg'.pg => lk'[p] = r
      BY <1>1, <2>2, <3>1 DEF ForUpdate, Hold, TypeOK, RollStep
    <3> QED BY <2>2, <3>1, <3>2, <3>3 DEF Summing
  <2>3. CASE req'[r].aff = req[r].aff \ {p} /\ req'[r].ph = AfterTotals(r, req[r].aff \ {p})
    BY <2>3 DEF Summing, AfterTotals
  <2> QED BY <1>1, <1>6, <2>1, <2>2, <2>3, LockParentWork
<1>7. CASE Aggregate(r) /\ ~Refuses(r)
  <2>1. Keeps /\ req'[r].aff = req[r].aff /\ req[r].ph = "sum" /\ req'[r].ph = "store"
        /\ req'[r].n = Cardinality(ChildrenOf(r, NextParent(r)))
    BY <1>1, <1>7, SumWork
  <2>2. NextParent(r)' = NextParent(r)
    BY <2>1 DEF NextParent
  <2>3. ChildrenOf(r, NextParent(r))' = ChildrenOf(r, NextParent(r))
    BY <2>1, <2>2 DEF Keeps, ChildrenOf, View
  <2> QED BY <1>1, <2>1, <2>2, <2>3 DEF Summing, Keeps, RollOf, RollStep
<1>8. CASE StoreTotal(r) /\ ~Refuses(r)
  <2>1. req'[r].ph = AfterTotals(r, req'[r].aff)
    BY <1>1, <1>8, StoreWork
  <2> QED BY <2>1 DEF Summing, AfterTotals
<1> QED BY <1>1, <1>2, <1>3, <1>4, <1>5, <1>6, <1>7, <1>8, StepCases DEF RollStep

LEMMA OwnAims == ASSUME NEW r \in Requests, RollStep(r) PROVE Aims(r)'
<1>1. IInv /\ RollOf(r) /\ TypeOK /\ WorkOf(r) /\ Rolled /\ Target(r) \in Rows
  BY Types DEF RollStep, IInv
<1>2. Ask(r)' = Ask(r) /\ Target(r)' = Target(r) /\ IsChild(r)' = IsChild(r)
  BY SameAsk DEF RollStep
<1>3. SUFFICES ASSUME IsChild(r), req'[r].ph \in OnWay
      PROVE  /\ Ask(r).op # "create" => Named(r, View(r, Target(r)))'
             /\ (Ask(r).op # "delete" /\ Ask(r).fk \in Parents) => Ask(r).fk \in req'[r].aff
  BY <1>2 DEF Aims
<1>4. ~Refuses(r) /\ ~IsDrop(r) /\ (req[r].ph \notin PastWrite)
  BY <1>1, <1>3, RefuseWork, Paths, IdAssumption DEF OnWay, PastWrite, IsDrop, IsChild, RollStep
<1>5. ASSUME req[r].ph \in OnWay, View(r, Target(r))' = View(r, Target(r)), req'[r].aff = req[r].aff
      PROVE  Aims(r)'
  <2>1. Named(r, View(r, Target(r)))' = Named(r, View(r, Target(r)))
    BY <1>5 DEF Named
  <2> QED BY <1>1, <1>2, <1>3, <1>5, <2>1 DEF RollOf, Aims
<1>6. CASE Passes(r)
  <2>1. req[r].ph \in {"scope", "lockwhen", "parent"}
    BY <1>1, <1>3, <1>6 DEF Passes, FromBegin, FromAffected, Rolled, OnWay
  <2>2. View(r, Target(r))' = View(r, Target(r))
    <3>1. \A y \in Rows : View(r, y)' = View(r, y)
      BY <1>6, KeepsViews DEF Passes
    <3>2. PICK t \in Rows : t = Target(r)
      BY <1>1
    <3> QED BY <1>2, <3>1, <3>2 DEF View
  <2> QED BY <1>2, <1>3, <1>5, <1>6, <2>1, <2>2 DEF Passes, SameWork, OnWay, Aims
<1>7. CASE Affected(r)
  <2>1. Keeps /\ req'[r].aff = AffectedParents(r)
    BY <1>1, <1>4, <1>7, AffectedWork
  <2>2. View(r, Target(r))' = View(r, Target(r))
    BY <1>2, <2>1 DEF View, Keeps
  <2>3. Ask(r).op # "create" => Named(r, View(r, Target(r)))'
    BY <2>1, <2>2 DEF Named, AffectedParents
  <2> QED BY <2>1, <2>3 DEF AffectedParents
<1>8. CASE CaptureImage(r)
  <2>1. Keeps /\ req'[r].aff = req[r].aff /\ req[r].ph = "image"
    BY <1>1, <1>8, ImageWork
  <2>2. View(r, Target(r))' = View(r, Target(r))
    BY <1>2, <2>1 DEF View, Keeps
  <2> QED BY <1>2, <1>3, <1>5, <2>1, <2>2 DEF OnWay, Aims
<1>9. ASSUME NEW y \in Rows, CanLock(r, y), ForUpdate(r, y), row' = row PROVE View(r, Target(r))' = View(r, Target(r))
  <2>1. PICK t \in Rows : t = Target(r)
    BY <1>1
  <2>2. View(r, t)' = View(r, t)
    BY <1>1, <1>9, Reading
  <2> QED BY <1>2, <2>1, <2>2 DEF View
<1>10. CASE EnforceOptimisticLock(r)
  <2>1. req[r].ph = "match" /\ req'[r].aff = req[r].aff /\ CanLock(r, Target(r)) /\ ForUpdate(r, Target(r)) /\ row' = row
    BY <1>1, <1>4, <1>10, MatchWork DEF SameWork
  <2>2. View(r, Target(r))' = View(r, Target(r))
    BY <1>1, <1>9, <2>1
  <2> QED BY <1>2, <1>3, <1>5, <2>1, <2>2 DEF OnWay, Aims
<1>11. CASE LockScope(r)
  <2>1. req[r].ph = "lockscope" /\ req'[r].aff = req[r].aff /\ row' = row
    BY <1>1, <1>4, <1>11, LockScopeWork DEF SameWork
  <2>2. View(r, Target(r))' = View(r, Target(r))
    <3>1. CASE Keeps
      BY <1>2, <3>1 DEF View, Keeps
    <3>2. CASE Ask(r).fk \in Parents /\ CanLock(r, Ask(r).fk) /\ ForUpdate(r, Ask(r).fk)
      BY <1>9, <2>1, <3>2 DEF Rows
    <3> QED BY <1>1, <1>4, <1>11, <3>1, <3>2, LockScopeWork
  <2> QED BY <1>2, <1>3, <1>5, <2>1, <2>2 DEF OnWay, Aims
<1>12. CASE CascadeRestrict(r) \/ EachChildId(r) \/ CascadePreImage(r) \/ CascadeWrite(r)
  BY <1>1, <1>4, <1>12, RestrictWork, PageWork, PreWork, ChildWork DEF WorkOf
<1>13. CASE Write(r)
  BY <1>1, <1>3, <1>4, <1>13, Paths DEF OnWay, PastWrite, RollStep
<1>14. CASE OwnCommit(r) \/ NextVersion(r) \/ InsertHistory(r) \/ FailHistory(r) \/ LockParent(r) \/ Aggregate(r)
            \/ StoreTotal(r) \/ Finish(r) \/ CommitLost(r)
  BY <1>1, <1>4, <1>14, OwnCommitWork, CountWork, InsertWork, LoggedWork, LockParentWork, SumWork, StoreWork, FinishWork
     DEF PastWrite
<1> QED BY <1>1, <1>4, <1>6, <1>7, <1>8, <1>10, <1>11, <1>12, <1>13, <1>14, StepCases DEF RollStep

LEMMA StillBorn == ASSUME NEW r \in Requests, RollStep(r), NEW c \in Children, ~Unborn(c) PROVE ~Unborn(c)'
BY UnbornStep DEF RollStep

LEMMA OwnVisits == ASSUME NEW r \in Requests, RollStep(r) PROVE Visits(r)'
<1>1. IInv /\ RollOf(r) /\ TypeOK /\ WorkOf(r) /\ Rolled /\ FreshInv /\ Hidden /\ req[r] \in ReqType
  BY Types DEF RollStep, IInv
<1>2. \A c \in req[r].todo : c \in Children /\ ~Unborn(c)
  BY <1>1 DEF RollOf, Visits, ReqType
<1>3. ASSUME NEW c \in req'[r].todo PROVE c \in Children /\ ~Unborn(c)
  <2>1. CASE EachChildId(r) /\ c \in Page(r)
    <3>1. c \in Children /\ View(r, c).alive /\ IsDrop(r)
      BY <1>1, <2>1, PageWork DEF Page, Rest, ChildrenOf, WorkOf
    <3>2. CASE lk[c] = r
      <4>1. ASSUME NEW o \in Requests, Ask(o).op = "create", Target(o) = c PROVE ~Creating(o) /\ lk[c] # o
        BY <1>1, <3>1, <3>2, <4>1, NoneAssumption DEF FreshInv, Fresh, IsDrop
      <4> QED BY <3>1, <4>1 DEF Unborn
    <3>3. CASE lk[c] # r
      BY <1>1, <3>1, <3>3 DEF Hidden, View
    <3> QED BY <3>1, <3>2, <3>3
  <2>2. CASE c \in req[r].todo
    BY <1>2, <2>2
  <2>3. CASE Refuses(r)
    BY <1>1, <1>2, <2>3, RefuseWork DEF SameWork, SameWalk
  <2>4. CASE (Passes(r) \/ Affected(r) \/ CaptureImage(r) \/ EnforceOptimisticLock(r) \/ CascadeRestrict(r)
              \/ CascadePreImage(r) \/ CascadeWrite(r) \/ LockScope(r) \/ Write(r) \/ OwnCommit(r)) /\ ~Refuses(r)
    <3>1. req'[r].todo \subseteq req[r].todo
      BY <1>1, <2>4, AffectedWork, ImageWork, MatchWork, RestrictWork, PreWork, ChildWork, LockScopeWork, WriteWork,
         OwnCommitWork DEF Passes, SameWork, SameWalk
    <3> QED BY <1>2, <3>1
  <2>5. CASE (NextVersion(r) \/ InsertHistory(r) \/ FailHistory(r) \/ LockParent(r) \/ Aggregate(r) \/ StoreTotal(r)
              \/ Finish(r) \/ CommitLost(r)) /\ ~Refuses(r)
    <3>1. req'[r].todo \subseteq req[r].todo
      BY <1>1, <2>5, CountWork, InsertWork, LoggedWork, LockParentWork, SumWork, StoreWork, FinishWork
         DEF SameWork, SameWalk
    <3> QED BY <1>2, <3>1
  <2>6. CASE EachChildId(r)
    BY <1>1, <1>2, <2>1, <2>6, PageWork DEF SameWalk
  <2> QED BY <1>1, <2>3, <2>4, <2>5, <2>6, StepCases DEF RollStep
<1>4. ASSUME req'[r].ph = "child" PROVE CascadePreImage(r) /\ ~Refuses(r)
  <2>1. ~Refuses(r)
    BY <1>1, <1>4, RefuseWork
  <2>2. ~Passes(r) /\ ~Affected(r) /\ ~CaptureImage(r) /\ ~EnforceOptimisticLock(r) /\ ~LockScope(r)
    BY <1>1, <1>4, <2>1, AffectedWork, ImageWork, MatchWork, LockScopeWork
       DEF Passes, FromBegin, FromAffected, FromImage, FromScope, FromLockWhen, FromMatch, FromParent, FromCascade
  <2>3. ~CascadeRestrict(r) /\ ~EachChildId(r) /\ ~CascadeWrite(r) /\ ~Write(r) /\ ~OwnCommit(r) /\ ~NextVersion(r)
    BY <1>1, <1>4, <2>1, RestrictWork, PageWork, ChildWork, WriteWork, OwnCommitWork, CountWork
       DEF Onward, AfterDB, Outward
  <2>4. ~InsertHistory(r) /\ ~FailHistory(r) /\ ~LockParent(r) /\ ~Aggregate(r) /\ ~StoreTotal(r) /\ ~Finish(r)
        /\ ~CommitLost(r)
    BY <1>1, <1>4, <2>1, InsertWork, LoggedWork, LockParentWork, SumWork, StoreWork, FinishWork
       DEF AfterHistory, Onward, Outward, AfterTotals
  <2> QED BY <1>1, <2>1, <2>2, <2>3, <2>4, StepCases DEF RollStep
<1>5. ASSUME req'[r].ph = "child" PROVE Named(r, View(r, req[r].cur))' /\ ~Unborn(req[r].cur)'
  <2>1. /\ Keeps /\ req'[r].cur \in req[r].todo /\ req'[r].cur \in Children
        /\ req'[r].aff = req[r].aff \cup ({View(r, req'[r].cur).fk} \cap Parents)
    BY <1>1, <1>4, <1>5, PreWork DEF Rolled
  <2>2. PICK c \in Children : c = req'[r].cur
    BY <2>1
  <2>3. View(r, req[r].cur)' = View(r, c)
    BY <2>1, <2>2 DEF Keeps, View
  <2>4. Named(r, View(r, req[r].cur))'
    BY <2>1, <2>2, <2>3 DEF Named
  <2>5. ~Unborn(c)'
    BY <1>2, <2>1, <2>2, StillBorn
  <2> QED BY <2>2, <2>4, <2>5 DEF Unborn
<1>6. \A c \in req'[r].todo : ~Unborn(c)'
  BY <1>3, StillBorn
<1> QED BY <1>5, <1>6 DEF Visits

LEMMA RollOwn == ASSUME NEW r \in Requests, RollStep(r) PROVE RollOf(r)'
BY OwnLive, OwnOwes, OwnTotalled, OwnSumming, OwnOneChild, OwnAims, OwnVisits, OwnShrinks DEF RollOf

\* A commit changes who belongs to a live parent only under that parent's lock, and no parent comes back.
LEMMA Unaffected ==
    ASSUME NEW r \in Requests, RollStep(r), NEW p \in Parents
    PROVE  /\ ~row[p].alive => ~row'[p].alive
           /\ (row[p].alive /\ lk[p] # r) => \A c \in Children : In(row'[c], p) = In(row[c], p)
<1>1. p \in Rows /\ \A c \in Children : c \in Rows /\ c \notin Parents
  BY IdAssumption DEF Rows
<1>2. RollOf(r)
  BY DEF RollStep
<1>3. CASE row' = row
  BY <1>3
<1>4. CASE Commits(r) /\ (req[r].ph = "finish" \/ req[r].aff = {})
           /\ \A x \in Rows : row'[x] = IF lk[x] = r THEN unc[x] ELSE row[x]
  <2>1. ~row[p].alive => ~row'[p].alive
    BY <1>1, <1>2, <1>4 DEF RollOf, Live
  <2>2. req[r].aff = {}
    BY <1>2, <1>4 DEF RollOf, Summing
  <2>3. ASSUME row[p].alive, lk[p] # r, NEW c \in Children PROVE In(row'[c], p) = In(row[c], p)
    <3>1. CASE lk[c] = r
      BY <1>1, <1>2, <1>4, <2>2, <2>3, <3>1 DEF RollOf, Owes, Changed
    <3>2. CASE lk[c] # r
      BY <1>1, <1>4, <3>2
    <3> QED BY <3>1, <3>2
  <2> QED BY <2>1, <2>3
<1>5. CASE Target(r) \in Parents /\ row[Target(r)].alive /\ row' = [row EXCEPT ![Target(r)] = Written(r, row[Target(r)])]
  <2>1. \A x \in Rows : x # Target(r) => row'[x] = row[x]
    BY <1>5 DEF RollStep, IInv, TypeOK
  <2> QED BY <1>1, <1>5, <2>1
<1> QED BY <1>3, <1>4, <1>5, CommittedRows DEF RollStep

LEMMA RollTotals == ASSUME NEW r \in Requests, RollStep(r) PROVE TotalsAgree'
<1> SUFFICES ASSUME NEW p \in Parents, row'[p].alive
             PROVE  row'[p].total = Cardinality({c \in Children : row'[c].alive /\ row'[c].fk = p})
  BY DEF TotalsAgree
<1>1. p \in Rows /\ p \notin Children /\ (\A c \in Children : c \in Rows) /\ IInv /\ RollOf(r)
  BY IdAssumption DEF Rows, RollStep
<1>2. row[p].alive /\ (lk[p] # r => \A c \in Children : In(row'[c], p) = In(row[c], p))
  BY Unaffected
<1>3. row[p].total = Cardinality({c \in Children : row[c].alive /\ row[c].fk = p})
  BY <1>2 DEF RollStep, TotalsAgree
<1>4. ASSUME lk[p] # r PROVE {c \in Children : row'[c].alive /\ row'[c].fk = p} = {c \in Children : row[c].alive /\ row[c].fk = p}
  BY <1>2, <1>4 DEF In
<1>5. CASE row' = row
  BY <1>3, <1>5
<1>6. CASE Commits(r) /\ (req[r].ph = "finish" \/ req[r].aff = {})
           /\ \A x \in Rows : row'[x] = IF lk[x] = r THEN unc[x] ELSE row[x]
  <2>1. CASE lk[p] # r
    BY <1>1, <1>3, <1>4, <1>6, <2>1
  <2>2. CASE lk[p] = r
    <3>1. req[r].aff = {}
      BY <1>1, <1>6 DEF RollOf, Summing
    <3>2. row'[p] = unc[p]
      BY <1>1, <1>6, <2>2
    <3>3. unc[p].total = Cardinality(ChildrenOf(r, p))
      BY <1>1, <2>2, <3>1, <3>2 DEF RollOf, Totalled
    <3>4. ChildrenOf(r, p) = {c \in Children : row'[c].alive /\ row'[c].fk = p}
      BY <1>1, <1>6 DEF ChildrenOf, View
    <3> QED BY <3>2, <3>3, <3>4
  <2> QED BY <2>1, <2>2
<1>7. CASE ~InTx(r) /\ Target(r) \in Parents /\ row[Target(r)].alive
           /\ row' = [row EXCEPT ![Target(r)] = Written(r, row[Target(r)])]
  <2>1. TypeOK /\ row[p] \in RowType
    BY <1>1, Types DEF IInv, TypeOK
  <2>2. lk[p] # r
    BY <1>1, <1>7 DEF IInv, TxOf
  <2>3. row'[p].total = row[p].total
    BY <1>1, <1>7, <2>1 DEF Written, RowType, TypeOK
  <2> QED BY <1>3, <1>4, <2>2, <2>3
<1> QED BY <1>1, <1>5, <1>6, <1>7, CommittedRows DEF RollStep

\* What another request relies on, r's step leaves to it.
LEMMA RollOthers ==
    ASSUME NEW r \in Requests, RollStep(r), NEW o \in Requests, o # r
    PROVE  RollOf(o)'
<1> USE DEF RollStep
<1>1. /\ Ask(o)' = Ask(o) /\ Target(o)' = Target(o) /\ IsChild(o)' = IsChild(o) /\ IsDrop(o)' = IsDrop(o)
      /\ Undisturbed(o) /\ req'[o] = req[o] /\ NextParent(o)' = NextParent(o) /\ InTx(o)' = InTx(o)
  BY SameAsk DEF Undisturbed, NextParent
<1>2. RollOf(o) /\ RollOf(r) /\ IInv /\ WorkOf(o) /\ TypeOK /\ Rolled /\ FreshInv
  BY DEF IInv
<1>3. \A x \in Rows : /\ lk'[x] = o <=> lk[x] = o
                      /\ lk[x] = o => unc'[x] = unc[x] /\ row'[x] = row[x]
  BY <1>1 DEF Undisturbed
<1>4. (~cfg.pg /\ InTx(o)) => row' = row /\ lk' = lk /\ unc' = unc
  BY <1>1 DEF Undisturbed
<1>5. (\A p \in Parents : p \in Rows) /\ \A c \in Children : c \in Rows
  BY DEF Rows
<1>6. Live(o)' /\ Shrinks(o)' /\ OneChild(o)'
  BY <1>1, <1>2, <1>3, <1>5 DEF RollOf, Live, Shrinks, OneChild
<1>7. Owes(o)'
  <2> SUFFICES ASSUME NEW p \in Parents, NEW c \in Children, lk'[c] = o, In(unc'[c], p) # In(row'[c], p)
               PROVE  p \in req'[o].aff \/ lk'[p] = o \/ ~row'[p].alive
    BY DEF Owes, Changed
  <2>1. Changed(o, p)
    BY <1>3, <1>5 DEF Changed
  <2> QED BY <1>1, <1>2, <1>3, <1>5, <2>1, Unaffected DEF RollOf, Owes
\* A child that o does not see through its own lock stays where it was, as far as a live parent that
\* r has not locked is concerned.
<1>8. ASSUME NEW p \in Parents, row[p].alive, lk[p] # r PROVE ChildrenOf(o, p)' = ChildrenOf(o, p)
  <2>1. ASSUME NEW c \in Children PROVE In(View(o, c)', p) = In(View(o, c), p)
    <3>1. CASE lk[c] = o
      BY <1>3, <1>5, <3>1 DEF View
    <3>2. CASE lk[c] # o
      BY <1>3, <1>5, <1>8, <3>2, Unaffected DEF View
    <3> QED BY <3>1, <3>2
  <2>2. ChildrenOf(o, p) = {c \in Children : In(View(o, c), p)}
    BY DEF ChildrenOf, In
  <2>3. ChildrenOf(o, p)' = {c \in Children : In(View(o, c)', p)}
    BY DEF ChildrenOf, In, View
  <2> QED BY <2>1, <2>2, <2>3
<1>9. Totalled(o)'
  <2> SUFFICES ASSUME NEW p \in Parents, lk'[p] = o, p \notin req'[o].aff, unc'[p].alive
               PROVE  unc'[p].total = Cardinality(ChildrenOf(o, p)')
    BY DEF Totalled
  <2>1. lk[p] = o /\ unc'[p] = unc[p]
    BY <1>3, <1>5
  <2>2. row[p].alive /\ lk[p] # r
    BY <1>2, <2>1, NoneAssumption DEF RollOf, Live
  <2> QED BY <1>1, <1>2, <1>8, <2>1, <2>2 DEF RollOf, Totalled
<1>10. Summing(o)'
  <2>1. CASE req[o].ph \notin {"sum", "store"}
    BY <1>1, <1>2, <2>1 DEF RollOf, Summing
  <2>2. CASE req[o].ph \in {"sum", "store"}
    <3>1. PICK p \in Parents : p = NextParent(o)
      <4>1. req[o].aff # {} /\ req[o].aff \subseteq Parents
        BY <1>2, <2>2, Types DEF WorkOf, ReqType, IInv
      <4> QED BY <4>1, LeastMember, IdAssumption DEF NextParent
    <3>2. InTx(o) /\ row[p].alive /\ (cfg.pg => lk[p] = o)
      BY <1>2, <2>2, <3>1 DEF RollOf, Summing, WorkOf
    <3>3. row'[p] = row[p] /\ (cfg.pg => lk'[p] = o) /\ ChildrenOf(o, p)' = ChildrenOf(o, p)
      <4>1. CASE cfg.pg
        BY <1>3, <1>5, <1>8, <3>2, <4>1
      <4>2. CASE ~cfg.pg
        <5>1. row' = row /\ lk' = lk /\ unc' = unc
          BY <1>4, <3>2, <4>2
        <5> QED BY <4>2, <5>1 DEF ChildrenOf, View
      <4> QED BY <4>1, <4>2
    <3>4. ChildrenOf(o, NextParent(o))' = ChildrenOf(o, p)
      BY <1>1, <3>1, <3>3 DEF ChildrenOf, View
    <3> QED BY <1>1, <1>2, <2>2, <3>1, <3>2, <3>3, <3>4 DEF RollOf, Summing
  <2> QED BY <2>1, <2>2
\* A child that is there for o keeps naming only parents that o has on its list.
<1>11. ASSUME NEW c \in Children, InTx(o), Named(o, View(o, c)), ~(Ask(r).op = "create" /\ Target(r) = c /\ lk[c] = r)
       PROVE  Named(o, View(o, c))'
  <2>1. CASE View(o, c)' = View(o, c)
    BY <1>1, <1>11, <2>1 DEF Named
  <2>2. CASE lk[c] = o \/ row' = row
    BY <1>3, <1>5, <2>1, <2>2 DEF View
  <2>3. CASE cfg.pg /\ lk[c] # o /\ \A x \in Rows : row'[x] = IF lk[x] = r THEN unc[x] ELSE row[x]
    <3>1. View(o, c) = row[c] /\ View(o, c)' = row'[c]
      BY <1>3, <1>5, <2>3 DEF View
    <3>2. CASE lk[c] = r
      <4>1. row'[c] = unc[c] /\ (unc[c].alive => row[c].alive /\ unc[c].fk \in {row[c].fk, None})
        BY <1>2, <1>5, <1>11, <2>3, <3>2 DEF RollOf, Shrinks
      <4> QED BY <1>1, <1>11, <3>1, <4>1, NoneAssumption DEF Named
    <3>3. CASE lk[c] # r
      BY <1>5, <2>1, <2>3, <3>1, <3>3
    <3> QED BY <3>2, <3>3
  <2>4. CASE lk[c] # o /\ Target(r) \in Parents /\ row' = [row EXCEPT ![Target(r)] = Written(r, row[Target(r)])]
    <3>1. row'[c] = row[c]
      BY <1>2, <1>5, <2>4, IdAssumption DEF TypeOK
    <3> QED BY <1>3, <1>5, <2>1, <2>4, <3>1 DEF View
  <2> QED BY <1>4, <1>11, <2>2, <2>3, <2>4, CommittedRows
<1>12. Aims(o)'
  <2> SUFFICES ASSUME IsChild(o), req[o].ph \in OnWay
               PROVE  /\ Ask(o).op # "create" => Named(o, View(o, Target(o)))'
                      /\ (Ask(o).op # "delete" /\ Ask(o).fk \in Parents) => Ask(o).fk \in req'[o].aff
    BY <1>1 DEF Aims
  <2>1. InTx(o)
    BY <1>2, ChildInTx DEF OnWay
  <2>2. PICK c \in Children : c = Target(o)
    BY DEF IsChild
  <2>3. ~(Ask(r).op = "create" /\ Target(r) = c /\ lk[c] = r)
    BY <1>2, <2>2, FreshAssumption DEF FreshInv, Fresh, Target
  <2>4. Ask(o).op # "create" => Named(o, View(o, c))'
    BY <1>2, <1>11, <2>1, <2>2, <2>3 DEF RollOf, Aims
  <2>5. View(o, Target(o))' = View(o, c)'
    BY <1>1, <2>2 DEF View
  <2> QED BY <1>1, <1>2, <2>4, <2>5 DEF RollOf, Aims, Named
<1>13. Visits(o)'
  <2>1. \A c \in req'[o].todo : ~Unborn(c)'
    BY <1>1, <1>2, StillBorn, Types DEF RollOf, Visits, ReqType
  <2>2. ASSUME req[o].ph = "child" PROVE Named(o, View(o, req[o].cur))' /\ ~Unborn(req[o].cur)'
    <3>1. PICK c \in Children : c = req[o].cur
      BY <1>2, <2>2 DEF WorkOf
    <3>2. InTx(o) /\ Named(o, View(o, c)) /\ ~Unborn(c)
      BY <1>2, <2>2, <3>1 DEF WorkOf, RollOf, Visits
    <3>3. Named(o, View(o, c))'
      BY <1>11, <3>2 DEF Unborn
    <3>4. View(o, req[o].cur)' = View(o, c)'
      BY <1>1, <3>1 DEF View
    <3>5. ~Unborn(c)'
      BY <3>2, StillBorn
    <3> QED BY <1>1, <3>1, <3>3, <3>4, <3>5 DEF Named, Unborn
  <2> QED BY <1>1, <2>1, <2>2 DEF Visits
<1> QED BY <1>6, <1>7, <1>9, <1>10, <1>12, <1>13 DEF RollOf

LEMMA RollNext == IInv /\ FreshInv /\ RollInv /\ [Next]_vars => RollInv'
<1> SUFFICES ASSUME IInv, FreshInv, RollInv, [Next]_vars PROVE RollInv'
  OBVIOUS
<1>1. CASE UNCHANGED vars
  BY <1>1, RollStays
<1>2. ASSUME NEW r \in Requests, Step(r) \/ Fault(r), Rolled' PROVE TotalsAgree' /\ Hidden' /\ \A o \in Requests : RollOf(o)'
  <2>1. cfg' = cfg
    BY <1>2 DEF Step, Fault
  <2>2. Rolled /\ AllTx
    BY <1>2, <2>1, SameKind DEF Rolled
  <2>3. RollStep(r)
    BY <1>2, <2>1, <2>2 DEF RollStep, RollInv
  <2>4. Hidden'
    BY <1>2, <2>1, <2>2, UnbornStep DEF Hidden, RollInv
  <2> QED BY <2>3, <2>4, RollTotals, RollOwn, RollOthers
<1> QED BY <1>1, <1>2 DEF Next, RollInv

\* A parent's total counts its live children in every committed state, whatever creates, deletes, moves
\* and cascades interleave or fail, if it does so in the rows the requests find: the recompute locks
\* the parent before it counts (rollup.go:345), and a transaction that changes who belongs to a live
\* parent does not commit before it has recomputed it.
THEOREM RollupsCount == ASSUME InitAgree PROVE Spec => []RollupExact
<1>1. Init => RollInv
  BY RollInit
<1>2. RollInv => RollupExact
  BY DEF RollInv, RollupExact, Rolled
<1> QED BY <1>1, <1>2, Invariant, FreshInit, FreshNext, RollNext, PTL DEF Spec

-----------------------------------------------------------------------------
(* The order of the row locks *)

\* On PostgreSQL, where requests wait for row locks, and no drop leaves the order.
Orderly == cfg.pg /\ \A r \in Requests : ~LocksParentFirst(r) /\ ~MeetsMoved(r)

\* Without moves, a child that others see names the parent it was created under, or none any more.
FkStays(r) ==
    ~Moves => \A c \in Children : (lk[c] = r /\ ~(Ask(r).op = "create" /\ Target(r) = c)) =>
        unc[c].fk \in {row[c].fk, None}
Met(r) ==
    (~Moves /\ IsDrop(r)) => \A c \in req[r].walked : ~Unborn(c) /\ row[c].fk \in {Target(r), None}

\* The rows a request has locked come before every row it still needs.
HeldRows(r) ==
    \A x \in Rows : lk[x] = r =>
        \/ x = Target(r)
        \/ IsDrop(r) /\ x \in req[r].walked \ req[r].todo
        \/ IsChild(r) /\ x \in Parents /\ \A y \in req[r].aff : x <= y
Owing(r) ==
    /\ IsDrop(r) => req[r].aff \subseteq {Target(r)}
    /\ Ask(r).op = "create" => req[r].aff \subseteq {Ask(r).fk}
    /\ (~IsDrop(r) /\ ~IsChild(r)) => req[r].aff = {}
Waiting(r) ==
    /\ (IsDrop(r) /\ req[r].ph \in Walk \cup Early) => lk[Target(r)] # r
    /\ (Ask(r).op = "create" /\ req[r].ph \notin PastWrite \cup {"write"}) => \A x \in Rows : lk[x] # r
    /\ (IsChild(r) /\ Ask(r).op # "create" /\ req[r].ph \notin PastWrite) =>
           \A x \in Rows : lk[x] = r => x = Target(r)

OrderOf(r) == FkStays(r) /\ Met(r) /\ (Orderly => HeldRows(r) /\ Owing(r) /\ Waiting(r))
\* There is a highest locked row.
Bounded == \E b \in Nat : \A x \in Rows : lk[x] # None => x <= b
OrderInv == Hidden /\ Bounded /\ \A r \in Requests : OrderOf(r)

LEMMA HiddenInit == Init => Hidden
<1> SUFFICES ASSUME Init PROVE Hidden
  OBVIOUS
<1>1. ASSUME NEW c \in Children, NEW o \in Requests, Ask(o).op = "create", Target(o) = c PROVE ~row[c].alive
  BY <1>1, FreshAssumption DEF Init, Ask, Target
<1> QED BY <1>1 DEF Hidden, Unborn

LEMMA OrderInit == Init => OrderInv
<1> SUFFICES ASSUME Init PROVE OrderInv
  OBVIOUS
<1>1. Bounded
  <2>1. \A x \in Rows : lk[x] = None
    BY DEF Init
  <2>2. 0 \in Nat
    OBVIOUS
  <2> QED BY <2>1, <2>2 DEF Bounded
<1>2. ASSUME NEW r \in Requests PROVE OrderOf(r)
  <2>1. req[r].ph = "new" /\ req[r].todo = {} /\ req[r].walked = {} /\ req[r].aff = {}
    BY DEF Init
  <2>2. \A x \in Rows : lk[x] # r
    BY NoneAssumption DEF Init
  <2>3. FkStays(r) /\ Met(r)
    BY <2>1, <2>2 DEF FkStays, Met, Rows
  <2>4. HeldRows(r) /\ Owing(r)
    BY <2>1, <2>2 DEF HeldRows, Owing
  <2>5. Waiting(r)
    BY <2>2 DEF Waiting, IsDrop, Rows
  <2> QED BY <2>3, <2>4, <2>5 DEF OrderOf
<1> QED BY <1>1, <1>2, HiddenInit DEF OrderInv

LEMMA OrderStays == ASSUME OrderInv, UNCHANGED vars PROVE OrderInv'
<1> USE DEF vars
<1>1. \A r \in Requests : Ask(r)' = Ask(r) /\ Target(r)' = Target(r) /\ IsChild(r)' = IsChild(r)
                           /\ IsDrop(r)' = IsDrop(r)
  BY DEF Ask, Target, IsChild, IsDrop
<1>2. Moves' = Moves /\ Orderly' = Orderly
  BY <1>1 DEF Moves, Orderly, LocksParentFirst, MeetsMoved
<1>3. \A c : Unborn(c)' = Unborn(c)
  BY <1>1 DEF Unborn, Creating
<1>4. Hidden' /\ Bounded'
  BY <1>3 DEF OrderInv, Hidden, Bounded
<1>5. ASSUME NEW r \in Requests PROVE OrderOf(r)'
  <2>1. OrderOf(r)
    BY DEF OrderInv
  <2>2. FkStays(r)' /\ Met(r)'
    BY <1>1, <1>2, <1>3, <2>1 DEF OrderOf, FkStays, Met
  <2>3. Orderly => HeldRows(r)' /\ Owing(r)' /\ Waiting(r)'
    BY <1>1, <2>1 DEF OrderOf, HeldRows, Owing, Waiting
  <2> QED BY <1>2, <2>2, <2>3 DEF OrderOf
<1> QED BY <1>4, <1>5 DEF OrderInv

\* What is known while the order is shown to last.
OrderStep(r) ==
    /\ IInv /\ FreshInv /\ WalkInv /\ OrderInv /\ cfg' = cfg
    /\ Step(r) \/ Fault(r)

LEMMA BoundedNext == ASSUME NEW r \in Requests, OrderStep(r) PROVE Bounded'
<1> USE DEF OrderStep
<1>1. PICK b \in Nat : \A x \in Rows : lk[x] # None => x <= b
  BY DEF OrderInv, Bounded
<1>2. TypeOK
  BY DEF IInv
<1>3. ASSUME \A x \in Rows : lk'[x] # None => lk[x] # None PROVE Bounded'
  BY <1>1, <1>3 DEF Bounded
<1>4. CASE Keeps \/ (\E x, image : WritesBare(r, x, image)) \/ Records(r)
  BY <1>3, <1>4 DEF Keeps, WritesBare, Records
<1>5. CASE Commits(r) \/ Rollback(r)
  BY <1>3, <1>5 DEF Commits, Commit, Rollback
<1>6. ASSUME NEW y, NEW image, Takes(r, y, image) PROVE Bounded'
  <2>1. y \in Nat /\ y \in Rows /\ \A x \in Rows : x # y => lk'[x] = lk[x]
    BY <1>2, <1>6, IdAssumption DEF Takes, Hold, Rows, TypeOK
  <2>2. \A x \in Rows : x \in Nat
    BY IdAssumption DEF Rows
  <2>3. PICK m \in Nat : b <= m /\ y <= m
    <3>1. CASE b <= y
      BY <2>1, <3>1
    <3>2. CASE ~(b <= y)
      BY <2>1, <3>2
    <3> QED BY <3>1, <3>2
  <2>4. \A x \in Rows : lk'[x] # None => x <= m
    BY <1>1, <2>1, <2>2, <2>3
  <2> QED BY <2>4 DEF Bounded
<1> QED BY <1>4, <1>5, <1>6, TableSteps

\* A child that is there keeps its parent, or loses it.
LEMMA FkKept ==
    ASSUME NEW r \in Requests, OrderStep(r), ~Moves, NEW c \in Children, ~Unborn(c)
    PROVE  row'[c].fk \in {row[c].fk, None}
<1> USE DEF OrderStep
<1>1. c \in Rows /\ TypeOK /\ FkStays(r) /\ Ask(r) \in AskType /\ row[c] \in RowType
  BY Types DEF Rows, IInv, TypeOK, OrderInv, OrderOf
<1>2. CASE Write(r) /\ ~Refuses(r)
  <2>1. CASE row' = row
    BY <2>1
  <2>2. CASE lk[Target(r)] = None /\ row' = [row EXCEPT ![Target(r)] = Written(r, View(r, Target(r)))]
    <3>1. CASE c # Target(r)
      BY <1>1, <2>2, <3>1 DEF TypeOK
    <3>2. CASE c = Target(r)
      <4>1. View(r, c) = row[c]
        BY <2>2, <3>2, NoneAssumption DEF View
      <4>2. Ask(r).op # "create"
        BY <1>2, <3>2 DEF Unborn, Creating, Write, PastWrite
      <4>3. Ask(r).op = "update" => Ask(r).fk = Keep
        BY <3>2 DEF Moves, IsChild
      <4>4. Ask(r).op \in {"update", "delete"}
        BY <1>1, <4>2 DEF AskType
      <4>5. Written(r, row[c]).fk = row[c].fk
        BY <1>1, <4>2, <4>3, <4>4 DEF Written, RowType
      <4>6. row'[c] = Written(r, row[c])
        BY <1>1, <2>2, <3>2, <4>1 DEF TypeOK
      <4> QED BY <4>5, <4>6
    <3> QED BY <3>1, <3>2
  <2> QED BY <1>2, <2>1, <2>2, WriteWork
<1>3. CASE (OwnCommit(r) \/ Finish(r) \/ CommitLost(r)) /\ ~Refuses(r)
  <2>1. row' = row \/ Commit(r)
    BY <1>3, OwnCommitWork, FinishWork DEF Keeps
  <2>2. ASSUME Commit(r) PROVE row'[c] = View(r, c)
    BY <1>1, <2>2 DEF Commit
  <2>3. lk[c] = r => ~(Ask(r).op = "create" /\ Target(r) = c)
    BY DEF Unborn
  <2> QED BY <1>1, <2>1, <2>2, <2>3 DEF View, FkStays
<1> QED BY <1>2, <1>3, RowSteps

LEMMA OwnFkStays == ASSUME NEW r \in Requests, OrderStep(r) PROVE FkStays(r)'
<1> USE DEF OrderStep
<1> SUFFICES ASSUME ~Moves, NEW c \in Children, lk'[c] = r, ~(Ask(r).op = "create" /\ Target(r) = c)
             PROVE  unc'[c].fk \in {row'[c].fk, None}
  BY SameAsk, SameKind DEF FkStays
<1>1. c \in Rows /\ c \notin Parents /\ TypeOK /\ FkStays(r)
  BY IdAssumption DEF Rows, IInv, OrderInv, OrderOf
<1>2. row' = row /\ ~Refuses(r)
  BY <1>1, OwnLocks
<1>3. row[c] \in RowType /\ View(r, c) \in RowType /\ Ask(r) \in AskType
  BY <1>1, Types DEF IInv, TypeOK, View
<1>4. View(r, c).fk \in {row[c].fk, None}
  BY <1>1 DEF View, FkStays
<1>5. CASE lk[c] = r /\ unc'[c] = unc[c]
  BY <1>2, <1>4, <1>5 DEF View
<1>6. CASE Reads(r, c)
  BY <1>2, <1>6 DEF Reads
<1>7. CASE Nulls(r, c)
  <2>1. unc'[c].fk \in {View(r, c).fk, None}
    BY <1>3, <1>7 DEF Nulls, Nulled, RowType
  <2> QED BY <1>2, <1>4, <2>1
<1>8. CASE Changes(r, c)
  <2>1. c = Target(r) /\ IsChild(r) /\ unc'[c] = Written(r, View(r, c))
    BY <1>8 DEF Changes, IsChild
  <2>2. Ask(r).op \in {"update", "delete"} /\ (Ask(r).op = "update" => Ask(r).fk = Keep)
    BY <1>3, <2>1 DEF AskType, Moves
  <2>3. unc'[c].fk = View(r, c).fk
    BY <1>3, <2>1, <2>2 DEF Written, RowType
  <2> QED BY <1>2, <1>4, <2>3
<1> QED BY <1>1, <1>5, <1>6, <1>7, <1>8, OwnLocks DEF Totals

\* How a step changes the walk: to the next page, past the child at hand, or not at all.
LEMMA WalkMoves ==
    ASSUME IInv, NEW r \in Requests, Step(r) \/ Fault(r)
    PROVE  \/ /\ EachChildId(r) /\ ~Refuses(r) /\ req'[r].todo = Page(r)
              /\ req'[r].walked = req[r].walked \cup Page(r)
           \/ /\ req'[r].walked = req[r].walked
              /\ req'[r].todo = req[r].todo \/ (CascadeWrite(r) /\ ~Refuses(r) /\ req'[r].todo = req[r].todo \ {req[r].cur})
<1>1. CASE Refuses(r)
  BY <1>1, RefuseWork DEF SameWork, SameWalk
<1>2. CASE ~Refuses(r) /\ (Passes(r) \/ Affected(r) \/ CaptureImage(r) \/ EnforceOptimisticLock(r)
                           \/ CascadeRestrict(r) \/ CascadePreImage(r) \/ LockScope(r) \/ Write(r) \/ OwnCommit(r))
  BY <1>2, AffectedWork, ImageWork, MatchWork, RestrictWork, PreWork, LockScopeWork, WriteWork, OwnCommitWork
     DEF Passes, SameWork, SameWalk
<1>3. CASE ~Refuses(r) /\ (NextVersion(r) \/ InsertHistory(r) \/ FailHistory(r) \/ LockParent(r) \/ Aggregate(r)
                           \/ StoreTotal(r) \/ Finish(r) \/ CommitLost(r))
  BY <1>3, CountWork, InsertWork, LoggedWork, LockParentWork, SumWork, StoreWork, FinishWork DEF SameWork, SameWalk
<1>4. CASE ~Refuses(r) /\ EachChildId(r)
  BY <1>4, PageWork DEF SameWalk
<1>5. CASE ~Refuses(r) /\ CascadeWrite(r)
  BY <1>5, ChildWork
<1> QED BY <1>1, <1>2, <1>3, <1>4, <1>5, StepCases

LEMMA PageSeen ==
    ASSUME NEW r \in Requests, OrderStep(r), EachChildId(r), NEW c \in Page(r)
    PROVE  /\ c \in Children /\ IsDrop(r) /\ ~Unborn(c) /\ (~Moves => row[c].fk = Target(r))
           /\ \A d \in req[r].walked : d < c
<1> USE DEF OrderStep
<1>1. req[r].ph = "page" /\ IsDrop(r)
  BY PageWork DEF IInv, WorkOf
<1>2. c \in Children /\ View(r, c).alive /\ View(r, c).fk = Target(r) /\ \A d \in req[r].walked : d < c
  BY DEF Page, Rest, ChildrenOf
<1>3. CASE lk[c] = r
  <2>1. ASSUME NEW o \in Requests, Ask(o).op = "create", Target(o) = c PROVE ~Creating(o) /\ lk[c] # o
    BY <1>1, <1>2, <1>3, <2>1, NoneAssumption DEF FreshInv, Fresh, IsDrop
  <2>2. Target(r) # None
    BY <1>1, NoneAssumption DEF IsDrop
  <2>3. ~Moves => unc[c].fk \in {row[c].fk, None}
    BY <1>1, <1>2, <1>3 DEF OrderInv, OrderOf, FkStays, IsDrop
  <2> QED BY <1>1, <1>2, <1>3, <2>1, <2>2, <2>3 DEF Unborn, View
<1>4. CASE lk[c] # r
  BY <1>1, <1>2, <1>4 DEF OrderInv, Hidden, View
<1> QED BY <1>3, <1>4, <1>1, <1>2

\* What has been walked stays, whoever takes the step.
LEMMA MetStep ==
    ASSUME NEW r \in Requests, OrderStep(r), NEW o \in Requests PROVE Met(o)'
<1> USE DEF OrderStep
<1>1. Ask(o)' = Ask(o) /\ Target(o)' = Target(o) /\ IsDrop(o)' = IsDrop(o) /\ Moves' = Moves /\ TypeOK
  BY SameAsk, SameKind DEF IInv
<1> SUFFICES ASSUME ~Moves, IsDrop(o), NEW c \in req'[o].walked
             PROVE  ~Unborn(c)' /\ row'[c].fk \in {Target(o), None}
  BY <1>1 DEF Met
<1>2. c \in Children /\ ~Unborn(c) /\ row[c].fk \in {Target(o), None}
  <2>1. CASE c \in req[o].walked
    BY <2>1, Types DEF OrderInv, OrderOf, Met, IInv, ReqType
  <2>2. CASE o = r /\ EachChildId(r) /\ c \in Page(r)
    BY <2>2, PageSeen
  <2>3. CASE o # r
    BY <2>1, <2>3, SameAsk DEF Undisturbed
  <2> QED BY <2>1, <2>2, <2>3, WalkMoves
<1>3. ~Unborn(c)'
  BY <1>2, UnbornStep
<1> QED BY <1>2, <1>3, FkKept

\* What a request owes: at most its own row for a drop, at most the parent it names for a create.
LEMMA OwnOwing == ASSUME NEW r \in Requests, OrderStep(r), Orderly PROVE Owing(r)'
<1> USE DEF OrderStep
<1>1. /\ Owing(r) /\ Ask(r)' = Ask(r) /\ Target(r)' = Target(r) /\ IsDrop(r)' = IsDrop(r) /\ IsChild(r)' = IsChild(r)
      /\ WorkOf(r) /\ TypeOK
  BY SameAsk DEF OrderInv, OrderOf, IInv
<1>2. ASSUME req'[r].aff \subseteq req[r].aff PROVE Owing(r)'
  BY <1>1, <1>2 DEF Owing
<1>3. CASE Refuses(r)
  BY <1>2, <1>3, RefuseWork DEF SameWork
<1>4. CASE ~Refuses(r) /\ (Passes(r) \/ CaptureImage(r) \/ EnforceOptimisticLock(r) \/ EachChildId(r)
                           \/ CascadeRestrict(r) \/ CascadeWrite(r) \/ LockScope(r) \/ Write(r) \/ OwnCommit(r))
  BY <1>2, <1>4, ImageWork, MatchWork, PageWork, RestrictWork, ChildWork, LockScopeWork, WriteWork, OwnCommitWork
     DEF Passes, SameWork
<1>5. CASE ~Refuses(r) /\ (NextVersion(r) \/ InsertHistory(r) \/ FailHistory(r) \/ LockParent(r) \/ Aggregate(r)
                           \/ StoreTotal(r) \/ Finish(r) \/ CommitLost(r))
  <2>1. req'[r].aff \subseteq req[r].aff
    BY <1>5, CountWork, InsertWork, LoggedWork, LockParentWork, SumWork, StoreWork, FinishWork DEF SameWork
  <2> QED BY <1>2, <2>1
<1>6. CASE ~Refuses(r) /\ Affected(r)
  <2>1. req'[r].aff = AffectedParents(r) /\ req[r].ph = "affected"
    BY <1>6, AffectedWork
  <2>2. IsChild(r)
    BY <2>1 DEF FreshInv, Fresh
  <2>3. ~IsDrop(r)
    BY <2>2, IdAssumption DEF IsChild, IsDrop
  <2> QED BY <1>1, <2>1, <2>2, <2>3 DEF Owing, AffectedParents
<1>7. CASE ~Refuses(r) /\ CascadePreImage(r)
  <2>1. /\ req[r].ph = "pre" /\ req'[r].cur \in req[r].todo /\ req'[r].cur \in Children
        /\ req'[r].aff = IF cfg.rollup THEN req[r].aff \cup ({View(r, req'[r].cur).fk} \cap Parents) ELSE req[r].aff
    BY <1>7, PreWork
  <2>2. IsDrop(r)
    BY <1>1, <2>1 DEF WorkOf
  <2>3. CASE cfg.rollup
    <3>1. ~Moves
      BY <2>2, <2>3 DEF Orderly, MeetsMoved
    <3>2. PICK c \in Children : c = req'[r].cur
      BY <2>1
    <3>3. c \in req[r].walked
      BY <2>1, <3>2 DEF WalkInv, WalkOf, WalkOrder
    <3>4. row[c].fk \in {Target(r), None}
      BY <2>2, <3>1, <3>3 DEF OrderInv, OrderOf, Met
    <3>5. lk[c] = r => unc[c].fk \in {row[c].fk, None}
      BY <2>2, <3>1, IdAssumption DEF OrderInv, OrderOf, FkStays, IsDrop
    <3>6. {View(r, c).fk} \cap Parents \subseteq {Target(r)}
      BY <3>4, <3>5, NoneAssumption DEF View
    <3> QED BY <1>1, <2>1, <2>2, <2>3, <3>2, <3>6 DEF Owing, IsDrop
  <2>4. CASE ~cfg.rollup
    BY <1>2, <2>1, <2>4
  <2> QED BY <2>3, <2>4
<1> QED BY <1>3, <1>4, <1>5, <1>6, <1>7, StepCases

\* Once a drop is through with its walk it does not go back to it.
Beyond == {"lockp", "sum", "store", "write", "owncommit", "finish", "done"}

LEMMA DropPaths ==
    ASSUME IInv, FreshInv, NEW r \in Requests, Step(r) \/ Fault(r), IsDrop(r), req[r].ph \in Beyond
    PROVE  req'[r].ph \in Beyond
<1> USE DEF Beyond
<1>1. WorkOf(r) /\ ~IsChild(r) /\ Ask(r).op # "create"
  BY IdAssumption DEF IInv, IsDrop, IsChild
<1>2. CASE Refuses(r)
  BY <1>2, RefuseWork
<1>3. ~Passes(r) /\ ~Affected(r) /\ ~CaptureImage(r) /\ ~EnforceOptimisticLock(r) /\ ~EachChildId(r)
  BY DEF Passes, Affected, CaptureImage, EnforceOptimisticLock, EachChildId
<1>10. ~CascadeRestrict(r) /\ ~CascadePreImage(r) /\ ~CascadeWrite(r) /\ ~LockScope(r) /\ ~NextVersion(r)
      /\ ~InsertHistory(r) /\ ~FailHistory(r)
  BY DEF CascadeRestrict, CascadePreImage, CascadeWrite, LockScope, NextVersion, InsertHistory, FailHistory
<1>4. CASE ~Refuses(r) /\ Write(r)
  BY <1>1, <1>4, WriteWork DEF AfterDB, Outward
<1>5. CASE ~Refuses(r) /\ OwnCommit(r)
  BY <1>1, <1>5, OwnCommitWork DEF AfterDB, Outward
<1>6. CASE ~Refuses(r) /\ LockParent(r)
  BY <1>6, LockParentWork DEF AfterTotals
<1>7. CASE ~Refuses(r) /\ (Aggregate(r) \/ Finish(r) \/ CommitLost(r))
  BY <1>7, SumWork, FinishWork
<1>8. CASE ~Refuses(r) /\ StoreTotal(r)
  BY <1>8, StoreWork DEF AfterTotals
<1> QED BY <1>2, <1>3, <1>4, <1>5, <1>6, <1>7, <1>8, <1>10, StepCases

\* What a step of r locks, with the row it was after.
LEMMA NewLocks ==
    ASSUME NEW r \in Requests, OrderStep(r), NEW x \in Rows, lk'[x] = r, lk[x] # r
    PROVE  /\ ~Refuses(r)
           /\ \/ EnforceOptimisticLock(r) /\ x = Target(r) /\ Ask(r).im # "no" /\ Ask(r).op # "create"
              \/ LockScope(r) /\ x = Ask(r).fk /\ x \in Parents /\ IsChild(r) /\ Ask(r).op = "create"
              \/ (LockParent(r) \/ StoreTotal(r)) /\ x = NextParent(r) /\ x \in Parents
              \/ CascadeWrite(r) /\ x = req[r].cur /\ x \in Children
              \/ Write(r) /\ x = Target(r)
<1> USE DEF OrderStep
<1>1. ~Refuses(r) /\ (Reads(r, x) \/ Nulls(r, x) \/ Changes(r, x) \/ Totals(r, x))
  BY OwnLocks
<1>2. Fresh(r)
  BY DEF FreshInv
<1>3. EnforceOptimisticLock(r) => Ask(r).im # "no" /\ Ask(r).op # "create"
  BY <1>2 DEF EnforceOptimisticLock, Fresh
<1>4. LockScope(r) => IsChild(r) /\ Ask(r).op = "create"
  BY <1>2 DEF LockScope, Fresh
<1> QED BY <1>1, <1>3, <1>4 DEF Reads, Nulls, Changes, Totals

LEMMA OwnHeldRows == ASSUME NEW r \in Requests, OrderStep(r), Orderly PROVE HeldRows(r)'
<1> USE DEF OrderStep
<1>1. /\ HeldRows(r) /\ Owing(r) /\ WalkOf(r) /\ Target(r)' = Target(r) /\ IsDrop(r)' = IsDrop(r)
      /\ IsChild(r)' = IsChild(r) /\ WorkOf(r) /\ TxOf(r) /\ TypeOK
  BY SameAsk DEF OrderInv, OrderOf, IInv, WalkInv
<1> SUFFICES ASSUME NEW x \in Rows, lk'[x] = r
             PROVE  \/ x = Target(r)
                    \/ IsDrop(r) /\ x \in req'[r].walked \ req'[r].todo
                    \/ IsChild(r) /\ x \in Parents /\ \A y \in req'[r].aff : x <= y
  BY <1>1 DEF HeldRows
<1>2. x \in Nat /\ (x \in Children => x \notin Parents)
  BY IdAssumption DEF Rows
<1>3. CASE lk[x] = r
  <2>1. CASE x = Target(r)
    BY <2>1
  <2>2. CASE IsDrop(r) /\ x \in req[r].walked \ req[r].todo
    <3>1. CASE EachChildId(r) /\ req'[r].todo = Page(r) /\ req'[r].walked = req[r].walked \cup Page(r)
      <4>1. x \notin Page(r)
        BY <1>2, <2>2, <3>1, PageSeen
      <4> QED BY <2>2, <3>1, <4>1
    <3>2. CASE req'[r].walked = req[r].walked /\ req'[r].todo \subseteq req[r].todo
      BY <2>2, <3>2
    <3> QED BY <3>1, <3>2, WalkMoves
  <2>3. CASE IsChild(r) /\ x \in Parents /\ \A y \in req[r].aff : x <= y
    <3>1. req[r].ph # "affected"
      BY <1>1, <1>3 DEF TxOf, PastMatch, PastParent, PastWrite
    <3>2. req'[r].aff \subseteq req[r].aff
      <4>1. ~IsDrop(r)
        BY <2>3, IdAssumption DEF IsChild, IsDrop
      <4>2. CASE Refuses(r)
        BY <4>2, RefuseWork DEF SameWork
      <4>3. CASE ~Refuses(r) /\ (Passes(r) \/ CaptureImage(r) \/ EnforceOptimisticLock(r) \/ EachChildId(r)
                           \/ CascadeRestrict(r) \/ CascadeWrite(r) \/ LockScope(r) \/ Write(r) \/ OwnCommit(r))
        BY <4>3, ImageWork, MatchWork, PageWork, RestrictWork, ChildWork, LockScopeWork, WriteWork, OwnCommitWork
           DEF Passes, SameWork
      <4>4. CASE ~Refuses(r) /\ (NextVersion(r) \/ InsertHistory(r) \/ FailHistory(r) \/ LockParent(r) \/ Aggregate(r)
                           \/ StoreTotal(r) \/ Finish(r) \/ CommitLost(r))
        BY <4>4, CountWork, InsertWork, LoggedWork, LockParentWork, SumWork, StoreWork, FinishWork DEF SameWork
      <4>5. CASE ~Refuses(r) /\ (Affected(r) \/ CascadePreImage(r))
        BY <1>1, <3>1, <4>1, <4>5, AffectedWork, PreWork DEF WorkOf
      <4> QED BY <4>2, <4>3, <4>4, <4>5, StepCases
    <3> QED BY <2>3, <3>2
  <2> QED BY <1>1, <1>3, <2>1, <2>2, <2>3 DEF HeldRows
<1>4. CASE lk[x] # r
  <2>1. ~Refuses(r)
    BY <1>4, NewLocks
  <2>2. CASE LockScope(r) /\ x = Ask(r).fk /\ x \in Parents /\ IsChild(r) /\ Ask(r).op = "create"
    <3>1. req'[r].aff = req[r].aff
      BY <2>1, <2>2, LockScopeWork DEF SameWork
    <3> QED BY <1>1, <1>2, <2>2, <3>1 DEF Owing
  <2>3. CASE (LockParent(r) \/ StoreTotal(r)) /\ x = NextParent(r) /\ x \in Parents
    <3>1. x \in req[r].aff /\ (\A y \in req[r].aff : x <= y) /\ req'[r].aff \subseteq req[r].aff
      BY <2>1, <2>3, LockParentWork, StoreWork
    <3> QED BY <1>1, <2>3, <3>1 DEF Owing
  <2>4. CASE CascadeWrite(r) /\ x = req[r].cur
    <3>1. IsDrop(r) /\ x \in req[r].todo /\ x \in req[r].walked
      BY <1>1, <2>1, <2>4, ChildWork DEF WorkOf, WalkOf, WalkOrder
    <3>2. req'[r].todo = req[r].todo \ {x} /\ req'[r].walked = req[r].walked
      BY <2>1, <2>4, ChildWork
    <3> QED BY <3>1, <3>2
  <2> QED BY <1>4, <2>2, <2>3, <2>4, NewLocks
<1> QED BY <1>3, <1>4

LEMMA OwnWaiting == ASSUME NEW r \in Requests, OrderStep(r), Orderly PROVE Waiting(r)'
<1> USE DEF OrderStep
<1>1. /\ Waiting(r) /\ Ask(r)' = Ask(r) /\ Target(r)' = Target(r) /\ IsDrop(r)' = IsDrop(r)
      /\ IsChild(r)' = IsChild(r) /\ WorkOf(r) /\ TypeOK /\ Target(r) \in Rows
  BY SameAsk, Types DEF OrderInv, OrderOf, IInv
<1>2. ASSUME NEW x \in Rows, lk'[x] = r PROVE req'[r].ph # "done"
  <2>1. TxOf(r)'
    BY SameAsk DEF IInv
  <2> QED BY <1>2, <2>1 DEF TxOf, InTx, Joined, PastScope, PastLockWhen, PastMatch, PastParent, PastWrite
<1>3. ASSUME IsDrop(r), req'[r].ph \in Walk \cup Early, lk'[Target(r)] = r PROVE FALSE
  <2>1. req[r].ph \notin Beyond
    BY <1>3, DropPaths DEF Beyond, Walk, Early
  <2>2. CASE lk[Target(r)] = r
    <3>1. req[r].ph \in Walk \cup Early \cup Beyond
      BY <1>1, Types DEF IInv, ReqType, Phases, Walk, Early, Beyond
    <3> QED BY <1>1, <1>3, <2>1, <2>2, <3>1 DEF Waiting
  <2>3. CASE lk[Target(r)] # r
    <3>1. Ask(r).im = "no"
      BY <1>3 DEF Orderly, LocksParentFirst
    <3>2. ~IsChild(r) /\ Target(r) \notin Children
      BY <1>3, IdAssumption DEF IsChild, IsDrop
    <3>3. ~LockParent(r) /\ ~StoreTotal(r) /\ ~Write(r)
      BY <2>1 DEF LockParent, StoreTotal, Write, Beyond
    <3> QED BY <1>1, <1>3, <2>3, <3>1, <3>2, <3>3, NewLocks
  <2> QED BY <2>2, <2>3
<1>4. ASSUME Ask(r).op = "create", req'[r].ph \notin PastWrite \cup {"write"}, NEW x \in Rows, lk'[x] = r PROVE FALSE
  <2>1. ~IsDrop(r) /\ req'[r].ph # "done"
    BY <1>2, <1>4 DEF IsDrop
  <2>2. req[r].ph \notin PastWrite
    BY <1>4, <2>1, Paths
  <2>3. ~Refuses(r)
    BY <2>1, RefuseWork
  <2>4. req[r].ph # "write"
    <3>1. req[r].ph = "write" => Write(r)
      <4>1. ~Passes(r) \/ req[r].ph # "write"
        BY DEF Passes
      <4>2. \/ req[r].ph # "write" \/ ~(Affected(r) \/ CaptureImage(r) \/ EnforceOptimisticLock(r)
              \/ CascadeRestrict(r) \/ EachChildId(r) \/ CascadePreImage(r) \/ CascadeWrite(r) \/ LockScope(r))
        BY DEF Affected, CaptureImage, EnforceOptimisticLock, CascadeRestrict, EachChildId, CascadePreImage,
               CascadeWrite, LockScope
      <4>3. \/ req[r].ph # "write"
            \/ ~(OwnCommit(r) \/ NextVersion(r) \/ InsertHistory(r) \/ FailHistory(r) \/ LockParent(r) \/ Aggregate(r)
                 \/ StoreTotal(r) \/ Finish(r) \/ CommitLost(r))
        BY DEF OwnCommit, NextVersion, InsertHistory, FailHistory, LockParent, Aggregate, StoreTotal, Finish, CommitLost
      <4> QED BY <2>3, <4>1, <4>2, <4>3, StepCases
    <3> QED BY <1>4, <2>3, <3>1, Paths
  <2>5. lk[x] # r
    BY <1>1, <1>4, <2>2, <2>4 DEF Waiting
  <2>6. ~LockParent(r) /\ ~StoreTotal(r) /\ ~Write(r)
    BY <2>2, <2>4 DEF LockParent, StoreTotal, Write, PastWrite
  <2>7. ~CascadeWrite(r)
    BY <1>1, <2>1 DEF CascadeWrite, WorkOf
  <2>8. ~LockScope(r)
    BY <1>4, <2>3, LockScopeWork
  <2> QED BY <1>4, <2>5, <2>6, <2>7, <2>8, NewLocks
<1>5. ASSUME IsChild(r), Ask(r).op # "create", req'[r].ph \notin PastWrite, NEW x \in Rows, lk'[x] = r PROVE x = Target(r)
  <2>1. ~IsDrop(r) /\ req'[r].ph # "done"
    BY <1>2, <1>5, IdAssumption DEF IsDrop, IsChild
  <2>2. req[r].ph \notin PastWrite
    BY <1>5, <2>1, Paths
  <2>3. ~LockParent(r) /\ ~StoreTotal(r)
    BY <2>2 DEF LockParent, StoreTotal, PastWrite
  <2>4. ~CascadeWrite(r)
    BY <1>1, <2>1 DEF CascadeWrite, WorkOf
  <2> QED BY <1>1, <1>5, <2>2, <2>3, <2>4, NewLocks DEF Waiting
<1> QED BY <1>1, <1>3, <1>4, <1>5 DEF Waiting

\* Nobody else's order is disturbed.
LEMMA OrderOthers ==
    ASSUME NEW r \in Requests, OrderStep(r), NEW o \in Requests, o # r, Orderly' => Orderly
    PROVE  OrderOf(o)'
<1> USE DEF OrderStep
<1>1. /\ Ask(o)' = Ask(o) /\ Target(o)' = Target(o) /\ IsChild(o)' = IsChild(o) /\ IsDrop(o)' = IsDrop(o)
      /\ req'[o] = req[o] /\ Moves' = Moves /\ OrderOf(o) /\ Target(o) \in Rows
  BY SameAsk, SameKind, Types DEF Undisturbed, OrderInv, IInv
<1>2. \A x \in Rows : (lk'[x] = o <=> lk[x] = o) /\ (lk[x] = o => unc'[x] = unc[x] /\ row'[x] = row[x])
  BY SameAsk DEF Undisturbed
<1>3. FkStays(o)'
  BY <1>1, <1>2 DEF OrderOf, FkStays, Rows
<1>4. Met(o)'
  BY MetStep
<1>5. Orderly => HeldRows(o)' /\ Owing(o)' /\ Waiting(o)'
  BY <1>1, <1>2 DEF OrderOf, HeldRows, Owing, Waiting
<1> QED BY <1>3, <1>4, <1>5 DEF OrderOf

LEMMA OrderNext == IInv /\ FreshInv /\ WalkInv /\ OrderInv /\ [Next]_vars => OrderInv'
<1> SUFFICES ASSUME IInv, FreshInv, WalkInv, OrderInv, [Next]_vars PROVE OrderInv'
  OBVIOUS
<1>1. ASSUME NEW r \in Requests, Step(r) \/ Fault(r) PROVE OrderInv'
  <2>1. cfg' = cfg
    BY <1>1 DEF Step, Fault
  <2>2. OrderStep(r)
    BY <1>1, <2>1 DEF OrderStep
  <2>3. Orderly' = Orderly
    <3>1. \A o \in Requests : IsDrop(o)' = IsDrop(o) /\ Ask(o)' = Ask(o)
      BY <1>1, <2>1, SameAsk
    <3>2. Moves' = Moves
      BY <1>1, <2>1, SameKind
    <3> QED BY <2>1, <3>1, <3>2 DEF Orderly, LocksParentFirst, MeetsMoved
  <2>4. OrderOf(r)'
    BY <2>2, <2>3, OwnFkStays, MetStep, OwnHeldRows, OwnOwing, OwnWaiting DEF OrderOf
  <2>5. Hidden'
    BY <1>1, <2>1, UnbornStep DEF OrderInv, Hidden
  <2> QED BY <2>2, <2>3, <2>4, <2>5, OrderOthers, BoundedNext DEF OrderInv
<1> QED BY <1>1, OrderStays DEF Next

\* Children come before parents, and ids in their order.
Before(x, y) ==
    \/ x \in Children /\ y \in Parents
    \/ x < y /\ (x \in Children <=> y \in Children)

LEMMA NeedsRow == ASSUME IInv, NEW r \in Requests, Needs(r) # None PROVE Needs(r) \in Rows
<1>1. Target(r) \in Rows /\ req[r] \in ReqType /\ WorkOf(r)
  BY Types DEF IInv
<1>2. CASE req[r].ph \in {"match", "write"}
  BY <1>1, <1>2 DEF Needs
<1>3. CASE req[r].ph = "child"
  BY <1>1, <1>3 DEF Needs, WorkOf, Rows
<1>4. CASE req[r].ph = "lockp"
  <2>1. req[r].aff # {} /\ req[r].aff \subseteq Parents /\ req[r].aff \subseteq Nat
    BY <1>1, <1>4, IdAssumption DEF WorkOf, ReqType
  <2>2. NextParent(r) \in Parents
    BY <2>1, LeastMember DEF NextParent
  <2> QED BY <1>4, <2>2 DEF Needs, Rows
<1>5. CASE req[r].ph = "lockscope"
  BY <1>5 DEF Needs, Rows
<1> QED BY <1>2, <1>3, <1>4, <1>5 DEF Needs

\* A request that another one blocks needs a row that comes after all it has locked.
LEMMA Ordered ==
    ASSUME IInv, FreshInv, WalkInv, OrderInv, Orderly, NEW r \in Requests, Blocker(r) \in Requests \ {r}
    PROVE  Needs(r) \in Rows /\ lk[Needs(r)] = Blocker(r) /\ \A x \in Rows : lk[x] = r => Before(x, Needs(r))
<1>1. HeldRows(r) /\ Owing(r) /\ Waiting(r) /\ Fresh(r) /\ WalkOrder(r) /\ WorkOf(r) /\ TxOf(r)
  BY DEF OrderInv, OrderOf, FreshInv, WalkInv, WalkOf, IInv
<1>2. Target(r) \in Rows /\ req[r] \in ReqType /\ TypeOK /\ Children \cap Parents = {} /\ Rows \subseteq Nat
      /\ Ask(r) \in AskType
  BY Types, IdAssumption DEF IInv, Rows
<1>3. Needs(r) # None /\ lk[Needs(r)] = Blocker(r) /\ lk[Needs(r)] # r /\ lk[Needs(r)] # None
  BY NoneAssumption DEF Blocker
<1>4. CASE req[r].ph = "match"
  BY <1>1, <1>2, <1>3, <1>4 DEF TxOf, PastMatch, PastParent, PastWrite, Needs
<1>5. CASE req[r].ph = "write"
  <2>1. Needs(r) = Target(r)
    BY <1>5 DEF Needs
  <2>2. Ask(r).op # "create"
    BY <1>1, <1>3, <1>5, <2>1 DEF Fresh, Creating, PastWrite
  <2>3. ASSUME NEW x \in Rows, lk[x] = r PROVE Before(x, Needs(r))
    <3>1. x # Target(r)
      BY <1>3, <2>1, <2>3
    <3>2. ~IsChild(r)
      BY <1>1, <1>5, <2>2, <2>3, <3>1 DEF Waiting, PastWrite
    <3>3. IsDrop(r) /\ x \in Children /\ Target(r) \in Parents
      BY <1>1, <1>2, <2>3, <3>1, <3>2 DEF HeldRows, ReqType, IsDrop
    <3> QED BY <2>1, <3>3 DEF Before
  <2> QED BY <1>2, <1>3, <2>1, <2>3
<1>6. CASE req[r].ph = "child"
  <2>1. Needs(r) = req[r].cur /\ IsDrop(r) /\ req[r].cur \in Children /\ lk[Target(r)] # r /\ ~IsChild(r)
    BY <1>1, <1>2, <1>6 DEF Needs, WorkOf, Waiting, Walk, IsDrop, IsChild
  <2>2. ASSUME NEW x \in Rows, lk[x] = r PROVE x \in Children /\ x < req[r].cur
    <3>1. x \in req[r].walked \ req[r].todo
      BY <1>1, <2>1, <2>2 DEF HeldRows
    <3> QED BY <1>1, <1>2, <1>6, <3>1 DEF WalkOrder, ReqType
  <2> QED BY <1>2, <1>3, <2>1, <2>2 DEF Before, Rows
<1>7. CASE req[r].ph = "lockp"
  <2> DEFINE p == NextParent(r)
  <2>1. Needs(r) = p /\ p \in req[r].aff /\ p \in Parents /\ p \notin Children
    <3>1. req[r].aff # {} /\ req[r].aff \subseteq Parents /\ req[r].aff \subseteq Nat
      BY <1>1, <1>2, <1>7, IdAssumption DEF WorkOf, ReqType
    <3>2. p \in req[r].aff
      BY <3>1, LeastMember DEF NextParent
    <3> QED BY <1>2, <1>7, <3>1, <3>2 DEF Needs
  <2>2. ASSUME NEW x \in Rows, lk[x] = r PROVE Before(x, p)
    <3>1. x # p /\ x \in Nat /\ p \in Nat
      BY <1>2, <1>3, <2>1, <2>2 DEF Rows
    <3>2. CASE IsDrop(r)
      <4>1. p = Target(r)
        BY <1>1, <2>1, <3>2 DEF Owing
      <4>2. ~IsChild(r)
        BY <1>2, <3>2 DEF IsDrop, IsChild
      <4>3. x \in Children
        BY <1>1, <1>2, <2>2, <3>1, <4>1, <4>2 DEF HeldRows, ReqType
      <4> QED BY <2>1, <4>3 DEF Before
    <3>3. CASE IsChild(r)
      <4>1. ~IsDrop(r)
        BY <1>2, <3>3 DEF IsDrop, IsChild
      <4>2. CASE x = Target(r)
        BY <2>1, <3>3, <4>2 DEF Before, IsChild
      <4>3. CASE x \in Parents /\ \A y \in req[r].aff : x <= y
        BY <1>2, <2>1, <3>1, <4>3 DEF Before
      <4> QED BY <1>1, <2>2, <4>1, <4>2, <4>3 DEF HeldRows
    <3>4. IsDrop(r) \/ IsChild(r)
      BY <1>1, <2>1 DEF Owing
    <3> QED BY <3>2, <3>3, <3>4
  <2> QED BY <1>3, <2>1, <2>2 DEF Rows
<1>8. CASE req[r].ph = "lockscope"
  <2>1. Needs(r) = Ask(r).fk /\ Ask(r).fk \in Parents
    BY <1>3, <1>8 DEF Needs
  <2>2. \A x \in Rows : lk[x] # r
    BY <1>1, <1>8 DEF Fresh, Waiting, PastWrite
  <2> QED BY <1>3, <2>1, <2>2 DEF Rows
<1> QED BY <1>3, <1>4, <1>5, <1>6, <1>7, <1>8 DEF Needs

\* A bounded set of numbers has a greatest one.
LEMMA Greatest ==
    ASSUME NEW T \in SUBSET Nat, T # {}, NEW b \in Nat, \A x \in T : x <= b
    PROVE  \E m \in T : \A x \in T : x <= m
<1> DEFINE D == {b - x : x \in T}
<1>1. D \in SUBSET Nat /\ D # {}
  <2>1. ASSUME NEW x \in T PROVE b - x \in Nat
    <3>1. x \in Nat /\ x <= b
      OBVIOUS
    <3> QED BY <3>1
  <2> QED BY <2>1
<1> HIDE DEF D
<1>2. Least(D) \in D /\ \A d \in D : Least(D) <= d
  BY <1>1, LeastMember
<1>3. PICK m \in T : b - m = Least(D)
  BY <1>2 DEF D
<1>4. ASSUME NEW x \in T PROVE x <= m
  <2>1. b - x \in D /\ x \in Nat /\ m \in Nat
    BY DEF D
  <2>2. b - m <= b - x
    BY <1>2, <1>3, <2>1
  <2> QED BY <2>1, <2>2
<1> QED BY <1>4

\* The order has no cycle, nor an endless chain below a bound.
LEMMA LastRow ==
    ASSUME NEW X \in SUBSET Rows, X # {}, NEW b \in Nat, \A x \in X : x <= b
    PROVE  \E x \in X : \A y \in X : ~Before(x, y)
<1>1. Rows \subseteq Nat /\ Children \cap Parents = {} /\ Rows = Children \cup Parents
  BY IdAssumption DEF Rows
<1>2. CASE X \cap Parents # {}
  <2>1. X \cap Parents \in SUBSET Nat /\ \A x \in X \cap Parents : x <= b
    BY <1>1
  <2>2. PICK m \in X \cap Parents : \A x \in X \cap Parents : x <= m
    BY <1>2, <2>1, Greatest
  <2>3. ASSUME NEW y \in X PROVE ~Before(m, y)
    BY <1>1, <2>2, <2>3 DEF Before
  <2> QED BY <2>2, <2>3
<1>3. CASE X \cap Parents = {}
  <2>1. X \in SUBSET Nat
    BY <1>1
  <2>2. PICK m \in X : \A x \in X : x <= m
    BY <2>1, Greatest
  <2>3. ASSUME NEW y \in X PROVE ~Before(m, y)
    BY <1>1, <1>3, <2>2, <2>3 DEF Before
  <2> QED BY <2>2, <2>3
<1> QED BY <1>2, <1>3

\* Requests do not wait for each other's row locks in a circle, unless a delete of a parent leaves the
\* order the others keep: children by id as their walk comes to them, then parents by id (rollup.go:281).
THEOREM NoCycles == Spec => []NoWaitCycle
<1>1. ASSUME IInv, FreshInv, WalkInv, OrderInv PROVE NoWaitCycle
  <2> SUFFICES ASSUME \A o \in Requests : ~LocksParentFirst(o) /\ ~MeetsMoved(o),
                      NEW r \in Requests, NEW S \in SUBSET Requests, r \in S, \A s \in S : Blocker(s) \in S \ {s}
               PROVE  FALSE
    BY DEF NoWaitCycle, Deadlocked
  <2>1. CASE ~cfg.pg
    <3>1. ASSUME NEW s \in S PROVE InTx(Blocker(s)) /\ Blocker(s) \in S \ {s}
      <4>1. PICK o \in Requests : o = Blocker(s)
        OBVIOUS
      <4>2. Needs(s) # None /\ lk[Needs(s)] = o
        BY <4>1, NoneAssumption DEF Blocker
      <4>3. Needs(s) \in Rows
        BY <1>1, <4>2, NeedsRow
      <4> QED BY <1>1, <4>1, <4>2, <4>3 DEF IInv, TxOf
    <3> QED BY <1>1, <2>1, <3>1 DEF IInv, OneWriter
  <2>2. CASE cfg.pg
    <3>1. Orderly
      BY <2>2 DEF Orderly
    <3> DEFINE X == {Needs(s) : s \in S}
    <3>2. \A s \in S : /\ Needs(s) \in Rows /\ lk[Needs(s)] = Blocker(s)
                       /\ \A x \in Rows : lk[x] = s => Before(x, Needs(s))
      BY <1>1, <3>1, Ordered
    <3>3. PICK b \in Nat : \A x \in Rows : lk[x] # None => x <= b
      BY <1>1 DEF OrderInv, Bounded
    <3>4. X \in SUBSET Rows /\ X # {} /\ \A x \in X : x <= b
      BY <3>2, <3>3, NoneAssumption
    <3>5. ASSUME NEW x \in X PROVE \E y \in X : Before(x, y)
      <4>1. PICK s \in S : x = Needs(s)
        OBVIOUS
      <4>2. Blocker(s) \in S /\ lk[x] = Blocker(s) /\ x \in Rows
        BY <3>2, <4>1
      <4> QED BY <3>2, <4>2
    <3> HIDE DEF X
    <3> QED BY <3>3, <3>4, <3>5, LastRow
  <2> QED BY <2>1, <2>2
<1>2. IInv /\ FreshInv /\ WalkInv /\ OrderInv => NoWaitCycle
  BY <1>1
<1> QED BY <1>2, Invariant, FreshInit, FreshNext, WalkInit, WalkNext, OrderInit, OrderNext, PTL DEF Spec
=============================================================================
