--------------------------- MODULE Writes_proofs ---------------------------
(***************************************************************************)
(* What the guards of the write path promise, for any rows, requests,      *)
(* registrations and faults: IInv is inductive, and with it a write lands  *)
(* on what its guards saw.                                                 *)
(*                                                                         *)
(* Every action is first described by what the invariants read of it       *)
(* (Becomes: the request's own fields; Apart: what it leaves to the other  *)
(* requests).  Sound gathers what an action of r must establish, and one   *)
(* lemma per action proves it.                                             *)
(***************************************************************************)
EXTENDS Writes, FiniteSetTheorems, FunctionTheorems, WellFoundedInduction, TLAPS

-----------------------------------------------------------------------------
(* Least elements *)

Lt == {ss \in Nat \X Nat : ss[1] < ss[2]}

\* The numbers are well-founded under <, with the relation written out.
LEMMA LtWellFounded == IsWellFoundedOn(Lt, Nat)
<1>1. OpToRel(<, Nat) = Lt
  BY Zenon DEF OpToRel, Lt
<1> QED BY <1>1, NatLessThanWellFounded

\* Sorting ids has a first element: Least is a member of its set, and below every other.
LEMMA LeastMember ==
    ASSUME NEW S \in SUBSET Nat, S # {} PROVE Least(S) \in S /\ \A y \in S : Least(S) <= y
<1>1. PICK x \in S : \A y \in S : ~(<<y, x>> \in Lt)
  BY LtWellFounded, WFMin
<1>2. ASSUME NEW y \in S PROVE x <= y
  <2>1. x \in Nat /\ y \in Nat
    OBVIOUS
  <2>2. ~(y < x)
    <3>1. SUFFICES ASSUME y < x PROVE <<y, x>> \in Lt
      BY <1>1
    <3> QED BY <2>1, <3>1 DEF Lt
  <2> QED BY <2>1, <2>2
<1> QED BY <1>2 DEF Least

-----------------------------------------------------------------------------
(* The order of the steps *)

\* A step that applies is not passed over, and no step leads back.
LEMMA StepOrder ==
    ASSUME TypeOK, NEW r \in Requests
    PROVE  /\ ToWrite(r) \in {"lockscope", "write"}
           /\ ToCascade(r) \in {"restrict", "page", "lockscope", "write"}
           /\ ToParent(r) \in {"parent", "restrict", "page", "lockscope", "write"}
           /\ ToParent(r) # "parent" => ~(Ask(r).scope # None /\ WritesFk(r))
           /\ ToMatch(r) \in {"match", ToParent(r)}
           /\ ToMatch(r) # "match" => ~(Ask(r).im = "tag" /\ Ask(r).op # "create")
           /\ ToLockWhen(r) \in {"lockwhen", ToMatch(r)}
           /\ ToLockWhen(r) # "lockwhen" => ~CheckedInTx(r)
           /\ ToScope(r) \in {"scope", ToLockWhen(r)}
           /\ ToScope(r) # "scope" => ~(Ask(r).scope # None /\ Ask(r).op # "create")
           /\ ToImage(r) \in {"image", ToScope(r)}
           /\ ToAffected(r) \in {"affected", ToImage(r)}
           /\ ToBegin(r) = IF Ask(r).tx THEN "begin" ELSE ToAffected(r)
           /\ ToValidate(r) \in {"validate", ToBegin(r)}
           /\ IsDrop(r) => ToWrite(r) = "write" /\ ToAffected(r) # "affected"
           /\ ToCascade(r) \in {"restrict", "page"} => IsDrop(r)
           /\ ToParent(r) \in {"parent", ToCascade(r)}
<1>1. ToWrite(r) \in {"lockscope", "write"}
  BY DEF ToWrite
<1>2. ToCascade(r) \in {"restrict", "page", "lockscope", "write"}
  BY <1>1 DEF ToCascade
<1>3. /\ ToParent(r) \in {"parent", "restrict", "page", "lockscope", "write"}
      /\ ToParent(r) # "parent" => ~(Ask(r).scope # None /\ WritesFk(r))
  BY <1>2 DEF ToParent
<1>4. /\ ToMatch(r) \in {"match", ToParent(r)}
      /\ ToMatch(r) # "match" => ~(Ask(r).im = "tag" /\ Ask(r).op # "create")
  BY DEF ToMatch
<1>5. /\ ToLockWhen(r) \in {"lockwhen", ToMatch(r)}
      /\ ToLockWhen(r) # "lockwhen" => ~CheckedInTx(r)
  BY DEF ToLockWhen, CheckedInTx
<1>6. /\ ToScope(r) \in {"scope", ToLockWhen(r)}
      /\ ToScope(r) # "scope" => ~(Ask(r).scope # None /\ Ask(r).op # "create")
  BY DEF ToScope
<1>7. /\ ToImage(r) \in {"image", ToScope(r)}
      /\ ToAffected(r) \in {"affected", ToImage(r)}
      /\ ToBegin(r) = IF Ask(r).tx THEN "begin" ELSE ToAffected(r)
      /\ ToValidate(r) \in {"validate", ToBegin(r)}
  BY DEF ToImage, ToAffected, ToBegin, ToValidate
<1>10. (ToCascade(r) \in {"restrict", "page"} => IsDrop(r)) /\ ToParent(r) \in {"parent", ToCascade(r)}
  BY <1>1 DEF ToCascade, ToParent
<1>8. IsDrop(r) => ~IsChild(r)
  BY IdAssumption DEF IsDrop, IsChild
<1>9. IsDrop(r) => ToWrite(r) = "write" /\ ToAffected(r) # "affected"
  BY <1>3, <1>4, <1>5, <1>6, <1>7, <1>8 DEF ToWrite, ToAffected
<1> QED BY <1>1, <1>2, <1>3, <1>4, <1>5, <1>6, <1>7, <1>9, <1>10

Chain == {"new", "validate", "begin", "affected", "image", "scope", "lockwhen", "match", "parent"}
Steps == {"validate", "begin", "affected", "image", "scope", "lockwhen", "match", "parent", "restrict",
          "page", "lockscope", "write"}

\* The guards a step leads past did not apply.
PassesParent(r, ph) ==
    /\ ph \in Steps
    /\ ph \in {"restrict", "page"} => IsDrop(r)
    /\ (ph \in PastParent => ~(Ask(r).scope # None /\ WritesFk(r)))
PassesMatch(r, ph) ==
    PassesParent(r, ph) /\ (ph \in PastMatch => ~(Ask(r).im = "tag" /\ Ask(r).op # "create"))
PassesLockWhen(r, ph) == PassesMatch(r, ph) /\ (ph \in PastLockWhen => ~CheckedInTx(r))
PassesScope(r, ph) ==
    PassesLockWhen(r, ph) /\ (ph \in PastScope => ~(Ask(r).scope # None /\ Ask(r).op # "create"))

LEMMA Order ==
    ASSUME TypeOK, NEW r \in Requests
    PROVE  /\ ToCascade(r) \in {"restrict", "page", "lockscope", "write"}
           /\ ToCascade(r) \in {"restrict", "page"} => IsDrop(r)
           /\ PassesParent(r, ToParent(r)) /\ ToParent(r) \in {"parent"} \cup PastParent
           /\ PassesMatch(r, ToMatch(r)) /\ ToMatch(r) \in {"match"} \cup PastMatch
           /\ PassesLockWhen(r, ToLockWhen(r)) /\ ToLockWhen(r) \in {"lockwhen"} \cup PastLockWhen
           /\ PassesScope(r, ToScope(r)) /\ ToScope(r) \in {"scope"} \cup PastScope
           /\ PassesScope(r, ToImage(r)) /\ ToImage(r) \in {"image", "scope"} \cup PastScope
           /\ PassesScope(r, ToAffected(r)) /\ ToAffected(r) \in Joined
           /\ IsDrop(r) => ToAffected(r) # "affected"
           /\ PassesScope(r, ToBegin(r)) /\ ToBegin(r) \in {"begin"} \cup Joined
           /\ ToBegin(r) # "begin" => ~Ask(r).tx /\ ToBegin(r) = ToAffected(r)
           /\ PassesScope(r, ToValidate(r))
           /\ ToValidate(r) \notin {"validate", "begin"} => ~Ask(r).tx /\ ToValidate(r) = ToAffected(r)
<1> USE StepOrder DEF PastScope, PastLockWhen, PastMatch, PastParent, PastWrite
<1>1. ToCascade(r) \in {"restrict", "page", "lockscope", "write"}
  OBVIOUS
<1>2. PassesParent(r, ToParent(r)) /\ ToParent(r) \in {"parent"} \cup PastParent
  BY DEF PassesParent, Steps
<1>3. PassesMatch(r, ToMatch(r)) /\ ToMatch(r) \in {"match"} \cup PastMatch
  BY <1>2 DEF PassesMatch, PassesParent, Steps
<1>4. PassesLockWhen(r, ToLockWhen(r)) /\ ToLockWhen(r) \in {"lockwhen"} \cup PastLockWhen
  BY <1>3 DEF PassesLockWhen, PassesMatch, PassesParent, Steps
<1>5. PassesScope(r, ToScope(r)) /\ ToScope(r) \in {"scope"} \cup PastScope
  BY <1>4 DEF PassesScope, PassesLockWhen, PassesMatch, PassesParent, Steps
<1>6. PassesScope(r, ToImage(r)) /\ ToImage(r) \in {"image", "scope"} \cup PastScope
  BY <1>5 DEF PassesScope, PassesLockWhen, PassesMatch, PassesParent, Steps
<1>7. PassesScope(r, ToAffected(r)) /\ ToAffected(r) \in Joined /\ (IsDrop(r) => ToAffected(r) # "affected")
  BY <1>6 DEF PassesScope, PassesLockWhen, PassesMatch, PassesParent, Steps, Joined
<1>8. /\ PassesScope(r, ToBegin(r)) /\ ToBegin(r) \in {"begin"} \cup Joined
      /\ ToBegin(r) # "begin" => ~Ask(r).tx /\ ToBegin(r) = ToAffected(r)
  BY <1>7 DEF PassesScope, PassesLockWhen, PassesMatch, PassesParent, Steps
<1>9. /\ PassesScope(r, ToValidate(r))
      /\ ToValidate(r) \notin {"validate", "begin"} => ~Ask(r).tx /\ ToValidate(r) = ToAffected(r)
  BY <1>8 DEF PassesScope, PassesLockWhen, PassesMatch, PassesParent, Steps
<1> QED BY <1>1, <1>2, <1>3, <1>4, <1>5, <1>6, <1>7, <1>8, <1>9

-----------------------------------------------------------------------------
(* What a step is described by *)

\* r moves to the given phase, transaction, durability, announcement and status.
Becomes(r, ph, tx, dur, told, st) ==
    /\ req' \in [Requests -> ReqType]
    /\ \A o \in Requests \ {r} : req'[o] = req[o]
    /\ req'[r].ask = req[r].ask
    /\ req[r].ph # "new" => req'[r].tag = req[r].tag
    /\ req'[r].ph = ph /\ req'[r].tx = tx /\ req'[r].dur = dur /\ req'[r].told = told /\ req'[r].st = st

\* r moves to another phase and perhaps into a transaction, and nothing else of it changes.
Goes(r, ph, tx) == Becomes(r, ph, tx, req[r].dur, req[r].told, req[r].st)

\* The tables keep their types.
Tables ==
    /\ row' \in [Rows -> RowType] /\ unc' \in [Rows -> RowType]
    /\ lk' \in [Rows -> Requests \cup {None}]
    /\ hist' \subseteq HistType /\ IsFiniteSet(hist')

\* A step of r takes or gives back its own locks and history rows only, and changes a committed row
\* only where it holds the lock, or bare, where nobody does and the writer is free.
Apart(r) ==
    /\ \A x \in Rows : lk'[x] # lk[x] => lk[x] \in {r, None} /\ lk'[x] \in {r, None}
    /\ \A x \in Rows : row'[x] # row[x] =>
           lk[x] = r \/ (lk[x] = None /\ ~InTx(r) /\ WriterFree(r))
    /\ \A h \in hist' : h.open \in {None, r} \/ \E g \in hist : g.open = h.open

\* What a step of r has to establish.
Sound(r) ==
    /\ Tables
    /\ req' \in [Requests -> ReqType] /\ \A o \in Requests \ {r} : req'[o] = req[o]
    /\ req'[r].ask = req[r].ask
    /\ Apart(r)
    /\ InTx(r)' => InTx(r) \/ WriterFree(r)
    /\ Lands(r) => req[r].ph \in PastParent /\ req'[r].tag = req[r].tag
    /\ WorkOf(r)' /\ TxOf(r)' /\ GuardOf(r)' /\ AnswerOf(r)'

\* One sound step preserves the invariant.
LEMMA SoundStep ==
    ASSUME IInv, NEW r \in Requests, Sound(r), cfg' = cfg, faults' \in 0..MaxFaults
    PROVE  IInv'
<1>1. TypeOK'
  BY DEF IInv, TypeOK, Sound, Tables
<1>2. OneWriter'
  BY DEF IInv, OneWriter, Sound, InTx, WriterFree
<1>3. ASSUME NEW o \in Requests, o # r
      PROVE  (WorkOf(o) /\ TxOf(o) /\ GuardOf(o) /\ AnswerOf(o))'
  <2>1. req'[o] = req[o] /\ Ask(o)' = Ask(o) /\ Target(o)' = Target(o) /\ InTx(o)' = InTx(o)
    BY <1>3 DEF Sound, Ask, Target, InTx
  <2>2. WorkOf(o)' /\ AnswerOf(o)'
    BY <2>1 DEF IInv, WorkOf, AnswerOf, IsDrop
  <2>3. \A x \in Rows : (lk'[x] = o) <=> (lk[x] = o)
    BY <1>3, NoneAssumption DEF Sound, Apart
  <2>4. TxOf(o)'
    <3>1. ~InTx(o) => \A h \in hist' : h.open # o
      BY <1>3, NoneAssumption DEF Sound, Apart, IInv, TxOf
    <3> QED BY <2>1, <2>3, <3>1 DEF IInv, TxOf
  <2>5. ASSUME NEW x \in Rows, InTx(o), cfg.pg => lk[x] = o
        PROVE  row'[x] = row[x]
    <3>1. CASE cfg.pg
      BY <3>1, <2>5, <1>3, NoneAssumption DEF Sound, Apart
    <3>2. CASE ~cfg.pg
      <4>1. ~WriterFree(r)
        BY <3>2, <2>5, <1>3 DEF WriterFree
      <4>2. lk[x] # r
        BY <3>2, <2>5, <1>3 DEF IInv, OneWriter, TxOf
      <4> QED BY <4>1, <4>2 DEF Sound, Apart
    <3> QED BY <3>1, <3>2
  <2>6. Target(o) \in Rows /\ (WritesFk(o) => Ask(o).fk \in Rows)
    BY DEF IInv, TypeOK, ReqType, AskType, Ask, Target, WritesFk, Rows
  <2>7. WritesFk(o)' = WritesFk(o) /\ CheckedInTx(o)' = CheckedInTx(o)
    BY <2>1 DEF WritesFk, CheckedInTx, IsChild, CheckedEarly
  <2>8. GuardOf(o)'
    <3>1. SUFFICES ASSUME ~req[o].dur
                   PROVE  (MatchGuard(o) /\ ScopeGuard(o) /\ ParentGuard(o) /\ LockGuard(o))'
      BY <2>1 DEF GuardOf
    <3>2. MatchGuard(o) /\ ScopeGuard(o) /\ ParentGuard(o) /\ LockGuard(o)
      BY <3>1 DEF IInv, GuardOf
    <3>3. MatchGuard(o)'
      BY <2>1, <2>3, <2>5, <2>6, <3>2 DEF MatchGuard
    <3>4. ScopeGuard(o)'
      BY <2>1, <2>5, <2>6, <3>2 DEF ScopeGuard
    <3>5. ParentGuard(o)'
      BY <2>1, <2>5, <2>6, <2>7, <3>2 DEF ParentGuard
    <3>6. LockGuard(o)'
      BY <2>1, <2>5, <2>6, <2>7, <3>2 DEF LockGuard
    <3> QED BY <3>3, <3>4, <3>5, <3>6
  <2> QED BY <2>2, <2>4, <2>8
<1> QED BY <1>1, <1>2, <1>3 DEF IInv, Sound

-----------------------------------------------------------------------------
(* Kinds of steps *)

\* r's row lock may be new; the committed rows stay, and the history gains at most rows of r.
Stays(r, tx) ==
    /\ row' = row
    /\ unc' \in [Rows -> RowType] /\ lk' \in [Rows -> Requests \cup {None}]
    /\ \A x \in Rows : lk'[x] # lk[x] => lk[x] = None /\ lk'[x] = r
    /\ hist' \subseteq HistType /\ IsFiniteSet(hist')
    /\ \A h \in hist' : h \in hist \/ h.open = IF tx = "none" THEN None ELSE r

\* A step that leaves the committed rows alone is sound when it keeps the order of the phases, takes
\* locks only where a checked transaction may, and enters no phase whose guard it did not pass.
LEMMA StaySound ==
    ASSUME IInv, NEW r \in Requests, NEW ph, NEW tx, cfg' = cfg, Stays(r, tx), Goes(r, ph, tx),
           req[r].ph # "done", ph # "done",
           tx = req[r].tx \/ (tx # "none" /\ ~InTx(r) /\ WriterFree(r)),
           tx # "none" => ph \in Joined,
           tx = "own" => ph \in PastScope,
           (\E x \in Rows : lk'[x] # lk[x]) => ph \in PastMatch /\ (~cfg.pg => ph \in PastParent) /\ tx # "none",
           ph \notin PastMatch => req[r].ph \notin PastMatch,
           ph \notin PastParent => req[r].ph \notin PastParent,
           ph \notin PastWrite => req[r].ph \notin PastWrite \/ ~req[r].dur,
           (Ask(r).tx /\ ph \notin {"new", "validate", "begin"}) => tx = "with",
           ph \in PastMatch => \/ req[r].ph \in PastMatch
                               \/ ~(Ask(r).im = "tag" /\ Ask(r).op # "create")
                               \/ /\ tx # "none" /\ row[Target(r)].ver = req'[r].tag
                                  /\ (cfg.pg => lk'[Target(r)] = r),
           ph \in PastScope => \/ req[r].ph \in PastScope \/ cfg.pg
                               \/ ~(Ask(r).scope # None /\ Ask(r).op # "create")
                               \/ tx # "none" /\ row[Target(r)].owner = Ask(r).scope,
           ph \in PastParent => \/ req[r].ph \in PastParent \/ cfg.pg
                                \/ ~(Ask(r).scope # None /\ WritesFk(r))
                                \/ tx # "none" /\ row[Ask(r).fk].alive /\ row[Ask(r).fk].owner = Ask(r).scope,
           ph \in PastLockWhen => \/ req[r].ph \in PastLockWhen \/ cfg.pg \/ ~CheckedInTx(r)
                                  \/ tx # "none" /\ ~(row[Target(r)].alive /\ row[Target(r)].locked),
           WorkOf(r)'
    PROVE  Sound(r)
<1>1. /\ Ask(r)' = Ask(r) /\ Target(r)' = Target(r) /\ WritesFk(r)' = WritesFk(r)
      /\ CheckedInTx(r)' = CheckedInTx(r)
  BY DEF Goes, Becomes, Ask, Target, WritesFk, CheckedInTx, IsChild, CheckedEarly
<1>2. InTx(r)' <=> tx # "none"
  BY DEF Goes, Becomes, InTx
<1>3. InTx(r) => tx # "none"
  BY DEF InTx
<1>4. req' \in [Requests -> ReqType] /\ (\A o \in Requests \ {r} : req'[o] = req[o]) /\ req'[r].ask = req[r].ask
  BY DEF Goes, Becomes
<1>5. Tables
  BY DEF Stays, Tables, IInv, TypeOK
<1>6. Apart(r)
  BY DEF Stays, Apart
<1>7. InTx(r)' => InTx(r) \/ WriterFree(r)
  BY <1>2 DEF InTx
<1>8. TxOf(r)'
  <2>1. TxOf(r)
    BY DEF IInv
  <2>2. tx = "none" => ~InTx(r)
    BY DEF InTx
  <2>3. tx = "none" => (\A x \in Rows : lk'[x] # r) /\ (\A h \in hist' : h.open # r)
    BY <2>1, <2>2, NoneAssumption DEF TxOf, Stays
  <2>4. ph \notin PastMatch => \A x \in Rows : lk'[x] # r
    BY <2>1 DEF TxOf, Stays
  <2>5. (~cfg.pg /\ ph \notin PastParent) => \A x \in Rows : lk'[x] # r
    BY <2>1 DEF TxOf, Stays
  <2> QED BY <1>2, <2>3, <2>4, <2>5 DEF TxOf, Goes, Becomes
<1>9. GuardOf(r)'
  <2>1. SUFFICES ASSUME ~req[r].dur
                 PROVE  (MatchGuard(r) /\ ScopeGuard(r) /\ ParentGuard(r) /\ LockGuard(r))'
    BY DEF GuardOf, Goes, Becomes
  <2>2. MatchGuard(r) /\ ScopeGuard(r) /\ ParentGuard(r) /\ LockGuard(r)
    BY <2>1 DEF IInv, GuardOf
  <2>3. req'[r].ph = ph /\ (req[r].ph \in PastMatch => req'[r].tag = req[r].tag)
    BY DEF Goes, Becomes, PastMatch, PastParent, PastWrite
  <2>4. row' = row /\ \A x \in Rows : lk[x] = r => lk'[x] = r
    BY NoneAssumption DEF Stays
  <2>5. Target(r) \in Rows
    BY DEF IInv, TypeOK, ReqType, AskType, Ask, Target
  <2>6. MatchGuard(r)'
    BY <1>1, <1>2, <1>3, <2>2, <2>3, <2>4, <2>5 DEF MatchGuard
  <2>7. ScopeGuard(r)'
    BY <1>1, <1>2, <1>3, <2>2, <2>3, <2>4 DEF ScopeGuard
  <2>8. ParentGuard(r)'
    BY <1>1, <1>2, <1>3, <2>2, <2>3, <2>4 DEF ParentGuard
  <2>9. LockGuard(r)'
    BY <1>1, <1>2, <1>3, <2>2, <2>3, <2>4 DEF LockGuard
  <2> QED BY <2>6, <2>7, <2>8, <2>9
<1>10. AnswerOf(r)'
  <2>1. AnswerOf(r)
    BY DEF IInv
  <2>2. req[r].dur => ph \in PastWrite
    BY <2>1 DEF AnswerOf
  <2> QED BY <1>1, <2>1, <2>2 DEF AnswerOf, Goes, Becomes
<1>11. ~Lands(r)
  BY DEF Lands, Goes, Becomes
<1> QED BY <1>4, <1>5, <1>6, <1>7, <1>8, <1>9, <1>10, <1>11 DEF Sound

\* Giving up is sound: r's locks and history rows go with its transaction.
LEMMA RefuseSound ==
    ASSUME IInv, NEW r \in Requests, cfg' = cfg, req[r].ph # "done",
           NEW status \in {"404", "409", "412", "422", "500"}, Refuse(r, status)
    PROVE  Sound(r)
<1> DEFINE q == [req[r] EXCEPT !.ph = "done", !.st = status, !.tx = "none"]
<1>1. req \in [Requests -> ReqType] /\ req[r] \in ReqType
  BY DEF IInv, TypeOK
<1>2. q \in ReqType /\ q.ask = req[r].ask /\ q.ph = "done" /\ q.tx = "none" /\ q.st = status
      /\ q.dur = req[r].dur /\ q.told = req[r].told
  BY <1>1 DEF ReqType, Phases
<1>3. req' = [req EXCEPT ![r] = q]
  BY DEF Refuse
<1> HIDE DEF q
<1>4. req'[r] = q /\ req' \in [Requests -> ReqType] /\ \A o \in Requests \ {r} : req'[o] = req[o]
  BY <1>1, <1>2, <1>3
<1>5. Tables
  <2>1. hist' \subseteq hist /\ IsFiniteSet(hist')
    BY FS_Subset DEF Refuse, Rollback, IInv, TypeOK
  <2> QED BY <2>1 DEF Tables, Refuse, Rollback, IInv, TypeOK
<1>6. Apart(r)
  BY DEF Apart, Refuse, Rollback, IInv, TypeOK
<1>7. TxOf(r)' /\ WorkOf(r)'
  <2>1. \A x \in Rows : lk'[x] # r
    BY NoneAssumption DEF Refuse, Rollback, IInv, TypeOK
  <2>2. \A h \in hist' : h.open # r
    BY DEF Refuse, Rollback
  <2> QED BY <1>2, <1>4, <2>1, <2>2 DEF TxOf, WorkOf, InTx
<1>8. GuardOf(r)'
  BY <1>2, <1>4 DEF GuardOf, MatchGuard, ScopeGuard, ParentGuard, LockGuard, PastScope, PastLockWhen,
                    PastMatch, PastParent, PastWrite
<1>9. AnswerOf(r)'
  BY <1>2, <1>4 DEF AnswerOf, IInv, Ask
<1>10. ~Lands(r)
  BY <1>2, <1>4 DEF Lands
<1> QED BY <1>2, <1>4, <1>5, <1>6, <1>7, <1>8, <1>9, <1>10 DEF Sound, InTx

\* A commit is sound: what r held becomes the committed image.
LEMMA CommitSound ==
    ASSUME IInv, NEW r \in Requests, NEW ph, NEW told, NEW st, cfg' = cfg, InTx(r), Commit(r),
           Becomes(r, ph, "none", TRUE, told, st), WorkOf(r)', req[r].ph \in PastWrite,
           \/ ph = "done" /\ st \in {"2xx", "lost"}
           \/ ph \in PastWrite /\ st = "none" /\ ~Ask(r).tx
    PROVE  Sound(r)
<1>1. Tables
  <2> DEFINE f == [h \in hist |-> [h EXCEPT !.open = IF h.open = r THEN None ELSE @]]
  <2>1. hist \subseteq HistType /\ IsFiniteSet(hist)
    BY DEF IInv, TypeOK
  <2>2. hist' = {f[h] : h \in hist}
    BY DEF Commit
  <2>3. IsFiniteSet(hist')
    <3>1. f \in [hist -> hist'] /\ \A g \in hist' : \E h \in hist : f[h] = g
      BY <2>2
    <3>2. f \in Surjection(hist, hist')
      BY <3>1 DEF Surjection
    <3> HIDE DEF f
    <3> QED BY <2>1, <3>2, FS_Surjection
  <2>4. hist' \subseteq HistType
    BY <2>1, <2>2 DEF HistType
  <2> QED BY <2>3, <2>4 DEF Tables, Commit, View, IInv, TypeOK
<1>2. Apart(r)
  <2>1. \A h \in hist' : h.open \in {None, r} \/ \E g \in hist : g.open = h.open
    BY DEF Commit, IInv, TypeOK, HistType
  <2> QED BY <2>1 DEF Apart, Commit, View, IInv, TypeOK
<1>3. (\A x \in Rows : lk'[x] # r) /\ (\A h \in hist' : h.open # r)
  BY NoneAssumption DEF Commit, IInv, TypeOK, HistType
<1>4. TxOf(r)'
  BY <1>3 DEF TxOf, Becomes, InTx
<1>5. GuardOf(r)'
  BY DEF GuardOf, Becomes
<1>6. AnswerOf(r)'
  BY DEF AnswerOf, Becomes, Ask
<1>7. req[r].ph \in PastParent /\ req'[r].ask = req[r].ask /\ req'[r].tag = req[r].tag
  BY DEF Becomes, PastParent, PastWrite
<1> QED BY <1>1, <1>2, <1>4, <1>5, <1>6, <1>7 DEF Sound, Becomes, InTx

-----------------------------------------------------------------------------
(* Facts that every action uses *)

LEMMA Update ==
    ASSUME TypeOK, NEW r \in Requests, NEW q \in ReqType, q.ask = req[r].ask,
           req[r].ph # "new" => q.tag = req[r].tag, req' = [req EXCEPT ![r] = q]
    PROVE  Becomes(r, q.ph, q.tx, q.dur, q.told, q.st) /\ req'[r] = q
BY DEF Becomes, TypeOK

LEMMA KeepsStays ==
    ASSUME TypeOK, Keeps, NEW r, NEW tx
    PROVE  Stays(r, tx) /\ \A x \in Rows : lk'[x] = lk[x]
BY DEF Stays, Keeps, TypeOK

LEMMA Types ==
    ASSUME TypeOK, NEW r \in Requests
    PROVE  /\ req[r] \in ReqType /\ Ask(r) \in AskType /\ Target(r) \in Rows
           /\ \A x \in Rows : row[x] \in RowType /\ View(r, x) \in RowType
           /\ WritesFk(r) => Ask(r).fk \in Rows
           /\ (WritesFk(r) => Ask(r).fk \in Parents) /\ Parents \subseteq Rows /\ Children \subseteq Rows
BY DEF TypeOK, ReqType, AskType, Ask, Target, View, WritesFk, Rows

\* A request that only changes its phase.
LEMMA Going ==
    ASSUME TypeOK, NEW r \in Requests, NEW ph \in Phases, Go(r, ph)
    PROVE  /\ Goes(r, ph, req[r].tx)
           /\ req'[r] = [req[r] EXCEPT !.ph = ph]
<1> DEFINE q == [req[r] EXCEPT !.ph = ph]
<1>1. q \in ReqType
  BY DEF TypeOK, ReqType
<1>2. q.ask = req[r].ask /\ q.tag = req[r].tag /\ q.ph = ph /\ q.tx = req[r].tx /\ q.dur = req[r].dur
      /\ q.told = req[r].told /\ q.st = req[r].st
  BY DEF TypeOK, ReqType
<1>3. req' = [req EXCEPT ![r] = q]
  BY DEF Go
<1> HIDE DEF q
<1>4. Becomes(r, q.ph, q.tx, q.dur, q.told, q.st) /\ req'[r] = q
  BY <1>1, <1>2, <1>3, Update
<1>5. req'[r] = [req[r] EXCEPT !.ph = ph]
  BY <1>4 DEF q
<1> QED BY <1>2, <1>4, <1>5 DEF Goes

\* A request that joins or opens a transaction on its way.
LEMMA GoingInTx ==
    ASSUME TypeOK, NEW r \in Requests, NEW ph \in Phases, NEW tx \in {"none", "with", "own"},
           req' = [req EXCEPT ![r] = [@ EXCEPT !.ph = ph, !.tx = tx]]
    PROVE  /\ Goes(r, ph, tx)
           /\ req'[r] = [req[r] EXCEPT !.ph = ph, !.tx = tx]
<1> DEFINE q == [req[r] EXCEPT !.ph = ph, !.tx = tx]
<1>1. q \in ReqType
  BY ZenonT(60) DEF TypeOK, ReqType
<1>2. q.ask = req[r].ask /\ q.tag = req[r].tag /\ q.ph = ph /\ q.tx = tx /\ q.dur = req[r].dur
      /\ q.told = req[r].told /\ q.st = req[r].st
  BY DEF TypeOK, ReqType
<1>3. req' = [req EXCEPT ![r] = q]
  OBVIOUS
<1> HIDE DEF q
<1>4. Becomes(r, q.ph, q.tx, q.dur, q.told, q.st) /\ req'[r] = q
  BY <1>1, <1>2, <1>3, Update
<1>5. req'[r] = [req[r] EXCEPT !.ph = ph, !.tx = tx]
  BY <1>4 DEF q
<1> QED BY <1>2, <1>4, <1>5 DEF Goes

\* Before its own locks, a request sees the committed rows.
LEMMA SeesCommitted ==
    ASSUME IInv, NEW r \in Requests, NEW x \in Rows,
           req[r].ph \notin PastMatch \/ (~cfg.pg /\ req[r].ph \notin PastParent)
    PROVE  View(r, x) = row[x]
BY DEF IInv, TxOf, View

\* What the invariant says of a transactional request and of one past the scope check.
LEMMA Standing ==
    ASSUME IInv, NEW r \in Requests, req[r].ph # "done"
    PROVE  /\ (req[r].ph \notin {"new", "validate", "begin"} /\ Ask(r).tx) => req[r].tx = "with"
           /\ InTx(r) => req[r].ph \in Joined
           /\ req[r].tx = "own" => req[r].ph \in PastScope
           /\ ~req[r].dur => MatchGuard(r) /\ ScopeGuard(r) /\ ParentGuard(r) /\ LockGuard(r)
           /\ req[r].dur => req[r].ph \in PastWrite
           /\ req[r].st = "none"
BY DEF IInv, AnswerOf, TxOf, GuardOf

\* Before the cascade and the write, a step of the chain has no work to lose.
LEMMA ChainWork ==
    ASSUME IInv, NEW r \in Requests, req[r].ph \in Chain
    PROVE  /\ IsDrop(r) => req[r].aff = {}
           /\ ~req[r].dur
           /\ req[r].aff # {} => req[r].tx = "with"
BY DEF IInv, WorkOf, AnswerOf, Chain, PastWrite

-----------------------------------------------------------------------------
(* Before the write *)

LEMMA SendSound == ASSUME IInv, NEW r \in Requests, Send(r), cfg' = cfg PROVE Sound(r)
<1>1. PassesScope(r, ToValidate(r)) /\ ToValidate(r) \in Steps /\ ToValidate(r) \in Phases
      /\ (ToValidate(r) \notin {"validate", "begin"} => ~Ask(r).tx /\ (IsDrop(r) => ToValidate(r) # "affected"))
  BY Order DEF IInv, Phases, PassesScope, PassesLockWhen, PassesMatch, PassesParent, Steps
<1>2. row[Target(r)].ver \in Nat
  BY Types DEF IInv, RowType
<1> DEFINE q == [req[r] EXCEPT !.ph = ToValidate(r), !.tag = IF Ask(r).im = "tag" THEN row[Target(r)].ver ELSE 0]
<1>4. q \in ReqType
  BY <1>1, <1>2, Types DEF IInv, ReqType
<1>5. req' = [req EXCEPT ![r] = q]
  BY DEF Send
<1>6. q.ask = req[r].ask /\ q.ph = ToValidate(r) /\ q.tx = req[r].tx /\ q.dur = req[r].dur /\ q.told = req[r].told /\ q.st = req[r].st
  BY Types DEF IInv, ReqType
<1> HIDE DEF q
<1>7. Goes(r, ToValidate(r), req[r].tx)
  BY <1>4, <1>5, <1>6, Update, ZenonT(60) DEF Goes, Send, IInv
<1>8. Stays(r, req[r].tx) /\ \A x \in Rows : lk'[x] = lk[x]
  BY KeepsStays DEF Send, IInv
<1>9. req[r].ph = "new" /\ req[r].tx = "none"
  BY Standing DEF Send, InTx, Joined, PastScope, PastLockWhen, PastMatch, PastParent, PastWrite
<1>11. req'[r].aff = req[r].aff /\ req'[r].todo = req[r].todo /\ req'[r].cur = req[r].cur
  BY Types DEF Send, IInv, TypeOK, ReqType
<1>10. WorkOf(r)'
  <2>1. ~req[r].dur /\ req[r].aff = {}
    BY <1>9, ChainWork DEF Chain
  <2> QED BY <1>1, <1>7, <1>9, <1>11, <2>1
          DEF Goes, Becomes, WorkOf, IsDrop, Target, Ask, Steps, PassesScope, PassesLockWhen, PassesMatch,
              PassesParent
<1> QED BY <1>1, <1>7, <1>8, <1>9, <1>10, StaySound
        DEF Steps, PassesScope, PassesLockWhen, PassesMatch, PassesParent, PastScope, PastLockWhen, PastMatch, PastParent, PastWrite

\* The phase a step of the chain may lead to.
Leads(r, ph) == ph \in Steps /\ ph \in Phases /\ (IsDrop(r) => ph # "affected") /\ ph # "validate"

\* A step of the chain that takes no lock: it only has to answer for the guards it passes.
LEMMA ChainStep ==
    ASSUME IInv, NEW r \in Requests, NEW ph, NEW tx, cfg' = cfg, Keeps, Goes(r, ph, tx), Leads(r, ph),
           req'[r].aff = req[r].aff \/ (~IsDrop(r) /\ (req'[r].aff # {} => tx = "with")),
           req'[r].todo = req[r].todo, req'[r].cur = req[r].cur,
           req[r].ph \in Chain \ {"new"},
           tx = req[r].tx \/ (tx # "none" /\ ~InTx(r) /\ WriterFree(r)),
           tx # "none" => ph \in Joined,
           tx = "own" => ph \in PastScope,
           ph \in {"restrict", "page"} => IsDrop(r),
           ph \notin PastMatch => req[r].ph \notin PastMatch,
           ph \notin PastParent => req[r].ph \notin PastParent,
           (Ask(r).tx /\ ph # "begin") => tx = "with",
           ph \in PastMatch => \/ req[r].ph \in PastMatch
                               \/ ~(Ask(r).im = "tag" /\ Ask(r).op # "create"),
           ph \in PastScope => \/ req[r].ph \in PastScope \/ cfg.pg
                               \/ ~(Ask(r).scope # None /\ Ask(r).op # "create")
                               \/ tx # "none" /\ row[Target(r)].owner = Ask(r).scope,
           ph \in PastParent => \/ cfg.pg
                                \/ ~(Ask(r).scope # None /\ WritesFk(r))
                                \/ tx # "none" /\ row[Ask(r).fk].alive /\ row[Ask(r).fk].owner = Ask(r).scope,
           ph \in PastLockWhen => \/ req[r].ph \in PastLockWhen \/ cfg.pg \/ ~CheckedInTx(r)
                                  \/ tx # "none" /\ ~(row[Target(r)].alive /\ row[Target(r)].locked)
    PROVE  Sound(r)
<1>1. Stays(r, tx) /\ \A x \in Rows : lk'[x] = lk[x]
  BY KeepsStays DEF IInv
<1>2. ~req[r].dur /\ (IsDrop(r) => req[r].aff = {}) /\ (req[r].aff # {} => req[r].tx = "with")
  BY ChainWork
<1>3. WorkOf(r)'
  BY <1>2 DEF Goes, Becomes, WorkOf, IsDrop, Target, Ask, InTx, Leads, Steps
<1> QED BY <1>1, <1>2, <1>3, StaySound DEF Chain, Leads, Steps, PastScope, PastLockWhen, PastMatch, PastParent, PastWrite

LEMMA ValidateSound == ASSUME IInv, NEW r \in Requests, Validate(r), cfg' = cfg PROVE Sound(r)
<1>1. CASE SeesLocked(r)
  BY <1>1, RefuseSound DEF Validate
<1>2. CASE ~SeesLocked(r)
  <2>1. Leads(r, ToBegin(r)) /\ PassesScope(r, ToBegin(r))
    BY Order DEF IInv, Leads, Phases, Joined, PastScope, PastLockWhen, PastMatch, PastParent, PastWrite, Steps, PassesScope, PassesLockWhen, PassesMatch, PassesParent
  <2>2. Goes(r, ToBegin(r), req[r].tx) /\ req'[r] = [req[r] EXCEPT !.ph = ToBegin(r)]
    BY <1>2, <2>1, Going DEF Validate, IInv, Leads
  <2>3. req'[r].aff = req[r].aff /\ req'[r].todo = req[r].todo /\ req'[r].cur = req[r].cur
    BY <2>2, Types DEF IInv, ReqType
  <2>4. req[r].tx = "none"
    BY Standing DEF Validate, InTx, Joined, PastScope, PastLockWhen, PastMatch, PastParent, PastWrite
  <2> QED BY <1>2, <2>1, <2>2, <2>3, <2>4, Order, ChainStep DEF IInv, Validate, Chain, Steps, PassesScope, PassesLockWhen, PassesMatch, PassesParent, PastScope, PastLockWhen, PastMatch, PastParent, PastWrite
<1> QED BY <1>1, <1>2

LEMMA WithTransactionSound == ASSUME IInv, NEW r \in Requests, WithTransaction(r), cfg' = cfg PROVE Sound(r)
<1>1. Leads(r, ToAffected(r)) /\ PassesScope(r, ToAffected(r)) /\ ToAffected(r) \in Joined
  BY Order DEF IInv, Leads, Phases, Joined, PastScope, PastLockWhen, PastMatch, PastParent, PastWrite, Steps, PassesScope, PassesLockWhen, PassesMatch, PassesParent
<1>2. Goes(r, ToAffected(r), "with") /\ req'[r] = [req[r] EXCEPT !.ph = ToAffected(r), !.tx = "with"]
  BY <1>1, GoingInTx DEF WithTransaction, IInv, Leads
<1>3. req'[r].aff = req[r].aff /\ req'[r].todo = req[r].todo /\ req'[r].cur = req[r].cur
  BY <1>2, Types DEF IInv, ReqType
<1>4. req[r].tx = "none"
  BY Standing DEF WithTransaction, InTx, Joined, PastScope, PastLockWhen, PastMatch, PastParent, PastWrite
<1> QED BY <1>1, <1>2, <1>3, <1>4, ChainStep DEF WithTransaction, InTx, Chain, Steps, PassesScope, PassesLockWhen, PassesMatch, PassesParent, PastScope, PastLockWhen, PastMatch, PastParent, PastWrite

LEMMA AffectedSound == ASSUME IInv, NEW r \in Requests, Affected(r), cfg' = cfg PROVE Sound(r)
<1>1. CASE AffectedParents(r) # {} /\ ~InTx(r)
  BY <1>1, RefuseSound DEF Affected
<1>2. CASE ~(AffectedParents(r) # {} /\ ~InTx(r))
  <2> DEFINE q == [req[r] EXCEPT !.ph = ToImage(r), !.aff = AffectedParents(r)]
  <2>1. AffectedParents(r) \in SUBSET Parents
    BY DEF AffectedParents
  <2>2. Leads(r, ToImage(r)) /\ PassesScope(r, ToImage(r)) /\ ToImage(r) \in Joined
    BY Order DEF IInv, Leads, Phases, Joined, Steps, PassesScope, PassesLockWhen, PassesMatch, PassesParent, PastScope, PastLockWhen, PastMatch, PastParent, PastWrite
  <2>3. q \in ReqType /\ q.ask = req[r].ask /\ q.tag = req[r].tag /\ q.ph = ToImage(r) /\ q.tx = req[r].tx
        /\ q.dur = req[r].dur /\ q.told = req[r].told /\ q.st = req[r].st /\ q.aff = AffectedParents(r)
        /\ q.todo = req[r].todo /\ q.cur = req[r].cur
    BY <2>1, <2>2, Types DEF IInv, ReqType, Leads
  <2>4. req' = [req EXCEPT ![r] = q]
    BY <1>2 DEF Affected
  <2> HIDE DEF q
  <2>5. Goes(r, ToImage(r), req[r].tx) /\ req'[r] = q
    BY <2>3, <2>4, Update DEF Goes, IInv
  <2>6. ~IsDrop(r)
    BY DEF Affected, IInv, WorkOf
  <2>7. Ask(r).tx => req[r].tx = "with"
    BY Standing DEF Affected
  <2>8. req[r].tx # "own" /\ (InTx(r) => req[r].tx = "with")
    BY Standing, Types DEF Affected, InTx, ReqType, IInv, PastScope, PastLockWhen, PastMatch, PastParent, PastWrite
  <2> QED BY <1>2, <2>1, <2>2, <2>3, <2>5, <2>6, <2>7, <2>8, ChainStep DEF Affected, Chain, Steps, PassesScope, PassesLockWhen, PassesMatch, PassesParent, PastScope, PastLockWhen, PastMatch, PastParent, PastWrite
<1> QED BY <1>1, <1>2

LEMMA CaptureImageSound == ASSUME IInv, NEW r \in Requests, CaptureImage(r), cfg' = cfg PROVE Sound(r)
<1> DEFINE v == IF View(r, Target(r)).alive THEN View(r, Target(r)).ver ELSE 0
           q == [req[r] EXCEPT !.ph = ToScope(r), !.pre = v]
<1>1. v \in Nat
  BY Types DEF IInv, RowType
<1>2. Leads(r, ToScope(r)) /\ PassesScope(r, ToScope(r)) /\ ToScope(r) \in Joined
  BY Order DEF IInv, Leads, Phases, Joined, Steps, PassesScope, PassesLockWhen, PassesMatch, PassesParent, PastScope, PastLockWhen, PastMatch, PastParent, PastWrite
<1>3. req' = [req EXCEPT ![r] = q]
  BY DEF CaptureImage
<1> HIDE DEF v
<1>4. q \in ReqType /\ q.ask = req[r].ask /\ q.tag = req[r].tag /\ q.ph = ToScope(r) /\ q.tx = req[r].tx
      /\ q.dur = req[r].dur /\ q.told = req[r].told /\ q.st = req[r].st /\ q.aff = req[r].aff
      /\ q.todo = req[r].todo /\ q.cur = req[r].cur
  BY <1>1, <1>2, Types DEF IInv, ReqType, Leads
<1> HIDE DEF q
<1>5. Goes(r, ToScope(r), req[r].tx) /\ req'[r] = q
  BY <1>3, <1>4, Update DEF Goes, IInv, CaptureImage
<1>6. (Ask(r).tx => req[r].tx = "with") /\ req[r].tx # "own"
  BY Standing DEF CaptureImage, PastScope, PastLockWhen, PastMatch, PastParent, PastWrite
<1> QED BY <1>2, <1>4, <1>5, <1>6, ChainStep DEF CaptureImage, Chain, Steps, PassesScope, PassesLockWhen, PassesMatch, PassesParent, PastScope, PastLockWhen, PastMatch, PastParent, PastWrite

-----------------------------------------------------------------------------
(* Taking a row lock *)

LEMMA HoldStays ==
    ASSUME TypeOK, NEW r \in Requests, NEW tx, NEW x \in Rows, NEW image \in RowType, CanLock(r, x),
           Hold(r, x, image), UNCHANGED <<row, hist>>
    PROVE  Stays(r, tx) /\ lk'[x] = r
BY DEF TypeOK, CanLock, Hold, Stays

LEMMA ForUpdateStays ==
    ASSUME TypeOK, NEW r \in Requests, NEW tx, NEW x \in Rows, CanLock(r, x),
           ForUpdate(r, x), UNCHANGED <<row, hist>>
    PROVE  /\ Stays(r, tx) /\ (cfg.pg => lk'[x] = r)
           /\ ~cfg.pg => \A y \in Rows : lk'[y] = lk[y]
<1>1. CASE cfg.pg
  BY <1>1, Types, HoldStays DEF ForUpdate
<1>2. CASE ~cfg.pg
  BY <1>2 DEF ForUpdate, Stays, TypeOK
<1> QED BY <1>1, <1>2

-----------------------------------------------------------------------------
(* The guards of the DB step *)

\* A guard's transaction: the one there is, or one the free writer may open.
LEMMA Opening ==
    ASSUME IInv, NEW r \in Requests, MayBegin(r)
    PROVE  /\ Opened(r) \in {"with", "own"}
           /\ Opened(r) = req[r].tx \/ (Opened(r) # "none" /\ ~InTx(r) /\ WriterFree(r))
           /\ req[r].tx = "with" => Opened(r) = "with"
BY Types DEF IInv, Opened, InTx, MayBegin, ReqType

LEMMA EnforceWriteScopeSound ==
    ASSUME IInv, NEW r \in Requests, EnforceWriteScope(r), cfg' = cfg PROVE Sound(r)
<1>1. CASE ~InScope(r, View(r, Target(r)))
  BY <1>1, RefuseSound DEF EnforceWriteScope
<1>2. CASE InScope(r, View(r, Target(r)))
  <2>1. Leads(r, ToLockWhen(r)) /\ PassesLockWhen(r, ToLockWhen(r)) /\ ToLockWhen(r) \in Joined
        /\ ToLockWhen(r) \in PastScope
    BY Order DEF IInv, Leads, Phases, Joined, Steps, PassesScope, PassesLockWhen, PassesMatch, PassesParent, PastScope, PastLockWhen, PastMatch, PastParent, PastWrite
  <2>2. (Ask(r).tx => Opened(r) = "with") /\ Opened(r) \in {"with", "own"}
        /\ (Opened(r) = req[r].tx \/ (Opened(r) # "none" /\ ~InTx(r) /\ WriterFree(r)))
    BY Standing, Opening DEF EnforceWriteScope
  <2>3. Goes(r, ToLockWhen(r), Opened(r)) /\ req'[r] = [req[r] EXCEPT !.ph = ToLockWhen(r), !.tx = Opened(r)]
    <3>1. req' = [req EXCEPT ![r] = [@ EXCEPT !.ph = ToLockWhen(r), !.tx = Opened(r)]]
      BY <1>2 DEF EnforceWriteScope
    <3>2. TypeOK /\ ToLockWhen(r) \in Phases /\ Opened(r) \in {"none", "with", "own"}
      BY <2>1, <2>2 DEF IInv, Leads
    <3> QED BY <3>1, <3>2, GoingInTx, ZenonT(60)
  <2>4. req'[r].aff = req[r].aff /\ req'[r].todo = req[r].todo /\ req'[r].cur = req[r].cur
    BY <2>3, Types DEF IInv, ReqType
  <2>5. View(r, Target(r)) = row[Target(r)]
    BY SeesCommitted, Types DEF EnforceWriteScope, IInv, PastScope, PastLockWhen, PastMatch, PastParent, PastWrite
  <2>6. Ask(r).scope # None => row[Target(r)].owner = Ask(r).scope
    BY <1>2, <2>5 DEF InScope
  <2> QED BY <1>2, <2>1, <2>2, <2>3, <2>4, <2>6, ChainStep
          DEF EnforceWriteScope, Chain, Steps, PassesScope, PassesLockWhen, PassesMatch, PassesParent, PastScope, PastLockWhen, PastMatch, PastParent, PastWrite
<1> QED BY <1>1, <1>2

LEMMA LockWhenSound == ASSUME IInv, NEW r \in Requests, LockWhen(r), cfg' = cfg PROVE Sound(r)
<1>1. CASE SeesLocked(r)
  BY <1>1, RefuseSound DEF LockWhen
<1>2. CASE ~SeesLocked(r)
  <2>1. Leads(r, ToMatch(r)) /\ PassesMatch(r, ToMatch(r)) /\ ToMatch(r) \in Joined
        /\ ToMatch(r) \in PastScope
    BY Order DEF IInv, Leads, Phases, Joined, Steps, PassesScope, PassesLockWhen, PassesMatch, PassesParent, PastScope, PastLockWhen, PastMatch, PastParent, PastWrite
  <2>2. Goes(r, ToMatch(r), req[r].tx) /\ req'[r] = [req[r] EXCEPT !.ph = ToMatch(r)]
    BY <1>2, <2>1, Going DEF LockWhen, IInv, Leads
  <2>3. req'[r].aff = req[r].aff /\ req'[r].todo = req[r].todo /\ req'[r].cur = req[r].cur
    BY <2>2, Types DEF IInv, ReqType
  <2>4. View(r, Target(r)) = row[Target(r)]
    BY SeesCommitted, Types DEF LockWhen, IInv, PastScope, PastLockWhen, PastMatch, PastParent, PastWrite
  <2>5. (Ask(r).tx => req[r].tx = "with") /\ ScopeGuard(r)
    BY Standing DEF LockWhen, PastWrite
  <2>6. (~cfg.pg /\ CheckedInTx(r)) => req[r].tx # "none" /\ ~(row[Target(r)].alive /\ row[Target(r)].locked)
    <3>1. SUFFICES ASSUME ~cfg.pg, CheckedInTx(r)
                   PROVE  req[r].tx # "none" /\ ~(row[Target(r)].alive /\ row[Target(r)].locked)
      OBVIOUS
    <3>2. Ask(r).scope # None => InTx(r) /\ row[Target(r)].owner = Ask(r).scope
      BY <3>1, <2>5 DEF ScopeGuard, CheckedInTx, LockWhen, PastScope, PastLockWhen, PastMatch, PastParent, PastWrite
    <3>3. req[r].tx # "none"
      BY <3>1, <3>2, <2>5 DEF CheckedInTx, InTx
    <3>4. ~(row[Target(r)].alive /\ row[Target(r)].locked)
      BY <1>2, <2>4, <3>2 DEF SeesLocked, InScope
    <3> QED BY <3>3, <3>4
  <2> QED BY <1>2, <2>1, <2>2, <2>3, <2>5, <2>6, ChainStep DEF LockWhen, Chain, Steps, PassesScope, PassesLockWhen, PassesMatch, PassesParent, PastScope, PastLockWhen, PastMatch, PastParent, PastWrite
<1> QED BY <1>1, <1>2

LEMMA EnforceOptimisticLockSound ==
    ASSUME IInv, NEW r \in Requests, EnforceOptimisticLock(r), cfg' = cfg PROVE Sound(r)
<1>1. CASE Refuse(r, "404") \/ Refuse(r, "412")
  BY <1>1, RefuseSound DEF EnforceOptimisticLock
<1>2. CASE ~(Refuse(r, "404") \/ Refuse(r, "412"))
  <2>1. Leads(r, ToParent(r)) /\ PassesParent(r, ToParent(r)) /\ ToParent(r) \in Joined
        /\ ToParent(r) \in PastMatch
    BY Order DEF IInv, Leads, Phases, Joined, Steps, PassesScope, PassesLockWhen, PassesMatch, PassesParent, PastScope, PastLockWhen, PastMatch, PastParent, PastWrite
  <2>2. (Ask(r).tx => Opened(r) = "with") /\ Opened(r) \in {"with", "own"}
        /\ (Opened(r) = req[r].tx \/ (Opened(r) # "none" /\ ~InTx(r) /\ WriterFree(r)))
    BY Standing, Opening DEF EnforceOptimisticLock
  <2>3. Goes(r, ToParent(r), Opened(r)) /\ req'[r] = [req[r] EXCEPT !.ph = ToParent(r), !.tx = Opened(r)]
    <3>1. req' = [req EXCEPT ![r] = [@ EXCEPT !.ph = ToParent(r), !.tx = Opened(r)]]
      BY <1>2 DEF EnforceOptimisticLock
    <3>2. TypeOK /\ ToParent(r) \in Phases /\ Opened(r) \in {"none", "with", "own"}
      BY <2>1, <2>2 DEF IInv, Leads
    <3> QED BY <3>1, <3>2, GoingInTx, ZenonT(60)
  <2>4. req'[r].aff = req[r].aff /\ req'[r].todo = req[r].todo /\ req'[r].cur = req[r].cur
        /\ req'[r].tag = req[r].tag
    BY <2>3, Types DEF IInv, ReqType
  <2>5. View(r, Target(r)) = row[Target(r)]
    BY SeesCommitted, Types DEF EnforceOptimisticLock, IInv, PastScope, PastLockWhen, PastMatch, PastParent, PastWrite
  <2>6. Ask(r).im = "tag" => row[Target(r)].ver = req[r].tag
    BY <1>2, <2>5 DEF EnforceOptimisticLock
  <2>7. /\ Stays(r, Opened(r)) /\ (cfg.pg => lk'[Target(r)] = r)
        /\ ~cfg.pg => \A y \in Rows : lk'[y] = lk[y]
    BY <1>2, Types, ForUpdateStays DEF EnforceOptimisticLock, IInv
  <2>8. WorkOf(r)'
    <3>1. ~req[r].dur /\ (IsDrop(r) => req[r].aff = {}) /\ (req[r].aff # {} => req[r].tx = "with")
      BY ChainWork DEF EnforceOptimisticLock, Chain
    <3> QED BY <2>1, <2>2, <2>3, <2>4, <3>1
            DEF Goes, Becomes, WorkOf, IsDrop, Target, Ask, InTx, Leads, Steps, PassesParent
  <2>9. req[r].ph = "match"
    BY DEF EnforceOptimisticLock
  <2> QED BY <2>1, <2>2, <2>3, <2>4, <2>6, <2>7, <2>8, <2>9, StaySound
          DEF Leads, Steps, PassesScope, PassesLockWhen, PassesMatch, PassesParent, PastScope, PastLockWhen, PastMatch, PastParent, PastWrite
<1> QED BY <1>1, <1>2

LEMMA EnforceParentScopeSound ==
    ASSUME IInv, NEW r \in Requests, EnforceParentScope(r), cfg' = cfg PROVE Sound(r)
<1>1. CASE ~InScope(r, View(r, Ask(r).fk))
  BY <1>1, RefuseSound DEF EnforceParentScope
<1>2. CASE InScope(r, View(r, Ask(r).fk))
  <2>1. Leads(r, ToCascade(r)) /\ ToCascade(r) \in Joined /\ ToCascade(r) \in PastParent
        /\ (ToCascade(r) \in {"restrict", "page"} => IsDrop(r))
    BY Order DEF IInv, Leads, Phases, Joined, Steps, PassesScope, PassesLockWhen, PassesMatch, PassesParent, PastScope, PastLockWhen, PastMatch, PastParent, PastWrite
  <2>2. (Ask(r).tx => Opened(r) = "with") /\ Opened(r) \in {"with", "own"}
        /\ (Opened(r) = req[r].tx \/ (Opened(r) # "none" /\ ~InTx(r) /\ WriterFree(r)))
    BY Standing, Opening DEF EnforceParentScope
  <2>3. Goes(r, ToCascade(r), Opened(r)) /\ req'[r] = [req[r] EXCEPT !.ph = ToCascade(r), !.tx = Opened(r)]
    <3>1. req' = [req EXCEPT ![r] = [@ EXCEPT !.ph = ToCascade(r), !.tx = Opened(r)]]
      BY <1>2 DEF EnforceParentScope
    <3>2. TypeOK /\ ToCascade(r) \in Phases /\ Opened(r) \in {"none", "with", "own"}
      BY <2>1, <2>2 DEF IInv, Leads
    <3> QED BY <3>1, <3>2, GoingInTx, ZenonT(60)
  <2>4. req'[r].aff = req[r].aff /\ req'[r].todo = req[r].todo /\ req'[r].cur = req[r].cur
    BY <2>3, Types DEF IInv, ReqType
  <2>5. (~cfg.pg /\ Ask(r).scope # None /\ WritesFk(r))
           => row[Ask(r).fk].alive /\ row[Ask(r).fk].owner = Ask(r).scope
    <3>1. ASSUME ~cfg.pg, WritesFk(r) PROVE View(r, Ask(r).fk) = row[Ask(r).fk]
      BY <3>1, SeesCommitted, Types DEF EnforceParentScope, IInv, PastScope, PastLockWhen, PastMatch, PastParent, PastWrite
    <3> QED BY <1>2, <3>1 DEF InScope
  <2>6. req[r].ph = "parent"
    BY DEF EnforceParentScope
  <2> QED BY <1>2, <2>1, <2>2, <2>3, <2>4, <2>5, <2>6, ChainStep
          DEF EnforceParentScope, Chain, Leads, Steps, PassesScope, PassesLockWhen, PassesMatch, PassesParent, PastScope, PastLockWhen, PastMatch, PastParent, PastWrite
<1> QED BY <1>1, <1>2

-----------------------------------------------------------------------------
(* The cascade *)

LEMMA CascadeRestrictSound ==
    ASSUME IInv, NEW r \in Requests, CascadeRestrict(r), cfg' = cfg PROVE Sound(r)
<1>1. CASE ChildrenOf(r, Target(r)) # {}
  BY <1>1, RefuseSound DEF CascadeRestrict
<1>2. CASE ChildrenOf(r, Target(r)) = {}
  <2>1. (Ask(r).tx => Opened(r) = "with") /\ Opened(r) \in {"with", "own"}
        /\ (Opened(r) = req[r].tx \/ (Opened(r) # "none" /\ ~InTx(r) /\ WriterFree(r)))
    BY Standing, Opening DEF CascadeRestrict
  <2>2. Goes(r, "write", Opened(r)) /\ req'[r] = [req[r] EXCEPT !.ph = "write", !.tx = Opened(r)]
    <3>1. req' = [req EXCEPT ![r] = [@ EXCEPT !.ph = "write", !.tx = Opened(r)]]
      BY <1>2 DEF CascadeRestrict
    <3>2. TypeOK /\ "write" \in Phases /\ Opened(r) \in {"none", "with", "own"}
      BY <2>1 DEF IInv, Phases
    <3> QED BY <3>1, <3>2, GoingInTx, ZenonT(60)
  <2>3. req'[r].aff = req[r].aff /\ req'[r].todo = req[r].todo /\ req'[r].cur = req[r].cur
    BY <2>2, Types DEF IInv, ReqType
  <2>4. req[r].ph = "restrict" /\ ~req[r].dur /\ req[r].aff = {}
    BY DEF CascadeRestrict, IInv, WorkOf, AnswerOf, PastWrite
  <2>5. WorkOf(r)'
    BY <2>2, <2>3, <2>4 DEF Goes, Becomes, WorkOf, IsDrop, Target, Ask
  <2>6. Stays(r, Opened(r)) /\ \A x \in Rows : lk'[x] = lk[x]
    BY <1>2, KeepsStays DEF IInv, CascadeRestrict
  <2> QED BY <2>1, <2>2, <2>4, <2>5, <2>6, StaySound DEF Joined, PastScope, PastLockWhen, PastMatch, PastParent, PastWrite
<1> QED BY <1>1, <1>2

LEMMA EachChildIdSound ==
    ASSUME IInv, NEW r \in Requests, EachChildId(r), cfg' = cfg PROVE Sound(r)
<1> DEFINE rest == {c \in ChildrenOf(r, Target(r)) : \A d \in req[r].walked : d < c}
           page == {c \in rest : Cardinality({d \in rest : d < c}) < PageSize}
           after == IF req[r].aff = {} THEN "write" ELSE "lockp"
           q == IF page = {} THEN [req[r] EXCEPT !.tx = Opened(r), !.ph = after]
                ELSE [req[r] EXCEPT !.tx = Opened(r), !.ph = "pre", !.todo = page,
                                    !.walked = req[r].walked \cup page]
<1>1. page \in SUBSET Children
  BY DEF ChildrenOf
<1>2. (Ask(r).tx => Opened(r) = "with") /\ Opened(r) \in {"with", "own"}
      /\ (Opened(r) = req[r].tx \/ (Opened(r) # "none" /\ ~InTx(r) /\ WriterFree(r)))
  BY Standing, Opening DEF EachChildId
<1>3. req' = [req EXCEPT ![r] = q]
  <2>1. CASE page = {}
    BY <2>1 DEF EachChildId
  <2>2. CASE page # {}
    BY <2>2 DEF EachChildId
  <2> QED BY <2>1, <2>2
<1>4. Keeps /\ req[r].ph = "page" /\ ~req[r].dur /\ IsDrop(r)
  BY DEF EachChildId, IInv, AnswerOf, WorkOf, PastWrite
<1>9. "pre" \in Phases /\ after \in Phases
  BY DEF Phases
<1> HIDE DEF rest, page
<1>5. /\ q \in ReqType /\ q.ask = req[r].ask /\ q.tag = req[r].tag /\ q.tx = Opened(r)
      /\ q.dur = req[r].dur /\ q.told = req[r].told /\ q.st = req[r].st /\ q.aff = req[r].aff
      /\ q.ph = IF page = {} THEN after ELSE "pre"
      /\ page # {} => q.todo # {}
  BY <1>1, <1>2, <1>9, Types DEF IInv, ReqType
<1> HIDE DEF q
<1>6. Goes(r, q.ph, Opened(r)) /\ req'[r] = q
  BY <1>3, <1>5, Update DEF Goes, IInv
<1>7. WorkOf(r)'
  BY <1>2, <1>4, <1>5, <1>6 DEF Goes, Becomes, WorkOf, IsDrop, Target, Ask, InTx
<1>8. Stays(r, Opened(r)) /\ \A x \in Rows : lk'[x] = lk[x]
  BY <1>4, KeepsStays DEF IInv
<1> QED BY <1>2, <1>4, <1>5, <1>6, <1>7, <1>8, StaySound DEF Joined, PastScope, PastLockWhen, PastMatch, PastParent, PastWrite

LEMMA CascadePreImageSound ==
    ASSUME IInv, NEW r \in Requests, CascadePreImage(r), cfg' = cfg PROVE Sound(r)
<1> DEFINE c == Least(req[r].todo)
           read == Versioned \/ cfg.rollup
           pre == IF read THEN View(r, c).ver ELSE 0
           aff == IF cfg.rollup THEN req[r].aff \cup ({View(r, c).fk} \cap Parents) ELSE req[r].aff
           q == [req[r] EXCEPT !.ph = "child", !.cur = c, !.pre = pre, !.aff = aff]
<1>1. CASE read /\ ~View(r, c).alive
  BY <1>1, RefuseSound DEF CascadePreImage
<1>2. CASE ~(read /\ ~View(r, c).alive)
  <2>1. c \in Children /\ c \in Nat
    <3>1. req[r].todo # {} /\ req[r].todo \in SUBSET Children
      BY Types DEF CascadePreImage, IInv, WorkOf, ReqType
    <3>2. req[r].todo \in SUBSET Nat
      BY <3>1, IdAssumption
    <3>3. c \in req[r].todo
      BY <3>1, <3>2, LeastMember
    <3> QED BY <3>1, <3>2, <3>3
  <2>2. pre \in Nat /\ aff \in SUBSET Parents
    BY <2>1, Types DEF IInv, RowType, ReqType
  <2>3. req' = [req EXCEPT ![r] = q]
    BY <1>2 DEF CascadePreImage
  <2>4. Keeps /\ req[r].ph = "pre" /\ ~req[r].dur /\ IsDrop(r) /\ InTx(r)
    BY <1>2 DEF CascadePreImage, IInv, AnswerOf, WorkOf, PastWrite
  <2>10. "child" \in Phases
    BY DEF Phases
  <2> HIDE DEF c, pre, aff
  <2>5. /\ q \in ReqType /\ q.ask = req[r].ask /\ q.tag = req[r].tag /\ q.tx = req[r].tx
        /\ q.dur = req[r].dur /\ q.told = req[r].told /\ q.st = req[r].st /\ q.ph = "child" /\ q.cur = c
    BY <2>1, <2>2, <2>10, Types DEF IInv, ReqType
  <2> HIDE DEF q
  <2>6. Goes(r, "child", req[r].tx) /\ req'[r] = q
    BY <2>3, <2>4, <2>5, Update DEF Goes, IInv
  <2>7. WorkOf(r)'
    BY <2>1, <2>4, <2>5, <2>6 DEF Goes, Becomes, WorkOf, IsDrop, Target, Ask, InTx
  <2>8. Stays(r, req[r].tx) /\ \A x \in Rows : lk'[x] = lk[x]
    BY <2>4, KeepsStays DEF IInv
  <2>9. Ask(r).tx => req[r].tx = "with"
    BY <2>4, Standing
  <2> QED BY <2>4, <2>6, <2>7, <2>8, <2>9, StaySound DEF Joined, PastScope, PastLockWhen, PastMatch, PastParent, PastWrite
<1> QED BY <1>1, <1>2

\* Any change of a row's columns within their types leaves a row.
LEMMA RowUpdate ==
    ASSUME NEW o \in RowType, NEW f \in Parents \cup {None}, NEW w \in Tenants \cup {None},
           NEW l \in BOOLEAN, NEW v \in Nat
    PROVE  LET new == [o EXCEPT !.alive = TRUE, !.fk = f, !.owner = w, !.locked = l, !.ver = v]
           IN  new \in RowType /\ new.ver = v
BY DEF RowType

LEMMA RowCleared ==
    ASSUME NEW o \in RowType, NEW v \in Nat
    PROVE  /\ [o EXCEPT !.alive = FALSE, !.ver = v] \in RowType /\ [o EXCEPT !.alive = FALSE, !.ver = v].ver = v
           /\ [o EXCEPT !.fk = None, !.ver = v] \in RowType /\ [o EXCEPT !.fk = None, !.ver = v].ver = v
BY DEF RowType

LEMMA RowTotal ==
    ASSUME NEW o \in RowType, NEW t \in Nat, NEW v \in Nat
    PROVE  [o EXCEPT !.total = t, !.ver = v] \in RowType
BY DEF RowType

LEMMA CascadeWriteSound ==
    ASSUME IInv, NEW r \in Requests, CascadeWrite(r), cfg' = cfg PROVE Sound(r)
<1> DEFINE c == req[r].cur
           old == View(r, c)
           rest == req[r].todo \ {c}
           new == IF cfg.onDelete = "setNull" THEN [old EXCEPT !.fk = None, !.ver = old.ver + 1]
                  ELSE [old EXCEPT !.alive = FALSE, !.ver = old.ver + 1]
           ph == IF Versioned THEN "count" ELSE Onward(rest)
           q == [req[r] EXCEPT !.ph = ph, !.todo = rest, !.post = new.ver, !.try = 0]
<1>1. CASE ~old.alive
  BY <1>1, RefuseSound DEF CascadeWrite
<1>2. CASE old.alive
  <2>1. req[r].ph = "child" /\ ~req[r].dur /\ IsDrop(r) /\ InTx(r) /\ c \in Children /\ c \in Rows
        /\ CanLock(r, c)
    BY DEF CascadeWrite, IInv, AnswerOf, WorkOf, PastWrite, Rows
  <2>2. old \in RowType
    BY <2>1, Types DEF IInv
  <2>3. new \in RowType /\ new.ver \in Nat
    <3>1. old.ver + 1 \in Nat
      BY <2>2 DEF RowType
    <3> HIDE DEF old
    <3> QED BY <2>2, <3>1, RowCleared
  <2>4. Hold(r, c, new) /\ req' = [req EXCEPT ![r] = q] /\ UNCHANGED <<row, hist>>
    BY <1>2 DEF CascadeWrite
  <2>5. ph \in Phases /\ ph \in {"count", "pre", "page"} /\ (ph = "pre" => rest # {})
    BY DEF Phases, Onward
  <2>6. rest \in SUBSET Children
    BY Types DEF IInv, ReqType
  <2> HIDE DEF new, ph
  <2>7. /\ q \in ReqType /\ q.ask = req[r].ask /\ q.tag = req[r].tag /\ q.tx = req[r].tx
        /\ q.dur = req[r].dur /\ q.told = req[r].told /\ q.st = req[r].st /\ q.ph = ph
        /\ q.cur = c /\ q.todo = rest
    BY <2>3, <2>5, <2>6, Types DEF IInv, ReqType
  <2> HIDE DEF q
  <2>8. Goes(r, ph, req[r].tx) /\ req'[r] = q
    BY <2>1, <2>4, <2>7, Update DEF Goes, IInv
  <2>9. WorkOf(r)'
    BY <2>1, <2>5, <2>7, <2>8 DEF Goes, Becomes, WorkOf, IsDrop, Target, Ask, InTx
  <2>10. Stays(r, req[r].tx)
    BY <2>1, <2>3, <2>4, HoldStays DEF IInv
  <2>11. (Ask(r).tx => req[r].tx = "with") /\ req[r].tx # "none"
    BY <2>1, Standing DEF InTx
  <2> QED BY <2>1, <2>5, <2>8, <2>9, <2>10, <2>11, StaySound DEF Joined, PastScope, PastLockWhen, PastMatch, PastParent, PastWrite
<1> QED BY <1>1, <1>2

-----------------------------------------------------------------------------
(* The write *)

LEMMA LockScopeSound ==
    ASSUME IInv, NEW r \in Requests, LockScope(r), cfg' = cfg PROVE Sound(r)
<1>1. CASE Refuse(r, "500") \/ Refuse(r, "404")
  BY <1>1, RefuseSound DEF LockScope
<1>2. CASE ~(Refuse(r, "500") \/ Refuse(r, "404"))
  <2>1. req[r].ph = "lockscope" /\ InTx(r) /\ Go(r, "write") /\ ~req[r].dur
    BY <1>2 DEF LockScope, IInv, AnswerOf, PastWrite
  <2>2. Goes(r, "write", req[r].tx) /\ req'[r] = [req[r] EXCEPT !.ph = "write"]
    <3>1. "write" \in Phases
      BY DEF Phases
    <3> QED BY <2>1, <3>1, Going DEF IInv
  <2>3. req'[r].aff = req[r].aff /\ req'[r].todo = req[r].todo /\ req'[r].cur = req[r].cur
    BY <2>2, Types DEF IInv, ReqType
  <2>4. WorkOf(r)'
    BY <2>1, <2>2, <2>3 DEF Goes, Becomes, WorkOf, IsDrop, Target, Ask, InTx, IInv
  <2>5. Stays(r, req[r].tx)
    <3>1. CASE Keeps
      BY <3>1, KeepsStays DEF IInv
    <3>2. CASE ~Keeps
      <4>1. /\ CanLock(r, Ask(r).fk) /\ ForUpdate(r, Ask(r).fk) /\ UNCHANGED <<row, hist>>
            /\ Ask(r).fk \in Rows
        BY <1>2, <3>2 DEF LockScope, Rows
      <4> QED BY <4>1, ForUpdateStays DEF IInv
    <3> QED BY <3>1, <3>2
  <2>6. (Ask(r).tx => req[r].tx = "with") /\ req[r].tx # "none"
    BY <2>1, Standing DEF InTx
  <2> QED BY <2>1, <2>2, <2>4, <2>5, <2>6, StaySound DEF Joined, PastScope, PastLockWhen, PastMatch, PastParent, PastWrite
<1> QED BY <1>1, <1>2

\* What a write leaves is a row, one version further.
LEMMA WrittenType ==
    ASSUME TypeOK, NEW r \in Requests, NEW old \in RowType
    PROVE  Written(r, old) \in RowType /\ Written(r, old).ver \in Nat
<1>1. Ask(r) \in AskType
  BY Types
<1>2. CASE Ask(r).op = "delete"
  <2>1. old.ver + 1 \in Nat
    BY DEF RowType
  <2>2. Written(r, old) = [old EXCEPT !.alive = FALSE, !.ver = old.ver + 1]
    BY <1>2 DEF Written
  <2> QED BY <2>1, <2>2, RowCleared
<1>3. CASE Ask(r).op # "delete"
  <2> DEFINE own == IF Ask(r).scope # None THEN Ask(r).scope ELSE IF Ask(r).own # Keep THEN Ask(r).own ELSE old.owner
             fk == IF Ask(r).fk # Keep THEN Ask(r).fk ELSE old.fk
             lock == old.locked \/ Ask(r).lock
  <2>1. own \in Tenants \cup {None} /\ fk \in Parents \cup {None} /\ lock \in BOOLEAN /\ old.ver + 1 \in Nat
    BY <1>1 DEF AskType, RowType
  <2>2. Written(r, old) = [old EXCEPT !.alive = TRUE, !.fk = fk, !.owner = own, !.locked = lock, !.ver = old.ver + 1]
    BY <1>3 DEF Written
  <2> HIDE DEF own, fk, lock
  <2> QED BY <2>1, <2>2 DEF RowType
<1> QED BY <1>2, <1>3

\* After the write: what follows the DB step.
LEMMA After ==
    ASSUME TypeOK, NEW r \in Requests
    PROVE  /\ AfterDB(r) \in {"count", "lockp", "finish"} /\ AfterDB(r) \in Phases
           /\ AfterDB(r) = "count" => Target(r) \in Children
           /\ AfterDB(r) = "lockp" => req[r].aff # {}
           /\ IsDrop(r) => AfterDB(r) = Outward(req[r].aff)
           /\ Outward({}) = "finish"
BY IdAssumption DEF AfterDB, Outward, IsChild, IsDrop, Phases

LEMMA WriteSound == ASSUME IInv, NEW r \in Requests, Write(r), cfg' = cfg PROVE Sound(r)
<1> DEFINE x == Target(r)
           new == Written(r, View(r, x))
           bare == ~InTx(r)
           ph == IF req[r].tx = "own" THEN "owncommit" ELSE AfterDB(r)
           q == IF bare THEN [req[r] EXCEPT !.ph = AfterDB(r), !.cur = x, !.post = new.ver, !.try = 0,
                                            !.dur = TRUE, !.told = TRUE]
                ELSE [req[r] EXCEPT !.ph = ph, !.cur = x, !.post = new.ver, !.try = 0]
<1>1. CASE Refuse(r, "404")
  BY <1>1, RefuseSound DEF Write
<1>2. CASE ~Refuse(r, "404")
  <2>1. req[r].ph = "write" /\ ~req[r].dur /\ CanLock(r, x) /\ WriterFree(r) /\ req[r].st = "none"
    BY Standing DEF Write, PastWrite
  <2>2. x \in Rows /\ x \in Nat /\ new \in RowType /\ new.ver \in Nat
    BY Types, WrittenType, IdAssumption DEF IInv, Rows
  <2>3. req' = [req EXCEPT ![r] = q]
    BY <1>2 DEF Write
  <2>4. "owncommit" \in Phases
    BY DEF Phases
  <2> HIDE DEF new
  <2>5. /\ q \in ReqType /\ q.ask = req[r].ask /\ q.tag = req[r].tag /\ q.tx = req[r].tx
        /\ q.st = req[r].st /\ q.cur = x /\ q.aff = req[r].aff
        /\ q.ph = (IF bare THEN AfterDB(r) ELSE ph)
        /\ q.dur = (IF bare THEN TRUE ELSE req[r].dur) /\ q.told = (IF bare THEN TRUE ELSE req[r].told)
    BY <2>2, <2>4, Types, After DEF IInv, ReqType, InTx
  <2> HIDE DEF q, x
  <2>6. Becomes(r, q.ph, req[r].tx, q.dur, q.told, "none") /\ req'[r] = q
    BY <2>1, <2>3, <2>5, Update DEF IInv
  <2>7. WorkOf(r)'
    <3>1. WorkOf(r)
      BY DEF IInv
    <3>2. req'[r].ph \in {"owncommit", "count", "lockp", "finish"}
      BY <2>5, <2>6, After DEF IInv
    <3>3. /\ req'[r].aff = req[r].aff /\ req'[r].cur = Target(r) /\ req'[r].tx = req[r].tx /\ req'[r].ask = req[r].ask
          /\ req'[r].ph = "owncommit" => ~req'[r].dur /\ req[r].tx = "own"
      BY <2>1, <2>5, <2>6, After DEF x, IInv
    <3>4. IsDrop(r) => req[r].aff = {} /\ req'[r].ph \in {"owncommit", "finish"}
      BY <2>1, <2>5, <2>6, <3>1, After DEF WorkOf, IInv
    <3>5. /\ req'[r].ph = "count" => Target(r) \in Children
          /\ req'[r].ph = "lockp" => req[r].aff # {}
      BY <2>5, <2>6, After DEF IInv
    <3> QED BY <2>1, <3>1, <3>2, <3>3, <3>4, <3>5 DEF WorkOf, IsDrop, Target, Ask, InTx
  <2>8. CASE InTx(r)
    <3>1. Goes(r, ph, req[r].tx) /\ ph \in {"owncommit", "count", "lockp", "finish"}
      BY <2>5, <2>6, <2>8, <2>1, After DEF Goes, Becomes, IInv
    <3>2. Stays(r, req[r].tx)
      BY <1>2, <2>1, <2>2, <2>8, HoldStays DEF Write, IInv, x, new
    <3>3. (Ask(r).tx => req[r].tx = "with") /\ req[r].tx # "none"
      BY <2>1, <2>8, Standing DEF InTx
    <3> QED BY <2>1, <2>7, <3>1, <3>2, <3>3, StaySound DEF Joined, PastScope, PastLockWhen, PastMatch, PastParent, PastWrite
  <2>9. CASE ~InTx(r)
    <3>1. row' = [row EXCEPT ![x] = new] /\ UNCHANGED <<lk, unc, hist>>
      BY <1>2, <2>9 DEF Write, x, new
    <3>2. Tables
      BY <2>2, <3>1 DEF Tables, IInv, TypeOK
    <3>3. lk[x] = None
      BY <2>1, <2>2, <2>9 DEF IInv, TxOf, CanLock
    <3>4. Apart(r)
      BY <2>1, <2>2, <2>9, <3>1, <3>3 DEF Apart, IInv, TypeOK
    <3>5. q.ph \in {"count", "lockp", "finish"} /\ q.dur = TRUE
      BY <2>5, <2>9, After DEF IInv
    <3>6. TxOf(r)'
      BY <2>6, <2>9, <3>1, <3>5 DEF TxOf, Becomes, InTx, IInv, PastScope, PastLockWhen, PastMatch, PastParent, PastWrite
    <3>7. GuardOf(r)'
      BY <2>6, <3>5 DEF GuardOf, Becomes
    <3>8. ~Ask(r).tx
      BY <2>1, <2>9, Standing DEF InTx
    <3>9. AnswerOf(r)'
      BY <2>6, <3>5, <3>8 DEF AnswerOf, Becomes, Ask, PastWrite
    <3>10. req[r].ph \in PastParent /\ req'[r].ask = req[r].ask /\ req'[r].tag = req[r].tag
      BY <2>1, <2>6 DEF Becomes, PastParent
    <3> QED BY <2>6, <2>7, <2>9, <3>2, <3>4, <3>6, <3>7, <3>9, <3>10 DEF Sound, Becomes, InTx
  <2> QED BY <2>8, <2>9
<1> QED BY <1>1, <1>2

LEMMA OwnCommitSound == ASSUME IInv, NEW r \in Requests, OwnCommit(r), cfg' = cfg PROVE Sound(r)
<1> DEFINE q == [req[r] EXCEPT !.ph = AfterDB(r), !.tx = "none", !.dur = TRUE, !.told = TRUE]
<1>1. /\ q \in ReqType /\ q.ask = req[r].ask /\ q.tag = req[r].tag /\ q.tx = "none"
      /\ q.st = req[r].st /\ q.cur = req[r].cur /\ q.aff = req[r].aff
      /\ q.ph = AfterDB(r) /\ q.dur = TRUE /\ q.told = TRUE
  BY Types, After DEF IInv, ReqType
<1>2. req' = [req EXCEPT ![r] = q] /\ Commit(r) /\ req[r].ph = "owncommit" /\ req[r].st = "none"
  BY Standing DEF OwnCommit
<1> HIDE DEF q
<1>3. Becomes(r, AfterDB(r), "none", TRUE, TRUE, "none") /\ req'[r] = q
  <2>1. Becomes(r, q.ph, q.tx, q.dur, q.told, q.st) /\ req'[r] = q
    BY <1>1, <1>2, Update DEF IInv
  <2> QED BY <1>1, <1>2, <2>1 DEF Becomes
<1>4. WorkOf(r)
  BY DEF IInv
<1>5. req[r].tx = "own" /\ req[r].aff = {} /\ req[r].cur = Target(r) /\ InTx(r)
  BY <1>2, <1>4 DEF WorkOf, InTx
<1>6. AfterDB(r) \in {"count", "finish"}
      /\ (AfterDB(r) = "count" => Target(r) \in Children /\ ~IsDrop(r))
  BY <1>5, After DEF IInv
<1>7. WorkOf(r)'
  BY <1>1, <1>2, <1>3, <1>5, <1>6 DEF WorkOf, Becomes, IsDrop, Target, Ask, InTx
<1>8. ~Ask(r).tx
  BY <1>2, <1>5, Standing
<1> QED BY <1>2, <1>3, <1>5, <1>6, <1>7, <1>8, CommitSound DEF PastWrite

-----------------------------------------------------------------------------
(* After the write *)

\* Where the request goes once a child's history is settled.
LEMMA AfterHistoryWork ==
    ASSUME IInv, NEW r \in Requests, req[r].ph \in {"count", "insert"}
    PROVE  /\ AfterHistory(r) \in Phases /\ AfterHistory(r) \in {"pre", "page", "lockp", "finish"}
           /\ AfterHistory(r) \in {"pre", "page"} => IsDrop(r) /\ InTx(r) /\ ~req[r].dur
           /\ AfterHistory(r) = "pre" => req[r].todo # {}
           /\ AfterHistory(r) = "lockp" => req[r].aff # {}
           /\ IsDrop(r) => AfterHistory(r) \in {"pre", "page"}
BY DEF IInv, WorkOf, AfterHistory, Onward, Outward, Phases

LEMMA GoAfterHistorySound ==
    ASSUME IInv, NEW r \in Requests, req[r].ph \in {"count", "insert"}, cfg' = cfg,
           Go(r, AfterHistory(r)), Stays(r, req[r].tx), \A x \in Rows : lk'[x] = lk[x]
    PROVE  Sound(r)
<1>1. Goes(r, AfterHistory(r), req[r].tx) /\ req'[r] = [req[r] EXCEPT !.ph = AfterHistory(r)]
  BY AfterHistoryWork, Going DEF IInv
<1>2. req'[r].aff = req[r].aff /\ req'[r].todo = req[r].todo /\ req'[r].cur = req[r].cur
  BY <1>1, Types DEF IInv, ReqType
<1>3. WorkOf(r)'
  BY <1>1, <1>2, AfterHistoryWork DEF Goes, Becomes, WorkOf, IsDrop, Target, Ask, InTx, IInv
<1>4. Ask(r).tx => req[r].tx = "with"
  BY Standing
<1> QED BY <1>1, <1>3, <1>4, AfterHistoryWork, StaySound DEF Joined, PastScope, PastLockWhen, PastMatch, PastParent, PastWrite

LEMMA WithoutHistorySound ==
    ASSUME IInv, NEW r \in Requests, req[r].ph \in {"count", "insert"}, cfg' = cfg, WithoutHistory(r)
    PROVE  Sound(r)
<1>1. CASE cfg.versioned = "required" \/ (InTx(r) /\ cfg.pg)
  BY <1>1, RefuseSound DEF WithoutHistory
<1>2. CASE ~(cfg.versioned = "required" \/ (InTx(r) /\ cfg.pg))
  BY <1>2, KeepsStays, GoAfterHistorySound DEF WithoutHistory, IInv
<1> QED BY <1>1, <1>2

\* A version number is a number: the history is finite.
LEMMA NextVersionSound == ASSUME IInv, NEW r \in Requests, NextVersion(r), cfg' = cfg PROVE Sound(r)
<1> DEFINE H == {h \in hist : h.row = req[r].cur /\ h.open \in {None, r}}
           n == 1 + Cardinality(H)
           q == [req[r] EXCEPT !.n = n, !.ph = "insert"]
<1>1. n \in Nat
  <2>1. IsFiniteSet(H)
    BY FS_Subset DEF TypeOK, IInv
  <2>2. Cardinality(H) \in Nat
    BY <2>1, FS_CardinalityType
  <2> QED BY <2>2
<1>2. req' = [req EXCEPT ![r] = q] /\ Keeps /\ req[r].ph = "count"
  BY DEF NextVersion
<1>3. "insert" \in Phases
  BY DEF Phases
<1> HIDE DEF n
<1>4. /\ q \in ReqType /\ q.ask = req[r].ask /\ q.tag = req[r].tag /\ q.tx = req[r].tx /\ q.ph = "insert"
      /\ q.dur = req[r].dur /\ q.told = req[r].told /\ q.st = req[r].st /\ q.aff = req[r].aff
      /\ q.todo = req[r].todo /\ q.cur = req[r].cur
  BY <1>1, <1>3, Types DEF IInv, ReqType
<1> HIDE DEF q
<1>5. Goes(r, "insert", req[r].tx) /\ req'[r] = q
  BY <1>2, <1>4, Update DEF Goes, IInv
<1>6. WorkOf(r)'
  BY <1>2, <1>4, <1>5 DEF Goes, Becomes, WorkOf, IsDrop, Target, Ask, InTx, IInv
<1>7. Stays(r, req[r].tx) /\ \A x \in Rows : lk'[x] = lk[x]
  BY <1>2, KeepsStays DEF IInv
<1>8. Ask(r).tx => req[r].tx = "with"
  BY <1>2, Standing
<1> QED BY <1>2, <1>5, <1>6, <1>7, <1>8, StaySound DEF Joined, PastScope, PastLockWhen, PastMatch, PastParent, PastWrite

LEMMA InsertHistorySound == ASSUME IInv, NEW r \in Requests, InsertHistory(r), cfg' = cfg PROVE Sound(r)
<1>1. req[r].ph = "insert"
  BY DEF InsertHistory
<1>2. CASE WithoutHistory(r)
  BY <1>1, <1>2, WithoutHistorySound
<1> DEFINE h == [row |-> req[r].cur, n |-> req[r].n, pre |-> req[r].pre, post |-> req[r].post,
                 open |-> IF InTx(r) THEN r ELSE None]
           try == req[r].try + 1
           again == [req[r] EXCEPT !.ph = "count", !.try = try]
<1>3. CASE hist' = hist \cup {h} /\ Go(r, AfterHistory(r)) /\ UNCHANGED <<row, lk, unc>>
  <2>1. h \in HistType
    BY <1>1, Types DEF IInv, WorkOf, HistType, ReqType
  <2>2. h.open = IF req[r].tx = "none" THEN None ELSE r
    BY DEF InTx
  <2> HIDE DEF h
  <2>3. hist' \subseteq HistType /\ IsFiniteSet(hist')
    BY <1>3, <2>1, FS_AddElement DEF IInv, TypeOK
  <2>4. Stays(r, req[r].tx) /\ \A x \in Rows : lk'[x] = lk[x]
    BY <1>3, <2>2, <2>3 DEF Stays, IInv, TypeOK
  <2> QED BY <1>1, <1>3, <2>4, GoAfterHistorySound
<1>4. CASE req' = [req EXCEPT ![r] = again] /\ Keeps
  <2>1. "count" \in Phases
    BY DEF Phases
  <2>5. try \in Nat
    BY Types DEF IInv, ReqType
  <2> HIDE DEF try
  <2>2. /\ again \in ReqType /\ again.ask = req[r].ask /\ again.tag = req[r].tag /\ again.tx = req[r].tx
        /\ again.ph = "count" /\ again.dur = req[r].dur /\ again.told = req[r].told /\ again.st = req[r].st
        /\ again.aff = req[r].aff /\ again.todo = req[r].todo /\ again.cur = req[r].cur
    BY <2>1, <2>5, Types DEF IInv, ReqType
  <2> HIDE DEF again
  <2>3. Goes(r, "count", req[r].tx) /\ req'[r] = again
    BY <1>1, <1>4, <2>2, Update DEF Goes, IInv
  <2>4. WorkOf(r)'
    BY <1>1, <2>2, <2>3 DEF Goes, Becomes, WorkOf, IsDrop, Target, Ask, InTx, IInv
  <2>7. Stays(r, req[r].tx) /\ \A x \in Rows : lk'[x] = lk[x]
    BY <1>4, KeepsStays DEF IInv
  <2>6. Ask(r).tx => req[r].tx = "with"
    BY <1>1, Standing
  <2> QED BY <1>1, <2>3, <2>4, <2>6, <2>7, StaySound DEF Joined, PastScope, PastLockWhen, PastMatch, PastParent, PastWrite
<1> QED BY <1>2, <1>3, <1>4 DEF InsertHistory

\* The next parent of a rollup is a row.
LEMMA NextParentRow ==
    ASSUME TypeOK, NEW r \in Requests, req[r].aff # {}
    PROVE  NextParent(r) \in Parents /\ NextParent(r) \in Rows
<1>1. req[r].aff \in SUBSET Parents
  BY Types DEF ReqType
<1>2. req[r].aff \in SUBSET Nat
  BY <1>1, IdAssumption
<1> QED BY <1>1, <1>2, LeastMember DEF NextParent, Rows

\* One parent is dealt with: the next one, or what follows the rollups.
TotalDone(r, p) ==
    req' = [req EXCEPT ![r] = [@ EXCEPT !.aff = req[r].aff \ {p}, !.ph = AfterTotals(r, req[r].aff \ {p})]]
LEMMA TotalDoneSound ==
    ASSUME IInv, NEW r \in Requests, NEW p, req[r].ph \in {"lockp", "store"}, cfg' = cfg,
           TotalDone(r, p), Stays(r, req[r].tx)
    PROVE  Sound(r)
<1> DEFINE rest == req[r].aff \ {p}
           ph == AfterTotals(r, rest)
           q == [req[r] EXCEPT !.aff = rest, !.ph = ph]
<1>1. InTx(r) /\ WorkOf(r) /\ (IsDrop(r) \/ req[r].tx = "with")
  BY DEF IInv, WorkOf
<1>2. (Ask(r).tx => req[r].tx = "with") /\ req[r].tx # "none"
  BY <1>1, Standing DEF InTx
<1>3. /\ ph \in {"lockp", "write", "finish"} /\ ph \in Phases
      /\ ph = "lockp" <=> rest # {}
      /\ ph = "finish" => ~IsDrop(r)
      /\ ph = "write" => IsDrop(r) /\ rest = {}
  BY DEF AfterTotals, Phases
<1>4. rest \in SUBSET Parents
  BY Types DEF IInv, ReqType
<1>5. req' = [req EXCEPT ![r] = q]
  BY DEF TotalDone
<1> HIDE DEF rest, ph
<1>6. /\ q \in ReqType /\ q.ask = req[r].ask /\ q.tag = req[r].tag /\ q.tx = req[r].tx /\ q.ph = ph
      /\ q.dur = req[r].dur /\ q.told = req[r].told /\ q.st = req[r].st /\ q.aff = rest
      /\ q.todo = req[r].todo /\ q.cur = req[r].cur
  BY <1>3, <1>4, Types DEF IInv, ReqType
<1> HIDE DEF q
<1>7. Goes(r, ph, req[r].tx) /\ req'[r] = q
  BY <1>5, <1>6, Update DEF Goes, IInv
<1>8. WorkOf(r)'
  BY <1>1, <1>3, <1>6, <1>7 DEF Goes, Becomes, WorkOf, IsDrop, Target, Ask, InTx
<1>9. IsDrop(r) => ~req[r].dur
  BY <1>1 DEF WorkOf
<1> QED BY <1>1, <1>2, <1>3, <1>7, <1>8, <1>9, StaySound DEF Joined, PastScope, PastLockWhen, PastMatch, PastParent, PastWrite

LEMMA LockParentSound == ASSUME IInv, NEW r \in Requests, LockParent(r), cfg' = cfg PROVE Sound(r)
<1> DEFINE p == NextParent(r)
           rest == req[r].aff \ {p}
<1>1. /\ req[r].ph = "lockp" /\ CanLock(r, p) /\ InTx(r) /\ req[r].aff # {} /\ WorkOf(r)
      /\ (IsDrop(r) \/ req[r].tx = "with")
  BY DEF LockParent, IInv, WorkOf
<1>2. p \in Rows
  BY <1>1, NextParentRow DEF IInv
<1>3. (Ask(r).tx => req[r].tx = "with") /\ req[r].tx # "none"
  BY <1>1, Standing DEF InTx
<1>4. CASE Refuse(r, "500")
  BY <1>1, <1>4, RefuseSound
<1>5. CASE ForUpdate(r, p) /\ Go(r, "sum") /\ UNCHANGED <<row, hist>>
  <2>1. "sum" \in Phases
    BY DEF Phases
  <2> HIDE DEF p
  <2>2. Goes(r, "sum", req[r].tx) /\ req'[r] = [req[r] EXCEPT !.ph = "sum"]
    BY <1>5, <2>1, Going DEF IInv
  <2>3. req'[r].aff = req[r].aff /\ req'[r].todo = req[r].todo /\ req'[r].cur = req[r].cur
    BY <2>2, Types DEF IInv, ReqType
  <2>4. WorkOf(r)'
    BY <1>1, <2>2, <2>3 DEF Goes, Becomes, WorkOf, IsDrop, Target, Ask, InTx
  <2>5. Stays(r, req[r].tx)
    BY <1>1, <1>2, <1>5, ForUpdateStays DEF IInv
  <2> QED BY <1>1, <1>3, <2>2, <2>4, <2>5, StaySound DEF Joined, PastScope, PastLockWhen, PastMatch, PastParent, PastWrite
<1>6. CASE Keeps /\ req' = [req EXCEPT ![r] = [@ EXCEPT !.aff = rest, !.ph = AfterTotals(r, rest)]]
  <2>1. TotalDone(r, p)
    BY <1>6 DEF TotalDone
  <2> HIDE DEF p
  <2> QED BY <1>1, <1>6, <2>1, KeepsStays, TotalDoneSound DEF IInv
<1> QED BY <1>4, <1>5, <1>6 DEF LockParent

LEMMA AggregateSound == ASSUME IInv, NEW r \in Requests, Aggregate(r), cfg' = cfg PROVE Sound(r)
<1> DEFINE n == Cardinality(ChildrenOf(r, NextParent(r)))
           q == [req[r] EXCEPT !.n = n, !.ph = "store"]
<1>1. n \in Nat
  <2>1. ChildrenOf(r, NextParent(r)) \subseteq Children
    BY DEF ChildrenOf
  <2> QED BY <2>1, IdAssumption, FS_Subset, FS_CardinalityType
<1>2. "store" \in Phases
  BY DEF Phases
<1>3. req' = [req EXCEPT ![r] = q] /\ Keeps /\ req[r].ph = "sum" /\ WorkOf(r)
  BY DEF Aggregate, IInv
<1> HIDE DEF n
<1>4. /\ q \in ReqType /\ q.ask = req[r].ask /\ q.tag = req[r].tag /\ q.tx = req[r].tx /\ q.ph = "store"
      /\ q.dur = req[r].dur /\ q.told = req[r].told /\ q.st = req[r].st /\ q.aff = req[r].aff
      /\ q.todo = req[r].todo /\ q.cur = req[r].cur
  BY <1>1, <1>2, Types DEF IInv, ReqType
<1> HIDE DEF q
<1>5. Goes(r, "store", req[r].tx) /\ req'[r] = q
  BY <1>3, <1>4, Update DEF Goes, IInv
<1>6. WorkOf(r)'
  BY <1>3, <1>4, <1>5 DEF Goes, Becomes, WorkOf, IsDrop, Target, Ask, InTx
<1>7. Stays(r, req[r].tx) /\ \A x \in Rows : lk'[x] = lk[x]
  BY <1>3, KeepsStays DEF IInv
<1>8. Ask(r).tx => req[r].tx = "with"
  BY <1>3, Standing
<1> QED BY <1>3, <1>5, <1>6, <1>7, <1>8, StaySound DEF Joined, PastScope, PastLockWhen, PastMatch, PastParent, PastWrite

LEMMA StoreTotalSound == ASSUME IInv, NEW r \in Requests, StoreTotal(r), cfg' = cfg PROVE Sound(r)
<1> DEFINE p == NextParent(r)
           image == [View(r, p) EXCEPT !.total = req[r].n, !.ver = View(r, p).ver + 1]
<1>1. req[r].ph = "store" /\ CanLock(r, p) /\ req[r].aff # {}
  BY DEF StoreTotal, IInv, WorkOf
<1>2. p \in Rows
  BY <1>1, NextParentRow DEF IInv
<1>3. image \in RowType
  <2>1. View(r, p) \in RowType
    BY <1>2, Types DEF IInv
  <2>2. req[r].n \in Nat /\ View(r, p).ver + 1 \in Nat
    BY <2>1, Types DEF IInv, ReqType, RowType
  <2> QED BY <2>1, <2>2, RowTotal
<1>4. Hold(r, p, image) /\ UNCHANGED <<row, hist>>
      /\ TotalDone(r, p)
  BY DEF StoreTotal, TotalDone
<1> HIDE DEF p, image
<1>5. Stays(r, req[r].tx)
  BY <1>1, <1>2, <1>3, <1>4, HoldStays DEF IInv
<1> QED BY <1>1, <1>4, <1>5, TotalDoneSound

LEMMA FinishSound == ASSUME IInv, NEW r \in Requests, Finish(r), cfg' = cfg PROVE Sound(r)
<1> DEFINE q == [req[r] EXCEPT !.ph = "done", !.st = "2xx", !.tx = "none", !.dur = TRUE, !.told = TRUE]
<1>1. "done" \in Phases
  BY DEF Phases
<1>2. /\ q \in ReqType /\ q.ask = req[r].ask /\ q.tag = req[r].tag /\ q.tx = "none" /\ q.ph = "done"
      /\ q.dur = TRUE /\ q.told = TRUE /\ q.st = "2xx"
  BY <1>1, Types DEF IInv, ReqType
<1>3. req' = [req EXCEPT ![r] = q] /\ req[r].ph = "finish"
  BY DEF Finish
<1> HIDE DEF q
<1>4. Becomes(r, "done", "none", TRUE, TRUE, "2xx") /\ req'[r] = q
  <2>1. Becomes(r, q.ph, q.tx, q.dur, q.told, q.st) /\ req'[r] = q
    BY <1>2, <1>3, Update DEF IInv
  <2> QED BY <1>2, <2>1 DEF Becomes
<1>5. WorkOf(r)'
  BY <1>4 DEF WorkOf, Becomes, IsDrop, Target, Ask
<1>6. CASE InTx(r)
  BY <1>3, <1>4, <1>5, <1>6, CommitSound DEF Finish, PastWrite
<1>7. CASE ~InTx(r)
  <2>1. Stays(r, "none") /\ \A x \in Rows : lk'[x] = lk[x]
    BY <1>7, KeepsStays DEF Finish, IInv
  <2>2. Keeps
    BY <1>7 DEF Finish
  <2>3. Tables /\ Apart(r)
    BY <2>2 DEF Keeps, Tables, Apart, IInv, TypeOK
  <2>4. TxOf(r)'
    BY <1>4, <1>7, <2>2 DEF TxOf, Becomes, InTx, Keeps, IInv
  <2>5. GuardOf(r)' /\ AnswerOf(r)'
    BY <1>4 DEF GuardOf, AnswerOf, Becomes, Ask
  <2>6. req[r].ph \in PastParent /\ req'[r].ask = req[r].ask /\ req'[r].tag = req[r].tag
    BY <1>3, <1>4 DEF Becomes, PastParent, PastWrite
  <2> QED BY <1>4, <1>5, <2>3, <2>4, <2>5, <2>6 DEF Sound, Becomes, InTx
<1> QED BY <1>6, <1>7

LEMMA CommitLostSound == ASSUME IInv, NEW r \in Requests, CommitLost(r), cfg' = cfg PROVE Sound(r)
<1> DEFINE q == [req[r] EXCEPT !.ph = "done", !.st = "lost", !.tx = "none", !.dur = TRUE]
<1>1. "done" \in Phases
  BY DEF Phases
<1>2. /\ q \in ReqType /\ q.ask = req[r].ask /\ q.tag = req[r].tag /\ q.tx = "none" /\ q.ph = "done"
      /\ q.dur = TRUE /\ q.told = req[r].told /\ q.st = "lost"
  BY <1>1, Types DEF IInv, ReqType
<1>3. req' = [req EXCEPT ![r] = q] /\ req[r].ph = "finish" /\ InTx(r) /\ Commit(r)
  BY DEF CommitLost
<1> HIDE DEF q
<1>4. Becomes(r, "done", "none", TRUE, q.told, "lost") /\ req'[r] = q
  <2>1. Becomes(r, q.ph, q.tx, q.dur, q.told, q.st) /\ req'[r] = q
    BY <1>2, <1>3, Update DEF IInv
  <2> QED BY <1>2, <2>1 DEF Becomes
<1>5. WorkOf(r)'
  BY <1>4 DEF WorkOf, Becomes, IsDrop, Target, Ask
<1> QED BY <1>3, <1>4, <1>5, CommitSound DEF PastWrite

-----------------------------------------------------------------------------
(* The invariant *)

LEMMA ProgressSound ==
    ASSUME IInv, NEW r \in Requests, Progress(r), cfg' = cfg
    PROVE  Sound(r)
<1>1. CASE DeadlockVictim(r)
  <2>1. req[r].ph # "done"
    <3>1. Blocker(r) \in Requests
      BY <1>1 DEF DeadlockVictim, Deadlocked
    <3>2. Needs(r) # None
      BY <3>1, NoneAssumption DEF Blocker
    <3> QED BY <3>2 DEF Needs
  <2> QED BY <1>1, <2>1, RefuseSound DEF DeadlockVictim
<1> QED BY <1>1, SendSound, ValidateSound, WithTransactionSound, AffectedSound, CaptureImageSound,
           EnforceWriteScopeSound, LockWhenSound, EnforceOptimisticLockSound, EnforceParentScopeSound,
           CascadeRestrictSound, EachChildIdSound, CascadePreImageSound, CascadeWriteSound,
           LockScopeSound, WriteSound, OwnCommitSound, NextVersionSound, InsertHistorySound,
           LockParentSound, AggregateSound, StoreTotalSound, FinishSound DEF Progress

LEMMA FaultSound ==
    ASSUME IInv, NEW r \in Requests, Fail(r) \/ FailHistory(r) \/ CommitLost(r), cfg' = cfg
    PROVE  Sound(r) /\ faults' \in 0..MaxFaults
<1>1. faults' \in 0..MaxFaults
  BY BoundAssumption DEF Fail, FailHistory, CommitLost, IInv, TypeOK
<1>2. CASE Fail(r)
  BY <1>1, <1>2, RefuseSound DEF Fail
<1>3. CASE FailHistory(r)
  BY <1>1, <1>3, WithoutHistorySound DEF FailHistory
<1>4. CASE CommitLost(r)
  BY <1>1, <1>4, CommitLostSound
<1> QED BY <1>2, <1>3, <1>4

LEMMA NextInv == IInv /\ [Next]_vars => IInv'
<1>1. ASSUME IInv, NEW r \in Requests, Step(r) PROVE IInv'
  <2>1. Sound(r) /\ cfg' = cfg /\ faults' \in 0..MaxFaults
    BY <1>1, ProgressSound DEF Step, IInv, TypeOK
  <2> QED BY <1>1, <2>1, SoundStep
<1>2. ASSUME IInv, NEW r \in Requests, Fault(r) PROVE IInv'
  BY <1>2, FaultSound, SoundStep DEF Fault
<1>3. ASSUME IInv, UNCHANGED vars PROVE IInv'
  BY <1>3 DEF vars, IInv, TypeOK, OneWriter, WorkOf, TxOf, GuardOf, AnswerOf, MatchGuard, ScopeGuard,
              ParentGuard, LockGuard, InTx, IsDrop, IsChild, Target, Ask, WritesFk, CheckedInTx, CheckedEarly
<1> QED BY <1>1, <1>2, <1>3 DEF Next

LEMMA InitInv == Init => IInv
<1> SUFFICES ASSUME Init PROVE IInv
  OBVIOUS
<1>1. \A r \in Requests : /\ req[r] \in ReqType /\ req[r].ph = "new" /\ req[r].tx = "none" /\ req[r].aff = {}
                           /\ req[r].dur = FALSE /\ req[r].told = FALSE /\ req[r].st = "none"
  <2>1. SUFFICES ASSUME NEW r \in Requests
                 PROVE /\ req[r] \in ReqType /\ req[r].ph = "new" /\ req[r].tx = "none" /\ req[r].aff = {}
                       /\ req[r].dur = FALSE /\ req[r].told = FALSE /\ req[r].st = "none"
    OBVIOUS
  <2>2. req[r].ask \in AskType
    BY InstanceAssumption DEF Init
  <2>3. req[r] \in [ph : {"new"}, ask : UNION {Asks[o] : o \in Requests}, tag : {0},
                    aff : {{}}, pre : {0}, post : {0}, todo : {{}}, walked : {{}}, cur : {0},
                    n : {0}, try : {0}, tx : {"none"}, dur : {FALSE}, told : {FALSE}, st : {"none"}]
    BY DEF Init
  <2>4. "new" \in Phases
    BY DEF Phases
  <2>5. /\ req[r].ph = "new" /\ req[r].tx = "none" /\ req[r].aff = {}
        /\ req[r].dur = FALSE /\ req[r].told = FALSE /\ req[r].st = "none"
    BY <2>3
  <2>6. req[r] = [ph |-> "new", ask |-> req[r].ask, tag |-> 0, aff |-> {}, pre |-> 0, post |-> 0, todo |-> {},
                  walked |-> {}, cur |-> 0, n |-> 0, try |-> 0, tx |-> "none", dur |-> FALSE,
                  told |-> FALSE, st |-> "none"]
    BY <2>3
  <2>7. req[r] \in ReqType
    <3>1. \A a \in AskType :
            [ph |-> "new", ask |-> a, tag |-> 0, aff |-> {}, pre |-> 0, post |-> 0, todo |-> {},
             walked |-> {}, cur |-> 0, n |-> 0, try |-> 0, tx |-> "none", dur |-> FALSE,
             told |-> FALSE, st |-> "none"] \in ReqType
      BY <2>4 DEF ReqType
    <3> HIDE DEF ReqType
    <3> QED BY <2>2, <2>6, <3>1
  <2> QED BY <2>5, <2>7
<1>2. hist \subseteq HistType /\ IsFiniteSet(hist)
  <2> DEFINE past(c, k) == [row |-> c, n |-> k, pre |-> k - 1, post |-> k, open |-> None]
             of(c) == {past(c, k) : k \in 1..InitRow[c].ver}
             each == {of(c) : c \in Children}
  <2>1. hist = UNION each
    BY DEF Init
  <2>2. ASSUME NEW c \in Children PROVE of(c) \subseteq HistType /\ IsFiniteSet(of(c))
    <3> DEFINE S == 1..InitRow[c].ver
               f == [k \in S |-> past(c, k)]
    <3>1. InitRow[c].ver \in Nat
      BY InstanceAssumption DEF Rows, RowType
    <3>2. IsFiniteSet(S)
      BY <3>1, FS_Interval
    <3>3. of(c) \subseteq HistType
      BY <3>1 DEF HistType
    <3>4. f \in [S -> of(c)] /\ \A h \in of(c) : \E k \in S : f[k] = h
      OBVIOUS
    <3>5. f \in Surjection(S, of(c))
      BY <3>4 DEF Surjection
    <3> HIDE DEF f, S, of
    <3> QED BY <3>2, <3>3, <3>5, FS_Surjection
  <2>3. IsFiniteSet(each)
    <3> DEFINE f == [c \in Children |-> of(c)]
    <3> HIDE DEF of
    <3>1. f \in [Children -> each] /\ \A h \in each : \E c \in Children : f[c] = h
      OBVIOUS
    <3>2. f \in Surjection(Children, each)
      BY <3>1 DEF Surjection
    <3> HIDE DEF f, each
    <3> QED BY <3>2, IdAssumption, FS_Surjection
  <2> HIDE DEF of
  <2>4. IsFiniteSet(UNION each)
    <3>1. \A S \in each : IsFiniteSet(S)
      BY <2>2
    <3> HIDE DEF each
    <3> QED BY <2>3, <3>1, FS_UNION
  <2> QED BY <2>1, <2>2, <2>4
<1>3. TypeOK
  <2>1. req \in [Requests -> ReqType]
    BY <1>1 DEF Init
  <2> QED BY <1>2, <2>1, BoundAssumption, InstanceAssumption DEF TypeOK, Init
<1>4. ASSUME NEW r \in Requests PROVE WorkOf(r) /\ TxOf(r) /\ GuardOf(r) /\ AnswerOf(r)
  <2>1. (\A x \in Rows : lk[x] # r) /\ (\A h \in hist : h.open # r)
    BY NoneAssumption DEF Init
  <2>2. WorkOf(r) /\ TxOf(r) /\ AnswerOf(r)
    BY <1>1, <2>1 DEF WorkOf, TxOf, AnswerOf, InTx, Init
  <2>3. GuardOf(r)
    BY <1>1 DEF GuardOf, MatchGuard, ScopeGuard, ParentGuard, LockGuard, PastScope, PastLockWhen, PastMatch, PastParent, PastWrite
  <2> QED BY <2>2, <2>3
<1>5. OneWriter
  BY <1>1 DEF OneWriter, InTx
<1> QED BY <1>3, <1>4, <1>5 DEF IInv

\* In every reachable state locks, transactions, guards and answers are as the code relies on them:
\* one writer on SQLite, no lock without a running transaction, and what a guard saw still true
\* until the request's own commit (steps.go:1217, 1249).
THEOREM Invariant == Spec => []IInv
BY InitInv, NextInv, PTL DEF Spec

-----------------------------------------------------------------------------
(* What a write lands on *)

\* The step in which a write becomes durable is its own, and it stood where its guards had let it through.
LEMMA Landing ==
    ASSUME IInv, [Next]_vars, NEW r \in Requests, Lands(r)
    PROVE  req[r].ph \in PastParent /\ ~req[r].dur
<1>1. ~req[r].dur /\ req[r] # req'[r]
  BY DEF Lands
<1>2. ASSUME NEW o \in Requests, Step(o) \/ Fault(o) PROVE Sound(o)
  BY <1>2, ProgressSound, FaultSound DEF Step, Fault
<1>3. PICK o \in Requests : Step(o) \/ Fault(o)
  BY <1>1 DEF Next, vars
<1>4. Sound(o) /\ o = r
  BY <1>1, <1>2, <1>3 DEF Sound
<1> QED BY <1>1, <1>4 DEF Sound

\* A write accepted under If-Match replaces the representation its client read (steps.go:1217).
THEOREM WritesDoNotOverwrite == Spec => NoLostUpdate
<1>1. ASSUME IInv, [Next]_vars, NEW r \in Requests, Lands(r), Ask(r).im = "tag", Ask(r).op # "create"
      PROVE  row[Target(r)].ver = req[r].tag
  BY <1>1, Landing DEF IInv, GuardOf, MatchGuard, PastMatch
<1>2. IInv /\ [Next]_vars =>
        [\A r \in Requests :
           (Lands(r) /\ Ask(r).im = "tag" /\ Ask(r).op # "create") => row[Target(r)].ver = req[r].tag]_vars
  BY <1>1
<1> QED BY <1>2, Invariant, PTL DEF Spec, NoLostUpdate

\* On SQLite a scoped write lands on a row of its scope, under a parent of its scope (steps.go:1249).
THEOREM ScopedWritesLandInScope == Spec => ScopeHeld
<1>1. ASSUME IInv, [Next]_vars, NEW r \in Requests, Lands(r), Ask(r).scope # None, ~cfg.pg
      PROVE  /\ Ask(r).op # "create" => row[Target(r)].owner = Ask(r).scope
             /\ WritesFk(r) => row[Ask(r).fk].alive /\ row[Ask(r).fk].owner = Ask(r).scope
  BY <1>1, Landing DEF IInv, GuardOf, ScopeGuard, ParentGuard, PastScope, PastLockWhen, PastMatch
<1>2. IInv /\ [Next]_vars =>
        [\A r \in Requests :
           (Lands(r) /\ Ask(r).scope # None /\ ~cfg.pg) =>
               /\ Ask(r).op # "create" => row[Target(r)].owner = Ask(r).scope
               /\ (IsChild(r) /\ WritesFk(r)) =>
                      row[Ask(r).fk].alive /\ row[Ask(r).fk].owner = Ask(r).scope]_vars
  BY <1>1
<1> QED BY <1>2, Invariant, PTL DEF Spec, ScopeHeld

\* On SQLite a write checked in its own transaction never lands on a locked record (steps.go:1084).
THEOREM LockedRecordsStay == Spec => LockRespected
<1>1. ASSUME IInv, [Next]_vars, NEW r \in Requests, Lands(r), CheckedInTx(r), ~cfg.pg
      PROVE  ~(row[Target(r)].alive /\ row[Target(r)].locked)
  BY <1>1, Landing DEF IInv, GuardOf, LockGuard, PastLockWhen, PastMatch
<1>2. IInv /\ [Next]_vars =>
        [\A r \in Requests :
           (Lands(r) /\ CheckedInTx(r) /\ ~cfg.pg) =>
               ~(row[Target(r)].alive /\ row[Target(r)].locked)]_vars
  BY <1>1
<1> QED BY <1>2, Invariant, PTL DEF Spec, LockRespected

\* Success and a fired commit hook mean a durable write, a refused transaction left nothing
\* (transaction.go:54; steps.go:2372).
THEOREM AnswersAreTrue == Spec => []AnswerIsTrue
<1>1. IInv => AnswerIsTrue
  BY DEF IInv, AnswerOf, TxOf, AnswerIsTrue, InTx, PastMatch, PastParent, PastWrite
<1> QED BY <1>1, Invariant, PTL
=============================================================================
