---------------------------- MODULE MCFileFields ----------------------------
(* Constant values for FileFields: record x holds one file, y a list; z,   *)
(* whose field is nullable, does not exist yet.                            *)
EXTENDS FileFields, TLC

CONSTANTS x, y, z, r1, r2, k0, k1, n1, n2

HadKeys == x :> {k0} @@ y :> {k1} @@ z :> {}
KeyOf == [r \in Requests |-> IF r = r1 THEN n1 ELSE n2]

Asking(op, how, w, match, tx) ==
  [op |-> op, how |-> how, row |-> w, match |-> match, tx |-> tx]
Ways(op, how, w) == {Asking(op, how, w, FALSE, FALSE), Asking(op, how, w, TRUE, FALSE),
                     Asking(op, how, w, FALSE, TRUE)}

\* One request of each kind, with and without If-Match and WithTransaction.
Menu ==
  Ways("update", "upload", x) \cup Ways("delete", "clear", y)
  \cup {Asking("update", "stream", x, FALSE, FALSE), Asking("update", "refer", x, TRUE, FALSE),
        Asking("update", "refer", y, FALSE, FALSE), Asking("update", "refer", y, TRUE, FALSE),
        Asking("update", "clear", z, TRUE, TRUE), Asking("delete", "clear", z, TRUE, FALSE),
        Asking("create", "stream", z, FALSE, FALSE), Asking("create", "refer", z, FALSE, TRUE)}

\* Nullable fields that requests set to null, or whose record they delete.
Clears == {Asking("update", "clear", x, TRUE, FALSE), Asking("delete", "clear", x, TRUE, FALSE)}
=============================================================================
