------------------------------ MODULE MCWrites ------------------------------
EXTENDS Writes

CONSTANTS r1, r2, t1, t2

Base == [alive |-> TRUE, fk |-> None, owner |-> t1, locked |-> FALSE, ver |-> 1, total |-> 0]
\* Children 1 and 2 belong to the parents 11 and 12; 3 is still to be created.
Found == [x \in {1, 2, 3, 11, 12} |->
            CASE x = 1 -> [Base EXCEPT !.fk = 11]
              [] x = 2 -> [Base EXCEPT !.fk = 12]
              [] x = 3 -> [Base EXCEPT !.alive = FALSE, !.ver = 0, !.owner = None]
              [] x \in {11, 12} -> [Base EXCEPT !.total = 1]]

A(op, x) == [op |-> op, row |-> x, fk |-> Keep, own |-> Keep, lock |-> FALSE,
             im |-> "no", scope |-> None, tx |-> TRUE]

Creates == {[A("create", 3) EXCEPT !.fk = 11, !.own = t1], [A("create", 3) EXCEPT !.own = t1],
            [A("create", 3) EXCEPT !.fk = 12, !.scope = t1],
            [A("create", 3) EXCEPT !.fk = 11, !.own = t1, !.tx = FALSE],
            [A("create", 3) EXCEPT !.fk = 11, !.scope = t1, !.tx = FALSE]}
Updates == {A("update", 1), [A("update", 1) EXCEPT !.im = "tag"],
            [A("update", 1) EXCEPT !.lock = TRUE], [A("update", 1) EXCEPT !.own = t2],
            [A("update", 1) EXCEPT !.scope = t1, !.im = "tag", !.tx = FALSE],
            [A("update", 1) EXCEPT !.tx = FALSE], [A("update", 1) EXCEPT !.scope = t1, !.tx = FALSE]}
Moved == {[A("update", 1) EXCEPT !.fk = 12], [A("update", 1) EXCEPT !.fk = 12, !.scope = t1]}
MovedBack == {[A("update", 2) EXCEPT !.fk = 11], [A("update", 2) EXCEPT !.fk = 11, !.im = "tag", !.scope = t1]}
Deletes == {A("delete", 1), [A("delete", 1) EXCEPT !.im = "any", !.scope = t1]}
Drops == {[A("delete", 11) EXCEPT !.tx = FALSE], [A("delete", 11) EXCEPT !.im = "tag"],
          [A("delete", 11) EXCEPT !.scope = t1]}
Renames == {[A("update", 11) EXCEPT !.im = "tag", !.tx = FALSE], [A("update", 11) EXCEPT !.own = t2, !.tx = FALSE]}

Menu == [r \in {r1, r2} |->
           IF r = r1 THEN Creates \cup Updates \cup Moved \cup Deletes \cup {A("delete", 11)}
           ELSE Updates \cup MovedBack \cup Deletes \cup Drops \cup Renames]

C == [pg |-> FALSE, rollup |-> TRUE, versioned |-> "required", onDelete |-> "setNull",
      hoisted |-> FALSE, lockScope |-> FALSE]
Systems == {C, [C EXCEPT !.pg = TRUE],
            [C EXCEPT !.pg = TRUE, !.onDelete = "cascade", !.versioned = "yes"],
            [C EXCEPT !.rollup = FALSE, !.versioned = "yes", !.hoisted = TRUE, !.onDelete = "cascade"],
            [C EXCEPT !.pg = TRUE, !.rollup = FALSE, !.onDelete = "cascade"],
            [C EXCEPT !.pg = TRUE, !.rollup = FALSE, !.versioned = "no", !.onDelete = "restrict",
                      !.lockScope = TRUE]}
=============================================================================
