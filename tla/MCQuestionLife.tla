--------------------------- MODULE MCQuestionLife ---------------------------
(* Small instances of QuestionLife. *)
EXTENDS QuestionLife, TLC

CONSTANTS q1, q2, q3, b1, b2, i1, i2, home, other, w1, w2, o1, o2, all

MCTwo == {q1, q2}
MCBatches == {b1, b2}
MCItems == {i1, i2}
MCProjects == {home, other}

\* q1 closes i2 in favour of i1, q2 closes i1 in favour of i2.
MCSubjects == [q \in Question |-> {i1, i2}]
MCCloses == [q \in Question |-> IF q = q1 THEN {i2} ELSE {i1}]
MCClash == {<<q1, q2>>}
MCRank == [q \in Question |-> IF q = q1 THEN 1 ELSE IF q = q2 THEN 2 ELSE 3]
MCRecorded == [q \in Question |-> IF q = q1 THEN {home} ELSE {home, other}]
MCNone == {}
MCScopes == {{home}, {home, other}}
MCAllDecisions == {[scope |-> all, role |-> 2], [scope |-> all, role |-> 0]}
MCLiveDecisions == {[scope |-> all, role |-> 2], [scope |-> home, role |-> 0]}
MCHome == [q \in Question |-> {home}]
MCOneScope == {{home}}
MCBoth == [q \in Question |-> {i1}]
MCAlike == Permutations({o1, o2}) \union Permutations({b1, b2})
=============================================================================
