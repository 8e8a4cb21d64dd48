---------------------------- MODULE MCAskSession ----------------------------
(* A small instance of AskSession: one version of the project asked about, *)
(* and one that it shares with another project.                            *)
EXTENDS AskSession

CONSTANTS v1, v2, home, other

MCVersions == {v1, v2}
MCProjects == {home, other}
MCProjectsOf == [v \in Version |-> IF v = v1 THEN {home} ELSE {home, other}]

MCPlain(m) == [mode |-> m, select |-> FALSE, rerank |-> FALSE,
               expand |-> FALSE, attribute |-> FALSE]
MCSettings == {MCPlain("claims"),
               [MCPlain("cite") EXCEPT !.select = TRUE],
               [MCPlain("prose") EXCEPT !.rerank = TRUE, !.expand = TRUE],
               [MCPlain("prose") EXCEPT !.attribute = TRUE]}
MCWorst == [j \in Job |-> IF j \in {"answer", "prose", "select", "attribute"}
                          THEN 1 ELSE 2]
\* Free, or more than the worst case of some jobs; it may cost that as well.
MCCost == {0, 2}
=============================================================================
