---------------------------- MODULE MCSpendGuard ----------------------------
(* Two calls and a sweeper; the hour changes at time 1, all in one day and *)
(* month.                                                                  *)
EXTENDS SpendGuard, TLC

CONSTANTS c1, c2, w1, h0, h1, d0, m0

MCCalls == {c1, c2}
MCSweepers == {w1}
MCWindows == {h0, h1, d0, m0}
MCRank == (c1 :> 1 @@ c2 :> 2)
MCWorst == (c1 :> 2 @@ c2 :> 1)
\* c1 may cost less than its worst case, c2 more
MCActual == (c1 :> {0} @@ c2 :> {2})
MCCaps == {[hour |-> 2, day |-> 3, month |-> 4], [hour |-> 3, day |-> 3, month |-> 3]}
MCStartOf == [t \in Time |-> [hour |-> IF t = 0 THEN h0 ELSE h1, day |-> d0, month |-> m0]]
MCTheRow == <<"day", d0>>
=============================================================================
