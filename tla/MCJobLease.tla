----------------------------- MODULE MCJobLease -----------------------------
(* Two processes with one slot each, one of them an observer.  The more     *)
(* urgent of the two jobs is an apply_batch, which the observer passes by.  *)
EXTENDS JobLease, TLC

CONSTANTS j1, j2, p1, p2, s1, s2, t1, t2, t3, t4

MCJobs == {j1, j2}
MCProc == {p1, p2}
MCSlots == {s1, s2}
MCProcOf == (s1 :> p1 @@ s2 :> p2)
MCToken == {t1, t2, t3, t4}
MCPriority == (j1 :> 2 @@ j2 :> 1)
MCUnknown == {}
MCApply == {j2}
MCObserver == {p1}
=============================================================================
