----------------------------- MODULE JobPromise -----------------------------
(***************************************************************************)
(* What the job queue promises to the rest of HLMemo, with no leases, no   *)
(* workers and no retries: a job that was enqueued is pending until it     *)
(* ends, once, either done or failed, and it does end if some process may  *)
(* work on it.                                                             *)
(***************************************************************************)
CONSTANTS
  Job,
  Owed   \* the jobs that some process may work on

VARIABLE outcome   \* what the event log says of each job

Outcome == {"absent", "pending", "done", "failed"}

Init == outcome = [j \in Job |-> "absent"]

Enqueue(j) ==
  /\ outcome[j] = "absent"
  /\ outcome' = [outcome EXCEPT ![j] = "pending"]

End(j) ==
  /\ outcome[j] = "pending"
  /\ \E o \in {"done", "failed"} : outcome' = [outcome EXCEPT ![j] = o]

Next == \E j \in Job : Enqueue(j) \/ End(j)

SafeSpec == Init /\ [][Next]_outcome

Spec == SafeSpec /\ \A j \in Owed : WF_outcome(End(j))
=============================================================================
