---------------------------- MODULE EmbedPromise ----------------------------
(***************************************************************************)
(* What semantic search may rely on, with no queue and no workers: the     *)
(* vectors of a version appear all at once, they stay, and every version   *)
(* is embedded or given up in the end.  Only a rebuild of the projections  *)
(* takes vectors away, all of them, and owes every version anew.           *)
(***************************************************************************)
CONSTANTS Job, ChunksOf

VARIABLES
  state,       \* what has become of each version
  searchable   \* the chunks that have a vector

vars == <<state, searchable>>

State == {"absent", "owed", "embedded", "abandoned"}

Init ==
  /\ state = [j \in Job |-> "absent"]
  /\ searchable = {}

Write(j) ==
  /\ state[j] = "absent"
  /\ state' = [state EXCEPT ![j] = "owed"]
  /\ UNCHANGED searchable

Embed(j) ==
  /\ state[j] = "owed"
  /\ state' = [state EXCEPT ![j] = "embedded"]
  /\ searchable' = searchable \union ChunksOf[j]

GiveUp(j) ==
  /\ state[j] = "owed"
  /\ state' = [state EXCEPT ![j] = "abandoned"]
  /\ UNCHANGED searchable

Rebuild ==
  /\ state' = [j \in Job |-> IF state[j] = "absent" THEN "absent" ELSE "owed"]
  /\ searchable' = {}

Next ==
  \/ \E j \in Job : Write(j) \/ Embed(j) \/ GiveUp(j)
  \/ Rebuild

SafeSpec == Init /\ [][Next]_vars

Spec == SafeSpec /\ \A j \in Job : WF_vars(Embed(j) \/ GiveUp(j))
=============================================================================
