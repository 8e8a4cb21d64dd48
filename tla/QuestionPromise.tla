--------------------------- MODULE QuestionPromise ---------------------------
(***************************************************************************)
(* What the librarian promises the owners of the memory, without batches,  *)
(* jobs, locks or clocks: a proposal takes effect at most once, only while *)
(* an owner's consent stands (or, for the auto-rule class, under the role  *)
(* that needs none), and once it has ended it stays as it ended.           *)
(***************************************************************************)
CONSTANT Question

VARIABLE standing   \* how each proposal stands

Standing == {"unasked", "asked", "consented", "effective", "closed"}

\* Consent can be taken back (a hand-back, an answer that rolls back).  Nothing
\* leads from "asked" to "effective", or out of an end.
Moves ==
  {<<"unasked", s>> : s \in {"asked", "effective", "closed"}} \union
  {<<"asked", s>> : s \in {"consented", "closed"}} \union
  {<<"consented", s>> : s \in {"asked", "effective", "closed"}}

Init == standing = [q \in Question |-> "unasked"]

\* One transaction may move several proposals.
Next ==
  /\ standing' \in [Question -> Standing]
  /\ \A q \in Question : standing'[q] = standing[q] \/ <<standing[q], standing'[q]>> \in Moves

Spec == Init /\ [][Next]_standing
=============================================================================
