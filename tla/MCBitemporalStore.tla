------------------------- MODULE MCBitemporalStore --------------------------
(***************************************************************************)
(* Instances of BitemporalStore for TLC: asks that meet on the same items. *)
(***************************************************************************)
EXTENDS EventReplay, TLC

Edit(item, expected, from, to, close) ==
  [item |-> item, expected |-> expected, from |-> from, to |-> to, close |-> close]

Ask(key, edits)             == [key |-> key, edits |-> edits, updates |-> {}, closes |-> {}, reverts |-> {}]
AskUpdate(key, edit, op, i, v) ==
  [key |-> key, edits |-> {edit}, closes |-> {}, reverts |-> {},
   updates |-> {[op |-> op, item |-> i, expected |-> v, carrier |-> edit]}]
AskClose(key, i, v, cut) ==
  [key |-> key, edits |-> {}, updates |-> {}, reverts |-> {},
   closes |-> {[item |-> i, expected |-> v, cut |-> cut]}]

AskReversal(key, write, i) ==
  [key |-> key, edits |-> {}, updates |-> {}, closes |-> {},
   reverts |-> {[key |-> write, item |-> i]}]

(* A correction from now on, a backdated one, a close; the same key with   *)
(* another payload; writers that read the version another leaves.          *)
WriteAsks ==
  {Ask(1, {Edit(1, 1, Unset, Forever, FALSE)}),
   Ask(1, {Edit(1, 1, 0, 2, FALSE)}),
   Ask(2, {Edit(1, 1, 0, 1, FALSE), Edit(2, 2, Unset, Forever, FALSE)}),
   Ask(3, {Edit(2, 2, 0, Forever, TRUE)}), Ask(5, {Edit(2, 2, 5, Forever, FALSE)})}
  \cup {Ask(4, {Edit(1, v, 1, 2, c)}) : v \in 4 .. 6, c \in BOOLEAN}
  \cup {Ask(6, {Edit(1, 4, 3, Forever, FALSE)})}

(* Writes that carry updates of the item another write revises.            *)
UpdateAsks ==
  {AskUpdate(1, Edit(New, None, Unset, Forever, FALSE), "mend", 1, 1),
   AskUpdate(2, Edit(2, 2, 1, Forever, FALSE), "end", 1, 1),
   Ask(3, {Edit(1, 1, 0, 2, FALSE)})}
  \cup {AskUpdate(4, Edit(New, None, 2, Forever, FALSE), op, 1, v) :
          op \in {"end", "mend"}, v \in {3, 4}}

(* Reversals of these updates, twice of one by two operators, and a write  *)
(* into the gap that an update left.                                       *)
ReversalAsks ==
  {AskReversal(7, 1, 1), AskReversal(8, 2, 1), AskReversal(9, 4, 1), AskReversal(10, 2, 1),
   Ask(11, {Edit(1, 3, 2, Forever, FALSE)})}

Writers == WriteAsks \cup UpdateAsks \cup ReversalAsks

(* The librarian closes an item, also where another version of it begins.  *)
LibrarianAsks ==
  {Ask(1, {Edit(1, 1, 0, 2, FALSE)})}
  \cup {AskClose(3, 1, v, t) : v \in {1, 4}, t \in {1, 2}}

(* A close by the librarian of what a correction may have moved, writes    *)
(* into the gap it leaves, batches that name the same two items, and       *)
(* an update with its reversal.                                            *)
Crossing ==
  {AskClose(3, 1, v, 2) : v \in {1, 4}}
  \cup {Ask(5, {Edit(1, 1, 0, 1, TRUE)}), Ask(6, {Edit(1, 1, 1, 3, FALSE), Edit(2, 2, 0, 1, FALSE)})}
  \cup {Ask(7, {Edit(1, 3, 2, Forever, FALSE), Edit(2, 2, Unset, 3, FALSE)}),
        AskUpdate(8, Edit(2, 2, Unset, Forever, FALSE), "mend", 1, 1), AskReversal(9, 8, 1)}

Both == Permutations(Handlers)
=============================================================================
