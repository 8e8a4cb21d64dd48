----------------------------- MODULE EventReplay ----------------------------
(***************************************************************************)
(* Rebuilding memory_versions from the events (db/replay.py): the table is *)
(* emptied and every committed event applied again in the order of its id, *)
(* whatever order the transactions committed in, with the ids, intervals   *)
(* and instants that its payload recorded.                                 *)
(***************************************************************************)
EXTENDS BitemporalStore

(* The versions that were there before the first event of the model.       *)
Earlier ==
  {[vid |-> i, item |-> i, from |-> 0, to |-> Forever, rec |-> 0, sup |-> Forever,
    base |-> None, body |-> i, access |-> 0] : i \in Stored}

Redone(v, R) == IF v.kind = "access" THEN Touched(R, v.touched, v.plan.at)
                ELSE Applied(v.plan, R)

(* The table after the events with an id up to n.                          *)
Rebuild ==
  LET table[n \in 0 .. nextEvent - 1] ==
        IF n = 0 THEN Earlier
        ELSE IF \E w \in events : w.id = n
          THEN Redone(CHOOSE w \in events : w.id = n, table[n - 1])
          ELSE table[n - 1]
  IN table

Rebuilt == Rebuild[nextEvent - 1]

Facts(R) == {[r EXCEPT !.access = 0] : r \in R}

(* The items with a copy that took last_access_at from its base when it    *)
(* was applied (actor.py:624): closes by the librarian, updates, reversals. *)
Reviewed ==
  UNION {{c.item : c \in v.ask.closes \cup v.ask.updates \cup v.ask.reverts} :
           v \in {e \in events : e.kind # "access"}}

(* A rebuild at any moment gives back every version, interval and instant  *)
(* of the live table, although ids are given out before the commits and    *)
(* transactions on other items overlap (replay.py:89-110).  It gives back  *)
(* last_access_at too, except of items with such a copy: the               *)
(* survivors of a correction carry the value that the write recorded       *)
(* (write_service.py:1062), so that access events may commit in between.   *)
RebuildGivesTheFacts ==
  /\ Facts(Rebuilt) = Facts(rows)
  /\ \A r \in rows \cup Rebuilt : r \in rows \cap Rebuilt \/ r.item \in Reviewed

-----------------------------------------------------------------------------
(* The inductive invariant behind RebuildGivesTheFacts: what an event      *)
(* needs of earlier ones is there when it is applied again.                *)

Gives(v, n) == v.kind # "access" /\ \E d \in v.plan.added : d.vid = n

(* Version n is in the table when the events with an id below k are done.  *)
There(n, k) == n \in Stored \/ \E v \in events : v.id < k /\ Gives(v, n)

(* The values of last_access_at that version n ever got: the one it was    *)
(* written with and those of the accesses among the events below k.        *)
Accesses(n, k) ==
  {t \in {0} : n \in Stored}
  \cup (UNION {{d.access : d \in {e \in v.plan.added : e.vid = n}} : v \in {w \in events : w.kind # "access"}})
  \cup {v.plan.at : v \in {w \in events : w.kind = "access" /\ w.id < k /\ n \in w.touched}}

LastAccess(n, k, t) == t \in Accesses(n, k) /\ \A s \in Accesses(n, k) : s =< t

(* A plan is numbered after what it closes and copies, gives new versions, *)
(* and lets only an ask of these kinds copy last_access_at.                *)
Follows(p, a, k) ==
  /\ \A n \in p.closed : There(n, k)
  /\ \A d \in p.added : /\ d.live \/ d.base # None => There(d.base, k)
                        /\ d.vid \notin Stored
                        /\ d.live => \E c \in a.closes \cup a.updates \cup a.reverts : c.item = d.item
  /\ \A d, e \in p.added : d.vid = e.vid => d = e

(* Committed events, plans and open readers have different ids.            *)
IdsApart ==
  /\ \A v \in events : v.id < nextEvent
  /\ \A v, w \in events : v.id = w.id => v = w
  /\ \A x \in reader : x.id < nextEvent /\ \A v \in events : v.id # x.id
  /\ \A x, y \in reader : x.id = y.id => x = y
  /\ \A h \in Handlers : tx[h].pc = "store" =>
       /\ tx[h].plan.event < nextEvent
       /\ \A v \in events : v.id # tx[h].plan.event
       /\ \A x \in reader : x.id # tx[h].plan.event
       /\ \A g \in Handlers \ {h} : tx[g].pc = "store" => tx[g].plan.event # tx[h].plan.event

(* A row is one of the first or is given by an event.                      *)
RowGiven(r) ==
  \/ \E e \in Earlier : /\ r.vid = e.vid /\ SameSpan(r, e) /\ r.rec = e.rec
                        /\ r.base = e.base /\ r.body = e.body
  \/ \E v \in events : Gives(v, r.vid)

ReplayInv ==
  /\ IdsApart
  /\ \A i \in Stored : \E r \in rows : r.vid = i
  /\ \A r \in rows : /\ RowGiven(r)
                     /\ r.item \in Reviewed \/ LastAccess(r.vid, nextEvent, r.access)
  /\ \A v \in events :
       IF v.kind = "access" THEN \A n \in v.touched : There(n, v.id)
       ELSE Follows(v.plan, v.ask, v.id)
  /\ \A v, w \in events : v.kind # "access" /\ w.kind # "access" =>
       \A d \in v.plan.added, e \in w.plan.added : d.vid = e.vid => v = w
  /\ \A x \in reader : There(x.vid, x.id)
  /\ \A h \in Handlers :
       /\ tx[h].pc = "store" => Follows(tx[h].plan, tx[h].ask, tx[h].plan.event)
       /\ tx[h].pc \in Working /\ tx[h].ask.reverts # {} =>
            \E u \in tx[h].ask.reverts : u.item = tx[h].undo.item
=============================================================================
