-------------------------- MODULE BitemporalStore ---------------------------
(***************************************************************************)
(* The write path of the memory store (core/write_service.py _execute),    *)
(* the librarian's close of an item (librarian/worker.py, actor.py), the   *)
(* reversal of an update (librarian/reversal.py), and the access event of  *)
(* a reader.  Every handler is one PostgreSQL transaction at READ          *)
(* COMMITTED: the code awaits between its steps, so each wait is a step of *)
(* its own and other transactions run in between.                          *)
(* memory_versions is the set rows; its two declared constraints, the      *)
(* unique request key of events and EXCLUDE of overlapping versions, are   *)
(* part of Store, where they abort the transaction.                        *)
(*                                                                         *)
(* Left out: links and chunks (rows that follow their version), grants and *)
(* scopes, budgets, and the wording of errors.                             *)
(***************************************************************************)
EXTENDS Temporal, FiniteSets

CONSTANTS
  Handlers,   \* the transactions of a behaviour
  Asks,       \* what they are asked to do; a retry is a second handler with
              \* the same ask
  MaxItem,    \* bound: logical ids are 1 .. MaxItem
  Given,      \* logical ids 1 .. Given are taken at the start
  Stored,     \* the items that have a version at the start
  Cards,      \* the project cards: their logical id exists before a version
  Slack,      \* FUTURE_SLACK
  StepBacks,  \* bound: how often the server's clock is set back
  Readings    \* bound: how many readers are logged

New   == 0    \* no logical_id: the edit creates an item
None  == 0    \* no version
Unset == -1   \* an omitted valid_from

Items == 1 .. MaxItem

(* One item of a write: what it replaces, the version its author read, the *)
(* interval, and whether the fact is closed at the end of it.  An omitted  *)
(* valid_to is Forever.                                                    *)
Edits == [item: Items \cup {New}, expected: Nat,
          from: Instants \cup {Unset}, to: Ends, close: BOOLEAN]

(* A D-118 update of an older item, carried by an edit: end the target     *)
(* (supersede) or replace a span of its text (revise).                     *)
Updates == [op: {"end", "mend"}, item: Items, expected: Nat, carrier: Edits]

(* The librarian's approved close of an item it assessed at a version.     *)
Closes == [item: Items, expected: Nat, cut: Instants]

(* An owner's reversal of what the write with this key did to an item by   *)
(* an update.                                                              *)
Reversals == [key: Nat, item: Items]

(* An ask is a write, with its request key, or the librarian's close, with *)
(* the key of its job, or a reversal, with a key made of what it reverts.  *)
IsWrite(a) == a.closes = {} /\ a.reverts = {}

Kind(a) == IF IsWrite(a) THEN "write" ELSE IF a.closes # {} THEN "librarian" ELSE "reversal"

ASSUME BitemporalAssumption ==
  /\ MaxItem \in Nat /\ Given \in 0 .. MaxItem
  /\ Slack \in Nat /\ StepBacks \in Nat /\ Readings \in Nat
  /\ Stored \subseteq 1 .. Given /\ Cards \subseteq 1 .. Given
  /\ Asks \subseteq [key: Nat, edits: SUBSET Edits,
                     updates: SUBSET Updates, closes: SUBSET Closes,
                     reverts: SUBSET Reversals]
  /\ \A a \in Asks :
       /\ IsFiniteSet(a.edits) /\ IsFiniteSet(a.updates)
       /\ \A e, f \in a.edits : e.item = f.item /\ e.item # New => e = f
       /\ \A u \in a.updates : u.carrier \in a.edits
       /\ \A c, d \in a.closes : c = d
       /\ \A c \in a.closes : c.expected # None
       /\ \A c, d \in a.reverts : c = d
       /\ IsWrite(a) \/ a.edits = {}
       /\ a.closes = {} \/ a.reverts = {}
       /\ \A b \in Asks : a.key = b.key => Kind(a) = Kind(b)

VARIABLES
  rows,        \* memory_versions
  events,      \* the committed events
  clock,       \* the last reading of clock_timestamp()
  nextEvent,   \* the id sequences; a rolled back transaction does not
  nextVersion, \*   give its ids back
  nextItem,
  tx,          \* the handlers' transactions
  reader,      \* the access events whose transaction is open
  setBacks     \* how often the clock was set back

vars == <<rows, events, clock, nextEvent, nextVersion, nextItem, tx, reader,
          setBacks>>

sequences == <<nextEvent, nextVersion, nextItem>>

-----------------------------------------------------------------------------
(* The rows.                                                               *)

IsCurrent(r) == r.sup = Forever

Current(i) == {r \in rows : r.item = i /\ IsCurrent(r)}

IsHead(v, R) == /\ R = {} => v = None
                /\ R # {} => v \in {r.vid : r \in R} /\ \A r \in R : r.vid =< v

ValidAt(R, t) == {r \in R : r.from =< t /\ t < r.to}

(* What the EXCLUDE constraint forbids: two versions of an item that       *)
(* overlap in valid time and in system time, superseded ones included.     *)
Collides(r, s) ==
  /\ r.item = s.item
  /\ Overlaps(r.from, r.to, s.from, s.to)
  /\ Overlaps(r.rec, r.sup, s.rec, s.sup)

-----------------------------------------------------------------------------
(* A handler's transaction.                                                *)

NoAsk  == [key |-> 0, edits |-> {}, updates |-> {}, closes |-> {}, reverts |-> {}]
NoPlan == [event |-> 0, at |-> 0, closed |-> {}, added |-> {}]
NoUndo == [item |-> New, locks |-> {}, plan |-> NoPlan]
NoTx   == [pc |-> "idle", ask |-> NoAsk, pending |-> {}, undo |-> NoUndo, held |-> {},
           seen |-> {}, plan |-> NoPlan, reply |-> "none", answer |-> 0]

Locking == {"locks", "build", "store"}
Working == Locking \cup {"key"}

(* The transaction ends, its locks are released.                           *)
Ended(h, what, event) ==
  [pc |-> "done", ask |-> tx[h].ask, pending |-> {}, undo |-> NoUndo, held |-> {},
   seen |-> {}, plan |-> NoPlan, reply |-> what, answer |-> event]

Reply(h, what, event) == tx' = [tx EXCEPT ![h] = Ended(h, what, event)]

FaultyWantedWithoutUpdates(h) ==
  {i \in Items : \/ \E e \in tx[h].ask.edits : e.item = i
                 \/ \E c \in tx[h].ask.closes : c.item = i
                 \/ i \in tx[h].undo.locks}

(* Every item the transaction can change; one sorted acquisition.          *)
Wanted(h) ==
  {i \in Items : \/ \E e \in tx[h].ask.edits : e.item = i
                 \/ \E u \in tx[h].pending : u.item = i
                 \/ \E c \in tx[h].ask.closes : c.item = i
                 \/ i \in tx[h].undo.locks}

(* _authorize_revisions: every revised item has a version; a card may have *)
(* none.                                                                   *)
Known(a) ==
  \A e \in a.edits : e.item \in {New} \cup Cards \/ Current(e.item) # {}

(* A write checks its targets before it waits for any lock, and never      *)
(* locks the target of an update it cannot see.  The librarian's worker    *)
(* goes straight to the item locks.                                        *)
Begin(h, a) ==
  /\ tx[h].pc = "idle"
  /\ a.reverts = {}
  /\ tx' = [tx EXCEPT ![h] =
       [pc |-> IF ~ Known(a) THEN "done" ELSE IF IsWrite(a) THEN "key" ELSE "locks",
        ask |-> a,
        pending |-> IF Known(a) THEN {u \in a.updates : Current(u.item) # {}} ELSE {},
        undo |-> NoUndo, held |-> {}, seen |-> {}, plan |-> NoPlan,
        reply |-> IF Known(a) THEN "none" ELSE "notFound", answer |-> 0]]
  /\ UNCHANGED <<rows, events, clock, sequences, reader, setBacks>>

(* What write v did to item i by an update, and nothing else in it did.    *)
Updated(v, i) ==
  /\ \E u \in v.ask.updates : u.item = i
  /\ \A e \in v.ask.edits : e.item # i
  /\ \E r \in rows : r.item = i /\ r.vid \in v.plan.closed

Mended(plan, i) == \E d \in plan.added : d.item = i /\ d.base = None

(* The items of the records: the target and, of a close, the item its link *)
(* comes from.                                                             *)
Linked(v, i) ==
  {j \in Items :
     /\ \E r \in rows : r.item = j
     /\ \/ j = i
        \/ /\ ~ Mended(v.plan, i)
           /\ \E d \in v.plan.added : d.item = j /\ d.base = None}

(* A reversal reads the committed write without a lock: an event does not  *)
(* change.                                                                 *)
BeginReversal(h, a) ==
  /\ tx[h].pc = "idle"
  /\ a.reverts # {}
  /\ \E u \in a.reverts :
       LET found == {v \in events : v.kind = "write" /\ v.ask.key = u.key}
           begun(pc, undo, reply) ==
             [pc |-> pc, ask |-> a, pending |-> {}, undo |-> undo, held |-> {},
              seen |-> {}, plan |-> NoPlan, reply |-> reply, answer |-> 0]
       IN
       \/ /\ found = {}
          /\ tx' = [tx EXCEPT ![h] = begun("done", NoUndo, "notFound")]
       \/ \E v \in found :
            /\ ~ Updated(v, u.item)
            /\ tx' = [tx EXCEPT ![h] = begun("done", NoUndo, "versionConflict")]
       \/ \E v \in found :
            /\ Updated(v, u.item)
            /\ tx' = [tx EXCEPT ![h] =
                 begun("locks", [item |-> u.item, locks |-> Linked(v, u.item),
                                 plan |-> v.plan], "none")]
  /\ UNCHANGED <<rows, events, clock, sequences, reader, setBacks>>

LockRequest(h) ==
  /\ tx[h].pc = "key"
  /\ \A g \in Handlers :
       tx[g].pc \in Locking /\ IsWrite(tx[g].ask) => tx[g].ask.key # tx[h].ask.key
  /\ tx' = [tx EXCEPT ![h].pc = "locks"]
  /\ UNCHANGED <<rows, events, clock, sequences, reader, setBacks>>

FaultyLockItemShared(h, i) ==
  /\ tx[h].pc = "locks"
  /\ i \in Wanted(h) \ tx[h].held
  /\ \A j \in Wanted(h) \ tx[h].held : i =< j
  /\ tx' = [tx EXCEPT ![h].held = @ \cup {i}]
  /\ UNCHANGED <<rows, events, clock, sequences, reader, setBacks>>

FaultyLockItemUnsorted(h, i) ==
  /\ tx[h].pc = "locks"
  /\ i \in Wanted(h) \ tx[h].held
  /\ \A g \in Handlers : i \notin tx[g].held
  /\ tx' = [tx EXCEPT ![h].held = @ \cup {i}]
  /\ UNCHANGED <<rows, events, clock, sequences, reader, setBacks>>

LockItem(h, i) ==
  /\ tx[h].pc = "locks"
  /\ i \in Wanted(h) \ tx[h].held
  /\ \A j \in Wanted(h) \ tx[h].held : i =< j
  /\ \A g \in Handlers : i \notin tx[g].held
  /\ tx' = [tx EXCEPT ![h].held = @ \cup {i}]
  /\ UNCHANGED <<rows, events, clock, sequences, reader, setBacks>>

-----------------------------------------------------------------------------
(* The decision, with the locks held.                                      *)

Prior(a) == {v \in events : v.kind # "access" /\ v.ask.key = a.key}

FaultySameKey(a) == Prior(a) # {}
SameRequest(a)   == \E v \in Prior(a) : v.ask = a

Stale(a) == \E c \in a.closes : ~ IsHead(c.expected, Current(c.item))

(* The first of the refusals that applies, in the order of the code; a     *)
(* retry is answered from the stored event before any version is compared. *)
Verdict(a) ==
  IF ~ Known(a) THEN "notFound"
  ELSE IF IsWrite(a) /\ SameRequest(a) THEN "replayed"
  ELSE IF IsWrite(a) /\ Prior(a) # {} THEN "requestConflict"
  ELSE IF \E e \in a.edits : e.item # New /\ ~ IsHead(e.expected, Current(e.item))
    THEN "versionConflict"
  ELSE IF Stale(a) THEN "stale"
  ELSE IF a.reverts # {} /\ Prior(a) # {} THEN "versionConflict"
  ELSE "ok"

(* An update is applied only to the open version that is valid now and     *)
(* that its author quoted, on an item nothing else in the batch changes.   *)
Sound(u, a, pending, at) ==
  /\ u.item \notin Cards
  /\ \A e \in a.edits : e.item # u.item
  /\ \A w \in pending : w.item = u.item => w = u
  /\ ~ u.carrier.close /\ u.carrier.to = Forever
  /\ \E r \in ValidAt(Current(u.item), at) : r.vid = u.expected /\ r.to = Forever

(* The guards on the quoted text may refuse a sound update; a refused      *)
(* update never refuses the write.                                         *)
Decide(h) ==
  LET a == tx[h].ask
      pending == tx[h].pending
  IN
  /\ tx[h].pc = "locks"
  /\ Wanted(h) \subseteq tx[h].held
  /\ \/ /\ Verdict(a) = "replayed"
        /\ clock' = clock
        /\ \E v \in Prior(a) : Reply(h, "replayed", v.id)
     \/ /\ Verdict(a) \notin {"ok", "replayed"}
        /\ clock' = clock
        /\ Reply(h, Verdict(a), 0)
     \/ /\ Verdict(a) = "ok"
        /\ clock' = IF pending = {} THEN clock ELSE clock + 1
        /\ \E kept \in SUBSET {u \in pending : Sound(u, a, pending, clock + 1)} :
             tx' = [tx EXCEPT ![h] =
               [pc |-> "build", ask |-> a, pending |-> kept,
                undo |-> tx[h].undo, held |-> tx[h].held,
                seen |-> {r \in rows : IsCurrent(r) /\ \E e \in a.edits : r.item = e.item},
                plan |-> NoPlan, reply |-> "none", answer |-> 0]]
  /\ UNCHANGED <<rows, events, sequences, reader, setBacks>>

-----------------------------------------------------------------------------
(* What a reversal takes back and restores.                                *)

FaultyCopiesOfAny(n) ==
  {d.vid : d \in {e \in UNION {v.plan.added : v \in events} : e.base = n}}

(* The copies that reversals made of version n (from_version_id).          *)
Copies(n) ==
  {d.vid : d \in {e \in UNION {v.plan.added : v \in {w \in events : w.kind = "reversal"}} :
                   e.base = n}}

(* _live_version: n itself while it is current, else the current version   *)
(* that reversals restored of it, or None.                                 *)
Standing(n) ==
  LET live[m \in 0 .. nextVersion] ==
        IF \E r \in rows : r.vid = m /\ IsCurrent(r) THEN m
        ELSE LET copies == {c \in Copies(m) : m < c /\ c =< nextVersion}
             IN IF copies = {} THEN None
                ELSE live[CHOOSE c \in copies : \A d \in copies : d =< c]
  IN live[n]

(* The versions the update left, and the current ones that stand for them. *)
Left(u)     == {d.vid : d \in {e \in u.plan.added : e.item = u.item}}
Standings(u) == IF Mended(u.plan, u.item) THEN {Standing(n) : n \in Left(u)} ELSE Left(u)

Withdrawn(u) == {r \in Current(u.item) : r.vid \in Standings(u)}

(* unrevise_records and reopen_record: what the update left is all still   *)
(* current, and no other current version came later.                       *)
Undoable(u) ==
  /\ \A n \in Standings(u) : \E r \in Withdrawn(u) : r.vid = n
  /\ IF Mended(u.plan, u.item)
     THEN \E r \in Withdrawn(u) :
            /\ IsHead(r.vid, Current(u.item))
            /\ \A s \in Current(u.item) \ Withdrawn(u) : s.rec =< r.rec
     ELSE \A s \in Current(u.item) \ Withdrawn(u) : s.rec < u.plan.at

(* The versions the update superseded, again.                              *)
Restored(u) ==
  {[item |-> r.item, from |-> r.from, to |-> r.to, base |-> r.vid, live |-> TRUE, access |-> 0] :
     r \in {s \in rows : s.item = u.item /\ s.vid \in u.plan.closed}}

-----------------------------------------------------------------------------
(* The plan, at the transaction's own clock.                               *)

FaultyStartUnresolved(e, now) == e.from
Start(e, now) == IF e.from = Unset THEN now ELSE e.from
End(e, now)   == IF e.close /\ e.to = Forever THEN now ELSE e.to

(* validate_interval *)
InOrder(e, now) == Start(e, now) < End(e, now) /\ Start(e, now) =< now + Slack

(* What a change does to an item: [start, end) gets a new version, nothing *)
(* survives before until.  A live change copies its base when it is        *)
(* applied, the others when they are planned.                              *)
Change(item, start, end, until, live) ==
  [item |-> item, start |-> start, end |-> end, until |-> until, live |-> live]

EditChange(e, item, now) ==
  Change(item, Start(e, now), End(e, now),
         IF e.close THEN Forever ELSE End(e, now), FALSE)

(* revise_cut: the author's date if it falls inside the version, else now. *)
Cut(u, r, now) ==
  LET start == Start(u.carrier, now)
  IN IF r.from < start /\ start =< now THEN start ELSE now

UpdateChange(u, r, now) ==
  Change(u.item, Cut(u, r, now), IF u.op = "mend" THEN Forever ELSE Cut(u, r, now),
         Forever, TRUE)

(* Update u still finds its version r at the clock of the write.           *)
StillApplies(u, r, now) ==
  /\ r \in ValidAt(Current(u.item), now)
  /\ r.vid = u.expected
  /\ Start(u.carrier, now) =< now
  /\ u.op = "mend" => r.from < Cut(u, r, now)

Changes(h, now, name) ==
  {EditChange(e, IF e.item = New THEN name[e] ELSE e.item, now) : e \in tx[h].ask.edits}
  \cup {UpdateChange(p[1], p[2], now) :
          p \in {q \in tx[h].pending \X rows : StillApplies(q[1], q[2], now)}}
  \cup {Change(c.item, c.cut, c.cut, Forever, TRUE) : c \in tx[h].ask.closes}

(* The current rows a change supersedes.                                   *)
Hits(c, seen) ==
  {r \in (IF c.live THEN Current(c.item) ELSE seen) :
     r.item = c.item /\ Overlaps(r.from, r.to, c.start, c.until)}

FaultySurvivorsUnrecorded(c, seen) ==
  UNION {{[item |-> c.item, from |-> s.from, to |-> s.to, base |-> r.vid,
           live |-> TRUE, access |-> r.access] :
            s \in SurvivingSegments(r.from, r.to, c.start, c.until)} : r \in Hits(c, seen)}

(* The rows to be written: what survives of each superseded row, its base, *)
(* and the replacement.                                                    *)
Survivors(c, seen) ==
  UNION {{[item |-> c.item, from |-> s.from, to |-> s.to, base |-> r.vid,
           live |-> c.live, access |-> r.access] :
            s \in SurvivingSegments(r.from, r.to, c.start, c.until)} : r \in Hits(c, seen)}

FaultyReplacementNotOfClose(c) ==
  IF c.start < c.end /\ c.end = c.until
  THEN {[item |-> c.item, from |-> c.start, to |-> c.end, base |-> None,
         live |-> FALSE, access |-> 0]}
  ELSE {}

Replacement(c) ==
  IF c.start < c.end
  THEN {[item |-> c.item, from |-> c.start, to |-> c.end, base |-> None,
         live |-> FALSE, access |-> 0]}
  ELSE {}

Drafts(C, seen) == UNION {Survivors(c, seen) \cup Replacement(c) : c \in C}

(* The order of the version ids: item by item, survivors first. (The code  *)
(* takes the items in the order of the request.)                           *)
Precedes(d, e) ==
  \/ d.item < e.item
  \/ /\ d.item = e.item
     /\ \/ d.base # None /\ e.base = None
        \/ e.base # None /\ d.base # None /\ d.base < e.base
        \/ e.base # None /\ d.base = e.base /\ d.from < e.from

VersionId(d, D) == nextVersion + Cardinality({e \in D : Precedes(e, d)})

Numbered(D) ==
  {[vid |-> VersionId(d, D), item |-> d.item, from |-> d.from, to |-> d.to,
    base |-> d.base, live |-> d.live, access |-> d.access] : d \in D}

NewEvent == nextEvent

(* The ids are allocated after every lock, so that conflicting events have *)
(* them in the order of their commits.                                     *)
Planned(h, now) ==
  LET created == {e \in tx[h].ask.edits : e.item = New}
  IN
  \E name \in [created -> nextItem .. nextItem + Cardinality(created) - 1] :
    LET u    == tx[h].undo
        C    == Changes(h, now, name)
        D    == Drafts(C, tx[h].seen) \cup Restored(u)
        hits == Withdrawn(u) \cup UNION {Hits(c, tx[h].seen) : c \in C}
    IN
    /\ \A e, f \in created : e # f => name[e] # name[f]
    /\ \A e \in created : name[e] \in Items
    /\ \E t \in Instants :
         \* The link of an update is as old as the update.
         /\ SelectT(t, now, {r.rec : r \in hits} \cup {u.plan.at})
         /\ tx' = [tx EXCEPT ![h] =
              [pc |-> "store", ask |-> tx[h].ask, pending |-> {}, undo |-> u,
               held |-> tx[h].held, seen |-> {},
               plan |-> [event |-> NewEvent, at |-> t, closed |-> {r.vid : r \in hits},
                         added |-> Numbered(D)],
               reply |-> "none", answer |-> 0]]
    /\ nextVersion' = nextVersion + Cardinality(D)
    /\ nextEvent' = nextEvent + 1
    /\ nextItem' = nextItem + Cardinality(created)

Build(h) ==
  LET a   == tx[h].ask
      now == clock + 1
  IN
  /\ tx[h].pc = "build"
  /\ clock' = now
  /\ \/ /\ \E e \in a.edits : ~ InOrder(e, now)
        /\ Reply(h, "temporal", 0)
        /\ UNCHANGED sequences
     \/ /\ \E c \in a.closes : \A r \in Current(c.item) : r.to =< c.cut
        /\ Reply(h, "authorityLost", 0)
        /\ UNCHANGED sequences
     \/ /\ a.reverts # {} /\ ~ Undoable(tx[h].undo)
        /\ Reply(h, "versionConflict", 0)
        /\ UNCHANGED sequences
     \/ /\ \A e \in a.edits : InOrder(e, now)
        /\ a.reverts # {} => Undoable(tx[h].undo)
        /\ \A c \in a.closes : \E r \in Current(c.item) : c.cut < r.to
        /\ Planned(h, now)
  /\ UNCHANGED <<rows, events, reader, setBacks>>

-----------------------------------------------------------------------------
(* Applying a plan, live and in a replay.                                  *)

Closing(p, R) == {r \in R : r.vid \in p.closed /\ IsCurrent(r)}

Written(d, t, R) ==
  LET base == CHOOSE r \in R : r.vid = d.base
  IN [vid |-> d.vid, item |-> d.item, from |-> d.from, to |-> d.to,
      rec |-> t, sup |-> Forever, base |-> d.base,
      body |-> IF d.base = None THEN d.vid ELSE base.body,
      access |-> IF d.live THEN base.access ELSE d.access]

Applied(p, R) ==
  (R \ Closing(p, R))
  \cup {[r EXCEPT !.sup = p.at] : r \in Closing(p, R)}
  \cup {Written(d, p.at, R) : d \in p.added}

(* UPDATE .. WHERE superseded_at = 'infinity' found every row it names.    *)
AllFound(p, R) == \A v \in p.closed : \E r \in Closing(p, R) : r.vid = v

FaultyAllowedCurrentOnly(R) ==
  /\ \A r \in R : r.rec < r.sup
  /\ \A r, s \in R : r # s /\ IsCurrent(r) /\ IsCurrent(s) => ~ Collides(r, s)

(* CHECK (recorded_at < superseded_at) and EXCLUDE of memory_versions.     *)
Allowed(R) ==
  /\ \A r \in R : r.rec < r.sup
  /\ \A r, s \in R : r # s => ~ Collides(r, s)

(* What stops the transaction, in the order of the code: the unique key of *)
(* the event, a row superseded by another, a constraint of the rows.       *)
Outcome(a, p) ==
  IF Prior(a) # {} THEN IF IsWrite(a) THEN "internal" ELSE "duplicate"
  ELSE IF ~ AllFound(p, rows) THEN "raced"
  ELSE IF ~ Allowed(Applied(p, rows)) THEN "internal"
  ELSE "done"

Store(h) ==
  LET a == tx[h].ask
      p == tx[h].plan
  IN
  /\ tx[h].pc = "store"
  /\ \/ /\ Outcome(a, p) # "done"
        /\ Reply(h, Outcome(a, p), 0)
        /\ UNCHANGED <<rows, events>>
     \/ /\ Outcome(a, p) = "done"
        /\ Reply(h, "done", p.event)
        /\ rows' = Applied(p, rows)
        /\ events' = events \cup
             {[id |-> p.event, kind |-> Kind(a),
               ask |-> a, plan |-> p, touched |-> {}]}
  /\ UNCHANGED <<clock, sequences, reader, setBacks>>

(* A lock timeout, a lost connection or a crash: nothing of it remains.    *)
Rollback(h) ==
  /\ tx[h].pc \in Working
  /\ Reply(h, "aborted", 0)
  /\ UNCHANGED <<rows, events, clock, sequences, reader, setBacks>>

-----------------------------------------------------------------------------
(* A reader's access event: its id first, then the touch of the version it *)
(* was shown, superseded in the meantime or not.                           *)

OpenRead(r) ==
  /\ Cardinality({v \in events : v.kind = "access"}) + Cardinality(reader) < Readings
  /\ clock + 1 < Forever
  /\ IsCurrent(r)
  /\ clock' = clock + 1
  /\ reader' = reader \cup {[id |-> nextEvent, at |-> clock + 1, vid |-> r.vid]}
  /\ nextEvent' = nextEvent + 1
  /\ UNCHANGED <<rows, events, nextVersion, nextItem, tx, setBacks>>

Touched(R, vids, t) ==
  {IF r.vid \in vids /\ r.access < t THEN [r EXCEPT !.access = t] ELSE r : r \in R}

CloseRead(x) ==
  /\ rows' = Touched(rows, {x.vid}, x.at)
  /\ events' = events \cup
       {[id |-> x.id, kind |-> "access", ask |-> NoAsk,
         plan |-> [event |-> x.id, at |-> x.at, closed |-> {}, added |-> {}],
          touched |-> {x.vid}]}
  /\ reader' = reader \ {x}
  /\ UNCHANGED <<clock, sequences, tx, setBacks>>

(* NTP sets the server's clock back.                                       *)
StepBack ==
  /\ setBacks < StepBacks
  /\ clock' \in 0 .. clock - 1
  /\ setBacks' = setBacks + 1
  /\ UNCHANGED <<rows, events, sequences, tx, reader>>

-----------------------------------------------------------------------------

Init ==
  /\ rows = {[vid |-> i, item |-> i, from |-> 0, to |-> Forever, rec |-> 0, sup |-> Forever,
              base |-> None, body |-> i, access |-> 0] : i \in Stored}
  /\ events = {}
  /\ clock = 1
  /\ nextEvent = 1
  /\ nextVersion = Given + 1
  /\ nextItem = Given + 1
  /\ tx = [h \in Handlers |-> NoTx]
  /\ reader = {}
  /\ setBacks = 0

Next ==
  \/ \E h \in Handlers :
       \/ \E a \in Asks : Begin(h, a) \/ BeginReversal(h, a)
       \/ LockRequest(h)
       \/ \E i \in Items : LockItem(h, i)
       \/ Decide(h) \/ Build(h) \/ Store(h) \/ Rollback(h)
  \/ \E r \in rows : OpenRead(r)
  \/ \E x \in reader : CloseRead(x)
  \/ StepBack

Spec == Init /\ [][Next]_vars

(* A transaction that can go on does: the process runs, PostgreSQL grants  *)
(* a lock that is free.                                                    *)
Step(h) == \/ LockRequest(h) \/ \E i \in Items : LockItem(h, i)
           \/ Decide(h) \/ Build(h) \/ Store(h)

Fairness == \A h \in Handlers : WF_vars(Step(h))

FairSpec == Spec /\ Fairness

-----------------------------------------------------------------------------
(* Types.                                                                  *)

Rows == [vid: Nat \ {0}, item: Items, from: Instants, to: Ends, rec: Instants,
         sup: Ends, base: Nat, body: Nat \ {0}, access: Nat]

PlannedRows == [vid: Nat \ {0}, item: Items, from: Instants, to: Ends, base: Nat,
                live: BOOLEAN, access: Nat]

Plans == [event: Nat, at: Instants, closed: SUBSET Nat, added: SUBSET PlannedRows]

Replies == {"none", "notFound", "replayed", "requestConflict", "versionConflict",
            "stale", "temporal", "authorityLost", "raced", "internal",
            "duplicate", "aborted", "done"}

Txs == [pc: Working \cup {"idle", "done"}, ask: Asks \cup {NoAsk},
        pending: SUBSET Updates,
        undo: [item: Items \cup {New}, locks: SUBSET Items, plan: Plans],
        held: SUBSET Items, seen: SUBSET Rows, plan: Plans, reply: Replies, answer: Nat]

Events == [id: Nat \ {0}, kind: {"write", "librarian", "reversal", "access"},
           ask: Asks \cup {NoAsk}, plan: Plans, touched: SUBSET Nat]

TypeOK ==
  /\ rows \in SUBSET Rows
  /\ events \in SUBSET Events
  /\ clock \in Nat
  /\ nextEvent \in Nat \ {0} /\ nextVersion \in Nat \ {0} /\ nextItem \in Nat \ {0}
  /\ tx \in [Handlers -> Txs]
  /\ reader \in SUBSET [id: Nat \ {0}, at: Instants, vid: Nat]
  /\ setBacks \in 0 .. StepBacks

-----------------------------------------------------------------------------
(* What a reader is told: the content of the version of item i that is     *)
(* valid at v, as known at k.                                              *)

KnownOf(i, k) == {r \in rows : r.item = i /\ r.rec =< k /\ k < r.sup}

Belief ==
  [i \in Items |-> [k \in Instants |->
     LET known == KnownOf(i, k)
     IN [v \in Instants |->
           IF ValidAt(known, v) = {} THEN None
           ELSE (CHOOSE r \in ValidAt(known, v) : TRUE).body]]]

History == INSTANCE ItemHistory
  WITH belief <- Belief, Contents <- Nat \ {0}, Nothing <- None

(* The whole write path, its waits, retries and refusals, is a history of  *)
(* single revisions: a commit changes what is believed from one instant on *)
(* and only of the interval it names, and what was known before that       *)
(* instant is never rewritten (temporal.py:106-138).                       *)
ImplementsHistory == History!Spec

-----------------------------------------------------------------------------
(* Safety.                                                                 *)

(* The locks and the clock leave nothing for the database to catch: as     *)
(* long as the clock of the server was not set back, no transaction runs   *)
(* into a constraint (the uncaught violations of write_service.py:1242) or *)
(* finds a version superseded by another.                                  *)
NothingLeftToConstraints ==
  setBacks = 0 => \A h \in Handlers : tx[h].reply \notin {"internal", "raced"}

(* Every answer is true: a request key names one event, and both the first *)
(* answer and the answer to a retry are of the event that did what was     *)
(* asked (write_service.py:812-833).                                       *)
AnswersAreTrue ==
  /\ \A v, w \in events : v.kind # "access" /\ w.kind # "access" /\ v.ask.key = w.ask.key => v = w
  /\ \A h \in Handlers : tx[h].reply \in {"done", "replayed"} =>
       \E v \in events : v.id = tx[h].answer /\ v.ask = tx[h].ask

Commits(h) == tx[h].reply # "done" /\ tx'[h].reply = "done"

(* What a transaction commits was decided on the heads its author named:   *)
(* between the comparison and the commit, three awaits later, nobody moved *)
(* them (write_service.py:841-866).                                        *)
CommitsOnTheHeadNamed ==
  [][\A h \in Handlers : Commits(h) =>
       \A e \in tx[h].ask.edits \cup tx[h].ask.closes :
         e.item # New => IsHead(e.expected, Current(e.item))]_vars

(* "Any write that touches a logical item creates a new, greater           *)
(* version_id, so expected_version_id = head is a complete                 *)
(* optimistic-concurrency check" (PHASE0-SPEC.md:283).                     *)
HeadGrows ==
  [][\A i \in Items : {r.vid : r \in Current(i)} # {r.vid : r \in Current(i)'} =>
       \E r \in Current(i)' : \A s \in rows : s.item = i => s.vid < r.vid]_vars

(* Valid time is never lost by accident: an instant that had a current     *)
(* version still has one after a commit that did not close the fact there  *)
(* (write_service.py:900-912, the parts of a row outside the correction).  *)
Closed(a, i, v) ==
  \/ \E e \in a.edits : e.item = i /\ e.close
  \/ \E c \in a.closes : c.item = i /\ c.cut =< v
  \/ \E u \in a.updates : u.item = i /\ u.op = "end"

NothingFallsOut ==
  [][\A h \in Handlers, i \in Items, v \in Instants :
       Commits(h) /\ ValidAt(Current(i), v) # {}
       => ValidAt(Current(i)', v) # {} \/ Closed(tx[h].ask, i, v)]_vars

(* A reversal takes back exactly its update.  Of every instant where the   *)
(* update changed what is believed, nothing later has been written, and    *)
(* what was believed before it is believed again; the rest of the item     *)
(* stays as it is now (reversal.py:95-103, actor.py:911, 1006).  After a   *)
(* setback of the clock two events of an item may have one instant, and    *)
(* "as of the update" no longer names what that update left.               *)
Believed(i, k, v) == {r.body : r \in ValidAt(KnownOf(i, k), v)}

ReversalUndoes ==
  [][\A h \in Handlers, i \in Items, v \in Instants :
       setBacks = 0 /\ Commits(h) /\ tx[h].ask.reverts # {} /\ i = tx[h].undo.item =>
         LET at     == tx[h].undo.plan.at
             before == Believed(i, at - 1, v)
             after  == Believed(i, at, v)
             now    == Believed(i, Forever - 1, v)
         IN /\ before # after => now = after
            /\ Believed(i, Forever - 1, v)' = IF before # after THEN before ELSE now]_vars

(* Every transaction ends: sorted item locks under the request key leave   *)
(* no two handlers waiting on each other (write_queries.py:146-150).       *)
EveryAskEnds == \A h \in Handlers : tx[h].pc \in Working ~> tx[h].pc = "done"

-----------------------------------------------------------------------------
(* The inductive invariant behind CommitsOnTheHeadNamed and AnswersAreTrue. *)

(* An item that others can name: it has a version, or is a card.           *)
Exists(i) == i \in Cards \/ \E r \in rows : r.item = i

Named(h) == {e \in tx[h].ask.edits \cup tx[h].ask.closes : e.item # New}

(* Once the transaction has decided, it holds the locks of all it wants,   *)
(* and the heads are still those it compared.                              *)
DecidedInv(h) ==
  /\ Wanted(h) \subseteq tx[h].held
  /\ \A i \in Wanted(h) : Exists(i)
  /\ \A e \in Named(h) : IsHead(e.expected, Current(e.item))

(* What a plan closes is locked, what it adds has ids nobody else has, and *)
(* belongs to locked items or to items nobody else knows yet.              *)
PlanInv(h) ==
  LET p == tx[h].plan
  IN
  /\ p.event > 0
  /\ IsFiniteSet(p.added)
  /\ \A v \in p.closed : \E r \in rows : r.vid = v
  /\ \A r \in rows : r.vid \in p.closed => r.item \in tx[h].held
  /\ \A d \in p.added :
       /\ d.vid < nextVersion /\ d.item < nextItem
       /\ \A r \in rows : r.vid # d.vid
       /\ d.live \/ d.base # None => \E r \in rows : r.vid = d.base
       /\ Exists(d.item) => d.item \in tx[h].held
  /\ \A d, e \in p.added : d.vid = e.vid => d.item = e.item

TxInv(h) ==
  /\ tx[h].pc \notin Locking => tx[h].held = {}
  /\ IsFiniteSet(tx[h].pending) /\ IsFiniteSet(tx[h].seen)
  /\ \A u \in tx[h].pending : Exists(u.item)
  /\ \A i \in tx[h].undo.locks : Exists(i)
  /\ tx[h].undo.item # New => tx[h].undo.item \in tx[h].undo.locks
  /\ tx[h].pc \in {"build", "store"} => DecidedInv(h)
  /\ \A s \in tx[h].seen : \E r \in rows : r.vid = s.vid /\ r.item = s.item
  /\ \A s \in tx[h].seen : s.item \in tx[h].held
  /\ tx[h].pc = "store" => PlanInv(h)

(* Transactions are kept apart: by their locks and by the sequences.       *)
ApartInv(g, h) ==
  /\ tx[g].held \cap tx[h].held = {}
  /\ tx[g].pc = "store" /\ tx[h].pc = "store" =>
       \A d \in tx[g].plan.added, e \in tx[h].plan.added :
         d.vid # e.vid /\ d.item # e.item

RowsInv ==
  /\ IsFiniteSet(rows)
  /\ \A r \in rows : r.vid < nextVersion /\ r.item < nextItem
  /\ \A r, s \in rows : r.vid = s.vid => r.item = s.item
  /\ Given < nextItem

IInv ==
  /\ TypeOK
  /\ RowsInv
  /\ \A h \in Handlers : TxInv(h)
  /\ \A g, h \in Handlers : g # h => ApartInv(g, h)
  /\ AnswersAreTrue
-----------------------------------------------------------------------------
(* The inductive invariant behind NothingLeftToConstraints and             *)
(* NothingFallsOut: intervals and clock readings.                          *)

SameSpan(r, s) == r.item = s.item /\ r.from = s.from /\ r.to = s.to

(* A row, and a copy of it that differs by accesses only.                  *)
Alike(r, s) == r.vid = s.vid /\ SameSpan(r, s) /\ r.rec = s.rec /\ r.sup = s.sup

Covered(S, i, t) == \E s \in S : s.item = i /\ s.from =< t /\ t < s.to

ClosedBy(p) == {r \in rows : r.vid \in p.closed}

RowsFit ==
  /\ \A r, s \in rows : r.vid = s.vid => r = s
  /\ \A r \in rows : r.from < r.to
  /\ Allowed(rows)

(* What a plan does to valid time: nothing falls out but what the ask      *)
(* closes; an update stays within what it closes, and a mended item keeps  *)
(* all of it; a reversal restores versions as they were.                   *)
Keeps(v) ==
  LET p == v.plan
  IN
  /\ \A i \in Items, t \in Instants :
       Covered(ClosedBy(p), i, t) => Covered(p.added, i, t) \/ Closed(v.ask, i, t)
  /\ \A i \in Items, t \in Instants : Updated(v, i) =>
       /\ Covered(p.added, i, t) => Covered(ClosedBy(p), i, t)
       /\ Mended(p, i) /\ Covered(ClosedBy(p), i, t) => Covered(p.added, i, t)
  /\ v.ask.reverts # {} => \A d \in p.added : \E r \in rows : r.vid = d.base /\ SameSpan(r, d)

(* The rows still say what a committed event closed and added.             *)
EventFits(v) ==
  /\ v.ask \in Asks /\ v.kind = Kind(v.ask)
  /\ \A n \in v.plan.closed : \E r \in rows : r.vid = n /\ r.sup = v.plan.at
  /\ \A d \in v.plan.added : \E r \in rows : r.vid = d.vid /\ SameSpan(r, d)
  /\ Keeps(v)

AskFits(h) ==
  tx[h].pc \in Working =>
    /\ tx[h].ask \in Asks
    /\ tx[h].pending \subseteq tx[h].ask.updates
    /\ IF tx[h].ask.reverts = {} THEN tx[h].undo = NoUndo
       ELSE \E v \in events : /\ v.kind = "write" /\ v.plan = tx[h].undo.plan
                              /\ Updated(v, tx[h].undo.item)
    /\ tx[h].pc \in {"build", "store"} /\ IsWrite(tx[h].ask) => Prior(tx[h].ask) = {}

(* What the decision read of the rows it locked is still so.               *)
SeenFits(h) ==
  tx[h].pc = "build" =>
    /\ \A u \in tx[h].pending :
         /\ \A e \in tx[h].ask.edits : e.item # u.item
         /\ \A w \in tx[h].pending : w.item = u.item => w = u
         /\ \E r \in rows : r.vid = u.expected /\ r.to = Forever
    /\ \A s, t \in tx[h].seen : s.vid = t.vid => s = t
    /\ \A s \in tx[h].seen : IsCurrent(s) /\ \E r \in rows : Alike(r, s)
    /\ \A e \in tx[h].ask.edits : \A r \in Current(e.item) : \E s \in tx[h].seen : Alike(r, s)

(* What a plan adds has room in what the table will hold of its items.     *)
PlanFits(h) ==
  LET p == tx[h].plan
  IN
  tx[h].pc = "store" =>
    /\ \A n \in p.closed : \E r \in rows : r.vid = n /\ IsCurrent(r) /\ r.rec < p.at
    /\ \A d \in p.added : d.from < d.to
    /\ \A d, e \in p.added :
         d.vid = e.vid \/ (d.item = e.item /\ Overlaps(d.from, d.to, e.from, e.to)) => d = e
    /\ \A d \in p.added, r \in rows : r.item = d.item =>
         /\ IsCurrent(r) /\ r.vid \notin p.closed => ~ Overlaps(r.from, r.to, d.from, d.to)
         /\ setBacks = 0 => IsCurrent(r) \/ r.sup =< p.at
    /\ Keeps(tx[h])

KeysApart(g, h) ==
  /\ tx[g].pc \in Locking /\ IsWrite(tx[g].ask)
  /\ tx[h].pc \in Locking /\ IsWrite(tx[h].ask)
  => tx[g].ask.key # tx[h].ask.key

(* A clock that is never set back has passed every instant in the table.   *)
ClockFits ==
  setBacks = 0 =>
    /\ \A r \in rows : r.rec =< clock /\ (IsCurrent(r) \/ r.sup =< clock)
    /\ \A v \in events : v.kind # "access" => v.plan.at =< clock
    /\ \A h \in Handlers : tx[h].pc = "store" => tx[h].plan.at =< clock

FitInv ==
  /\ RowsFit
  /\ \A v \in events : v.kind # "access" => EventFits(v)
  /\ \A h \in Handlers : AskFits(h) /\ SeenFits(h) /\ PlanFits(h)
  /\ \A g, h \in Handlers : g # h => KeysApart(g, h)
  /\ ClockFits
  /\ NothingLeftToConstraints

-----------------------------------------------------------------------------
(* The inductive invariant behind ImplementsHistory and ReversalUndoes:    *)
(* what the versions say.                                                  *)

Holds(r, i, t) == r.item = i /\ r.from =< t /\ t < r.to

(* What the row that a plan adds will say.                                 *)
Says(d, body) ==
  IF d.base = None THEN body = d.vid ELSE \E r \in rows : r.vid = d.base /\ r.body = body

(* A plan is one revision of an item: [start, end) gets one content, what  *)
(* is believed of [end, until) ends, and everything else says what it said.*)
Revises(p, i) ==
  \E start \in Instants, end, until \in Ends :
    /\ start =< end /\ end =< until
    /\ start < end => \E d \in p.added : d.item = i /\ d.from =< start /\ end =< d.to
    /\ \A d \in p.added, t \in Instants : Holds(d, i, t) =>
         \/ start =< t /\ t < end
         \/ /\ t < start \/ until =< t
            /\ \E r \in ClosedBy(p) : Holds(r, i, t) /\ Says(d, r.body)
    /\ \A r \in ClosedBy(p), t \in Instants : Holds(r, i, t) /\ (t < start \/ until =< t) =>
         \E d \in p.added : Holds(d, i, t)
    /\ \A r \in Current(i) : Overlaps(r.from, r.to, start, until) => r.vid \in p.closed

(* An update splits one open version: what was before the cut stays, and a *)
(* mend says something new from the cut on.                                *)
Splits(v) ==
  \A i \in Items : Updated(v, i) =>
    \E r \in ClosedBy(v.plan), cut \in Instants :
      /\ \A s \in ClosedBy(v.plan) : s.item = i => s = r
      /\ r.from =< cut /\ r.to = Forever
      /\ \A d \in v.plan.added : d.item = i =>
           \/ d.base = r.vid /\ d.from = r.from /\ d.to = cut
           \/ d.base = None /\ d.from = cut /\ d.to = Forever
      /\ r.from < cut => \E d \in v.plan.added : d.item = i /\ d.base = r.vid

(* A version with a base says what its base says.                          *)
BodyFits == \A r \in rows : r.base = None \/ \E s \in rows : s.vid = r.base /\ s.body = r.body

(* What versions, recorded plans and plans that wait say of each other: a  *)
(* base is copied, the rows of an event keep the bases it gave them, an    *)
(* update is one split, and a plan stays one revision until its commit.    *)
HistoryInv ==
  /\ BodyFits
  /\ \A v \in events : v.kind # "access" =>
       /\ \A d \in v.plan.added : \E r \in rows : r.vid = d.vid /\ r.base = d.base
       /\ Splits(v)
  /\ \A h \in Handlers : tx[h].pc = "store" =>
       Splits(tx[h]) /\ \A i \in Items : Revises(tx[h].plan, i)

-----------------------------------------------------------------------------
(* The inductive invariant behind ReversalUndoes: where the rows come from. *)

(* A new version is later than all its plan knows.                         *)
Rises(p) == \A d \in p.added : d.base < d.vid /\ \A n \in p.closed : n < d.vid

(* A row is recorded and superseded by events, and says what it was first  *)
(* written with.                                                           *)
RowLogged(r) ==
  /\ r.rec = 0 \/ \E v \in events : /\ v.kind # "access" /\ r.rec = v.plan.at
                                    /\ \E d \in v.plan.added : d.vid = r.vid
  /\ IsCurrent(r) \/ \E v \in events : /\ v.kind # "access" /\ r.sup = v.plan.at
                                       /\ r.vid \in v.plan.closed
  /\ r.body =< r.vid /\ (r.base = None => r.body = r.vid)

(* What a reversal is about to do with update u: the versions it closes    *)
(* stand for those the update left, and it restores what that closed.      *)
Undoes(u, p) ==
  /\ \A r \in ClosedBy(u.plan) : r.item = u.item => \E d \in p.added : d.base = r.vid
  /\ \A d \in p.added : d.item = u.item /\ d.base \in u.plan.closed
  /\ \A w \in ClosedBy(p) : \E d \in u.plan.added, b \in rows :
       d.item = u.item /\ SameSpan(w, d) /\ b.vid = d.vid /\ b.body = w.body
  /\ \A d \in u.plan.added : d.item = u.item => \E w \in ClosedBy(p) : SameSpan(w, d)

(* While the clock goes forward, no two events have the same instant.      *)
Dated ==
  setBacks = 0 =>
    /\ \A v \in events : v.kind # "access" => v.plan.at > 0
    /\ \A v, w \in events : v.kind # "access" /\ w.kind # "access" /\ v.plan.at = w.plan.at => v = w
    /\ \A h \in Handlers : tx[h].pc = "store" =>
         /\ tx[h].plan.at > 0
         /\ \A v \in events : v.kind # "access" => v.plan.at # tx[h].plan.at
         /\ \A g \in Handlers \ {h} : tx[g].pc = "store" => tx[g].plan.at # tx[h].plan.at

LogInv ==
  /\ \A r \in rows : RowLogged(r)
  /\ \A v \in events : v.kind # "access" =>
       Rises(v.plan) /\ \A d \in v.plan.added : \E r \in rows : r.vid = d.vid /\ r.rec = v.plan.at
  /\ \A h \in Handlers : tx[h].pc = "store" =>
       Rises(tx[h].plan) /\ (tx[h].ask.reverts # {} => Undoes(tx[h].undo, tx[h].plan))
  /\ Dated

=============================================================================
