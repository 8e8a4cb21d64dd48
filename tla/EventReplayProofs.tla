-------------------------- MODULE EventReplayProofs ---------------------------
(***************************************************************************)
(* For every number of handlers, items and asks, every clock and every     *)
(* crash, at every moment: a rebuild from the events gives the table of    *)
(* versions again, but for the last accesses of corrected items.           *)
(***************************************************************************)
EXTENDS EventReplay, BitemporalStoreProofs

-----------------------------------------------------------------------------
\* What a rebuilt table has of the live one.

\* Row q of a rebuilt table is the row r of the live table as the events below
\* k left it.
Replayed(q, r, k) ==
  /\ q.vid = r.vid /\ SameSpan(q, r) /\ q.rec = r.rec /\ q.base = r.base /\ q.body = r.body
  /\ q.sup = IF \E v \in events : v.id < k /\ v.kind # "access" /\ r.vid \in v.plan.closed
             THEN r.sup ELSE Forever
  /\ r.item \in Reviewed \/ LastAccess(r.vid, k, q.access)

\* The table R is what the events below k give.
TableFits(R, k) ==
  /\ R \in SUBSET Rows
  /\ \A q, s \in R : q.vid = s.vid => q = s
  /\ \A q \in R : \E r \in rows : There(r.vid, k) /\ Replayed(q, r, k)
  /\ \A r \in rows : There(r.vid, k) => \E q \in R : Replayed(q, r, k)

\* All that is kept at once.
Kept == IInv /\ FitInv /\ HistoryInv /\ LogInv /\ ReplayInv

\* What the invariants say of a recorded plan, in one place.
LEMMA RecordFacts ==
  ASSUME Kept, NEW v \in events, v.kind # "access"
  PROVE  /\ v.id \in Nat /\ v.id > 0 /\ v.id < nextEvent /\ v.plan \in Plans /\ v.plan.at \in Instants
         /\ \A n \in v.plan.closed : There(n, v.id)
         /\ \A n \in v.plan.closed, r \in rows : r.vid = n => r.sup = v.plan.at
         /\ \A d \in v.plan.added :
              /\ d.live \/ d.base # None => There(d.base, v.id)
              /\ d.vid \notin Stored
              /\ d.live => d.item \in Reviewed
         /\ \A d, e \in v.plan.added : d.vid = e.vid => d = e
         /\ \A d \in v.plan.added : \E r \in rows :
              r.vid = d.vid /\ SameSpan(r, d) /\ r.base = d.base /\ r.rec = v.plan.at
<1>1. /\ TypeOK /\ RowsFit /\ EventFits(v) /\ Follows(v.plan, v.ask, v.id)
      /\ events \in SUBSET Events /\ v.id < nextEvent
  BY DEF Kept, IInv, FitInv, ReplayInv, IdsApart, TypeOK
<1>2. v.id \in Nat /\ v.id > 0 /\ v.plan \in Plans /\ v.plan.at \in Instants
  BY <1>1 DEF Events, Plans
<1>3. ASSUME NEW n \in v.plan.closed, NEW r \in rows, r.vid = n PROVE r.sup = v.plan.at
  BY <1>1, <1>3 DEF EventFits, RowsFit
<1>4. ASSUME NEW d \in v.plan.added, d.live PROVE d.item \in Reviewed
  BY <1>1, <1>4 DEF Follows, Reviewed
<1>5. ASSUME NEW d \in v.plan.added
      PROVE  \E r \in rows : r.vid = d.vid /\ SameSpan(r, d) /\ r.base = d.base /\ r.rec = v.plan.at
  <2>1. PICK r \in rows : r.vid = d.vid /\ SameSpan(r, d)
    BY <1>1 DEF EventFits
  <2>2. PICK s \in rows : s.vid = d.vid /\ s.base = d.base
    BY DEF Kept, HistoryInv
  <2>3. PICK o \in rows : o.vid = d.vid /\ o.rec = v.plan.at
    BY DEF Kept, LogInv
  <2>4. r = s /\ r = o
    BY <1>1, <2>1, <2>2, <2>3 DEF RowsFit
  <2> QED BY <2>1, <2>2, <2>3, <2>4
<1> QED BY <1>1, <1>2, <1>3, <1>4, <1>5 DEF Follows

\* A version is there from its event on.
LEMMA GivenOnce ==
  ASSUME Kept, NEW v \in events, v.kind # "access", NEW d \in v.plan.added, NEW k, There(d.vid, k)
  PROVE  v.id < k
<1>1. d.vid \notin Stored
  BY RecordFacts
<1>2. PICK w \in events : w.id < k /\ Gives(w, d.vid)
  BY <1>1 DEF There
<1>3. w.kind # "access" /\ \E e \in w.plan.added : e.vid = d.vid
  BY <1>2 DEF Gives
<1>4. v = w
  BY <1>3 DEF Kept, ReplayInv
<1> QED BY <1>2, <1>4

\* Nothing supersedes or touches a version before its event.
LEMMA NotYet ==
  ASSUME Kept, NEW v \in events, v.kind # "access", NEW d \in v.plan.added, NEW u \in events,
         IF u.kind = "access" THEN d.vid \in u.touched ELSE d.vid \in u.plan.closed
  PROVE  v.id < u.id
<1>1. There(d.vid, u.id)
  <2>1. CASE u.kind = "access"
    BY <2>1 DEF Kept, ReplayInv
  <2>2. CASE u.kind # "access"
    BY <2>2, RecordFacts
  <2> QED BY <2>1, <2>2
<1> QED BY <1>1, GivenOnce

\* The accesses of a version are the one it was written with and its readers'.
LEMMA AccessesMember ==
  ASSUME NEW n, NEW k, NEW t
  PROVE  t \in Accesses(n, k) <=>
           \/ t = 0 /\ n \in Stored
           \/ \E v \in events : v.kind # "access" /\ \E d \in v.plan.added : d.vid = n /\ t = d.access
           \/ \E v \in events : v.kind = "access" /\ v.id < k /\ n \in v.touched /\ t = v.plan.at
<1> DEFINE A == UNION {{d.access : d \in {e \in v.plan.added : e.vid = n}} :
                         v \in {w \in events : w.kind # "access"}}
           B == {v.plan.at : v \in {w \in events : w.kind = "access" /\ w.id < k /\ n \in w.touched}}
<1>1. t \in A <=> \E v \in events : v.kind # "access" /\ \E d \in v.plan.added : d.vid = n /\ t = d.access
  OBVIOUS
<1>2. t \in B <=> \E v \in events : v.kind = "access" /\ v.id < k /\ n \in v.touched /\ t = v.plan.at
  OBVIOUS
<1>3. Accesses(n, k) = {s \in {0} : n \in Stored} \cup A \cup B
  BY DEF Accesses
<1> HIDE DEF A, B
<1> QED BY <1>1, <1>2, <1>3

\* Accesses are instants.
LEMMA AccessesTyped ==
  ASSUME TypeOK, NEW n, NEW k
  PROVE  Accesses(n, k) \in SUBSET Nat
<1>1. events \in SUBSET Events
  BY DEF TypeOK
<1>2. ASSUME NEW v \in events PROVE v.plan.at \in Nat /\ \A d \in v.plan.added : d.access \in Nat
  BY <1>1, Numbers DEF Events, Plans, PlannedRows
<1> QED BY <1>2, AccessesMember

\* An identity that no event has changes nothing.
LEMMA SkipFits ==
  ASSUME Kept, NEW k \in Nat, \A v \in events : v.id # k, NEW R, TableFits(R, k)
  PROVE  TableFits(R, k + 1)
<1>1. \A v \in events : v.id \in Nat
  BY DEF Kept, IInv, TypeOK, Events
<1>2. \A v \in events : v.id < k + 1 <=> v.id < k
  BY <1>1
<1>3. \A n : There(n, k + 1) <=> There(n, k)
  BY <1>2 DEF There
<1>4. \A n : Accesses(n, k + 1) = Accesses(n, k)
  BY <1>2 DEF Accesses
<1>5. \A q, r : Replayed(q, r, k + 1) <=> Replayed(q, r, k)
  BY <1>2, <1>4 DEF Replayed, LastAccess
<1> QED BY <1>3, <1>5 DEF TableFits

\* The event with an identity adds itself to those below the next.
LEMMA NextBelow ==
  ASSUME Kept, NEW v \in events
  PROVE  /\ v.id \in Nat
         /\ \A w \in events : w.id < v.id + 1 <=> w.id < v.id \/ w = v
<1>1. \A w \in events : w.id \in Nat
  BY DEF Kept, IInv, TypeOK, Events
<1>2. \A w \in events : w.id = v.id => w = v
  BY DEF Kept, ReplayInv, IdsApart
<1> QED BY <1>1, <1>2

\* An access event touches what the live table was touched.
LEMMA AccessFits ==
  ASSUME Kept, NEW v \in events, v.kind = "access", NEW k, k = v.id, NEW R, TableFits(R, k)
  PROVE  TableFits(Touched(R, v.touched, v.plan.at), k + 1)
<1> DEFINE at == v.plan.at
           f(q) == IF q.vid \in v.touched /\ q.access < at THEN [q EXCEPT !.access = at] ELSE q
<1>1. /\ k \in Nat /\ \A w \in events : w.id < k + 1 <=> w.id < k \/ w = v
      /\ R \in SUBSET Rows /\ at \in Nat /\ TypeOK
  <2>1. TypeOK /\ events \in SUBSET Events
    BY DEF Kept, IInv, TypeOK
  <2>2. at \in Nat
    BY <2>1, Numbers DEF Events, Plans
  <2> QED BY <2>1, <2>2, NextBelow DEF TableFits
<1>2. Touched(R, v.touched, at) = {f(q) : q \in R}
  BY DEF Touched
<1>3. \A n : There(n, k + 1) <=> There(n, k)
  BY <1>1 DEF There, Gives
<1>4. /\ \A n : n \in v.touched => Accesses(n, k + 1) = Accesses(n, k) \cup {at}
      /\ \A n : n \notin v.touched => Accesses(n, k + 1) = Accesses(n, k)
  <2>1. ASSUME NEW n, NEW t
        PROVE  t \in Accesses(n, k + 1) <=> t \in Accesses(n, k) \/ (n \in v.touched /\ t = at)
    <3>1. (\E w \in events : w.kind = "access" /\ w.id < k + 1 /\ n \in w.touched /\ t = w.plan.at)
          <=> \/ \E w \in events : w.kind = "access" /\ w.id < k /\ n \in w.touched /\ t = w.plan.at
              \/ n \in v.touched /\ t = v.plan.at
      BY <1>1
    <3> QED BY <3>1, AccessesMember
  <2> HIDE DEF at
  <2> QED BY <2>1
<1>5. ASSUME NEW q \in R
      PROVE  /\ f(q) \in Rows /\ f(q).vid = q.vid /\ SameSpan(f(q), q) /\ f(q).rec = q.rec
             /\ f(q).base = q.base /\ f(q).body = q.body /\ f(q).sup = q.sup
             /\ f(q).access = IF q.vid \in v.touched /\ q.access < at THEN at ELSE q.access
             /\ q.access \in Nat
  <2>1. q \in Rows
    BY <1>1
  <2> QED BY <1>1, <2>1 DEF Rows, SameSpan
<1>6. ASSUME NEW q \in R, NEW r, Replayed(q, r, k) PROVE Replayed(f(q), r, k + 1)
  <2>1. q.vid = r.vid
    BY <1>6 DEF Replayed
  <2>2. (\E w \in events : w.id < k + 1 /\ w.kind # "access" /\ r.vid \in w.plan.closed)
        <=> \E w \in events : w.id < k /\ w.kind # "access" /\ r.vid \in w.plan.closed
    BY <1>1
  <2>3. ASSUME LastAccess(r.vid, k, q.access) PROVE LastAccess(r.vid, k + 1, f(q).access)
    <3>1. Accesses(r.vid, k) \in SUBSET Nat
      BY <1>1, AccessesTyped
    <3>2. CASE r.vid \in v.touched
      <4>1. f(q).access = IF q.access < at THEN at ELSE q.access
        BY <1>5, <2>1, <3>2
      <4> HIDE DEF f
      <4> QED BY <1>1, <1>4, <1>5, <2>3, <3>1, <3>2, <4>1 DEF LastAccess
    <3>3. CASE r.vid \notin v.touched
      <4>1. f(q).access = q.access
        BY <1>5, <2>1, <3>3
      <4> HIDE DEF f
      <4> QED BY <1>4, <2>3, <3>3, <4>1 DEF LastAccess
    <3> QED BY <3>2, <3>3
  <2> HIDE DEF f
  <2> QED BY <1>5, <1>6, <2>2, <2>3 DEF Replayed, SameSpan
<1> HIDE DEF f
<1> QED BY <1>2, <1>3, <1>5, <1>6 DEF TableFits

-----------------------------------------------------------------------------
\* What a recorded plan writes again.

\* A version that is there has a row, in both tables.
LEMMA ThereIsRow ==
  ASSUME Kept, NEW n, NEW k, There(n, k)
  PROVE  \E r \in rows : r.vid = n
<1>1. CASE n \in Stored
  BY <1>1 DEF Kept, ReplayInv
<1>2. CASE \E v \in events : Gives(v, n)
  <2>1. PICK v \in events : Gives(v, n)
    BY <1>2
  <2>2. PICK d \in v.plan.added : d.vid = n
    BY <2>1 DEF Gives
  <2> QED BY <2>1, <2>2, RecordFacts DEF Gives
<1> QED BY <1>1, <1>2 DEF There

\* A row that a recorded plan gives is written again as it was.
LEMMA WrittenAgain ==
  ASSUME Kept, NEW v \in events, v.kind # "access", NEW R, TableFits(R, v.id), NEW d \in v.plan.added,
         NEW w, w = Written(d, v.plan.at, R)
  PROVE  /\ w \in Rows /\ w.vid = d.vid
         /\ \E r \in rows : r.vid = d.vid /\ There(r.vid, v.id + 1) /\ Replayed(w, r, v.id + 1)
<1> DEFINE k == v.id
<1>1. /\ TypeOK /\ RowsFit /\ rows \in SUBSET Rows /\ BodyFits /\ R \in SUBSET Rows
      /\ \A q, s \in R : q.vid = s.vid => q = s
  BY DEF Kept, IInv, TypeOK, FitInv, HistoryInv, TableFits
<1>2. /\ k \in Nat /\ v.plan \in Plans /\ v.plan.at \in Instants
      /\ d.live \/ d.base # None => There(d.base, k)
      /\ d.live => d.item \in Reviewed
      /\ \A e \in v.plan.added : d.vid = e.vid => d = e
      /\ d.vid \notin Stored
  BY RecordFacts
<1>3. PICK r \in rows : r.vid = d.vid /\ SameSpan(r, d) /\ r.base = d.base /\ r.rec = v.plan.at
  BY RecordFacts
<1>4. /\ w.vid = r.vid /\ SameSpan(w, r) /\ w.rec = r.rec /\ w.base = r.base /\ w.sup = Forever
      /\ w.item = d.item /\ w.from = d.from /\ w.to = d.to
  BY <1>3 DEF Written, SameSpan
<1>5. ASSUME There(d.base, k)
      PROVE  \E q \in R, b \in rows : /\ q = (CHOOSE s \in R : s.vid = d.base)
                                      /\ b.vid = d.base /\ q.body = b.body /\ q.access \in Nat
  <2>1. PICK b \in rows : b.vid = d.base
    BY <1>5, ThereIsRow
  <2>2. PICK q \in R : Replayed(q, b, k)
    BY <1>5, <2>1 DEF TableFits
  <2>3. q.vid = d.base /\ q.body = b.body
    BY <2>1, <2>2 DEF Replayed
  <2>4. q = CHOOSE s \in R : s.vid = d.base
    BY <1>1, <2>3
  <2>5. q.access \in Nat
    BY <1>1 DEF Rows
  <2> QED BY <2>1, <2>3, <2>4, <2>5
<1>6. w.body = r.body
  <2>1. CASE d.base = None
    <3>1. w.body = d.vid
      BY <2>1 DEF Written
    <3>2. r.body = r.vid
      BY <1>3, <2>1 DEF Kept, LogInv, RowLogged
    <3> QED BY <1>3, <3>1, <3>2
  <2>2. CASE d.base # None
    <3>1. PICK q \in R, b \in rows : /\ q = (CHOOSE s \in R : s.vid = d.base)
                                     /\ b.vid = d.base /\ q.body = b.body
      BY <1>2, <1>5, <2>2
    <3>2. w.body = q.body
      BY <2>2, <3>1 DEF Written
    <3>3. PICK o \in rows : o.vid = r.base /\ o.body = r.body
      BY <1>1, <1>3, <2>2 DEF BodyFits
    <3>4. o = b
      BY <1>1, <1>3, <3>1, <3>3 DEF RowsFit
    <3> QED BY <3>1, <3>2, <3>3, <3>4
  <2> QED BY <2>1, <2>2
<1>7. w.access \in Nat /\ (~ d.live => w.access = d.access)
  <2>1. ASSUME ~ d.live PROVE w.access = d.access /\ d.access \in Nat
    BY <1>2, <2>1 DEF Written, Plans, PlannedRows
  <2>2. ASSUME d.live PROVE w.access \in Nat
    <3>1. PICK q \in R : q = (CHOOSE s \in R : s.vid = d.base) /\ q.access \in Nat
      BY <1>2, <1>5, <2>2
    <3>2. w.access = q.access
      BY <2>2, <3>1 DEF Written
    <3> QED BY <3>1, <3>2
  <2> QED BY <2>1, <2>2
<1>8. ASSUME NEW u \in events, u.id < k + 1
      PROVE  IF u.kind = "access" THEN d.vid \notin u.touched ELSE d.vid \notin u.plan.closed
  <2>1. u.id \in Nat
    BY NextBelow
  <2>2. ~ (k < u.id)
    BY <1>2, <1>8, <2>1
  <2> QED BY <2>2, NotYet
<1>9. r.item \in Reviewed \/ LastAccess(r.vid, k + 1, w.access)
  <2> SUFFICES ASSUME r.item \notin Reviewed PROVE LastAccess(d.vid, k + 1, d.access)
    BY <1>2, <1>3, <1>7 DEF SameSpan
  <2>1. d.access \in Accesses(d.vid, k + 1)
    BY AccessesMember
  <2>2. ASSUME NEW t \in Accesses(d.vid, k + 1) PROVE t = d.access
    <3>1. ASSUME NEW u \in events, u.kind # "access", NEW e \in u.plan.added, e.vid = d.vid
          PROVE  e = d
      <4>1. u = v
        BY <3>1 DEF Kept, ReplayInv
      <4> QED BY <1>2, <3>1, <4>1
    <3>2. \A u \in events : ~ (u.kind = "access" /\ u.id < k + 1 /\ d.vid \in u.touched)
      BY <1>8
    <3> HIDE DEF k
    <3> QED BY <1>2, <2>2, <3>1, <3>2, AccessesMember
  <2>3. d.access \in Nat
    BY <1>2 DEF Plans, PlannedRows
  <2> QED BY <2>1, <2>2, <2>3 DEF LastAccess
<1>10. ~ \E u \in events : u.id < k + 1 /\ u.kind # "access" /\ r.vid \in u.plan.closed
  BY <1>3, <1>8
<1>11. Replayed(w, r, k + 1)
  BY <1>4, <1>6, <1>9, <1>10 DEF Replayed
<1>12. There(r.vid, k + 1)
  <2>1. v.id < k + 1
    BY <1>2
  <2> QED BY <1>3, <2>1 DEF There, Gives
<1>13. w \in Rows
  <2>1. r \in Rows /\ d \in PlannedRows /\ Forever \in Ends /\ v.plan.at \in Instants
    BY <1>1, <1>2, Numbers DEF Plans, Ends
  <2>2. w = [vid |-> w.vid, item |-> w.item, from |-> w.from, to |-> w.to, rec |-> w.rec,
             sup |-> w.sup, base |-> w.base, body |-> w.body, access |-> w.access]
    BY DEF Written
  <2>3. /\ w.vid \in Nat \ {0} /\ w.item \in Items /\ w.from \in Instants /\ w.to \in Ends
        /\ w.rec \in Instants /\ w.sup \in Ends /\ w.base \in Nat /\ w.body \in Nat \ {0} /\ w.access \in Nat
    BY <1>3, <1>4, <1>6, <1>7, <2>1 DEF Rows, PlannedRows
  <2> HIDE DEF Written
  <2> QED BY <2>2, <2>3 DEF Rows
<1> QED BY <1>3, <1>4, <1>11, <1>12, <1>13

-----------------------------------------------------------------------------
\* The rebuild.

\* A row as the plan p leaves it.
Passed(q, p, R) == IF q \in Closing(p, R) THEN [q EXCEPT !.sup = p.at] ELSE q

\* What a plan makes of any table: the rows as it leaves them and its own.
LEMMA AppliedRows ==
  ASSUME NEW p, NEW R
  PROVE  Applied(p, R) = {Passed(q, p, R) : q \in R} \cup {Written(d, p.at, R) : d \in p.added}
<1>1. Closing(p, R) \subseteq R
  BY DEF Closing
<1>2. {Passed(q, p, R) : q \in R}
      = (R \ Closing(p, R)) \cup {[r EXCEPT !.sup = p.at] : r \in Closing(p, R)}
  BY <1>1 DEF Passed
<1> QED BY <1>2 DEF Applied

\* A row that a recorded plan finds is left as the live table has it.
LEMMA PassedAgain ==
  ASSUME Kept, NEW v \in events, v.kind # "access", NEW R \in SUBSET Rows, NEW q \in R,
         NEW r \in rows, Replayed(q, r, v.id), NEW w, w = Passed(q, v.plan, R)
  PROVE  w \in Rows /\ w.vid = q.vid /\ Replayed(w, r, v.id + 1)
<1> DEFINE p == v.plan
           k == v.id
<1>1. /\ k \in Nat /\ p.at \in Instants /\ \A u \in events : u.id < k + 1 <=> u.id < k \/ u = v
      /\ r.vid \in p.closed => r.sup = p.at
  BY RecordFacts, NextBelow
<1>2. q \in Rows /\ p.at \in Ends
  <2>1. \A t \in Instants : t \in Ends
    BY Numbers DEF Instants, Ends
  <2> QED BY <1>1, <2>1
<1>3. /\ w \in Rows /\ w.vid = q.vid /\ SameSpan(w, q) /\ w.rec = q.rec /\ w.base = q.base
      /\ w.body = q.body /\ w.access = q.access
      /\ w.sup = IF q \in Closing(p, R) THEN p.at ELSE q.sup
  <2>1. CASE q \in Closing(p, R)
    <3>1. w = [q EXCEPT !.sup = p.at]
      BY <2>1 DEF Passed
    <3> QED BY <1>2, <2>1, <3>1 DEF Rows, SameSpan
  <2>2. CASE q \notin Closing(p, R)
    BY <1>2, <2>2 DEF Passed, SameSpan
  <2> QED BY <2>1, <2>2
<1>4. Accesses(r.vid, k + 1) = Accesses(r.vid, k)
  BY <1>1 DEF Accesses
<1>5. r.item \in Reviewed \/ LastAccess(r.vid, k + 1, w.access)
  BY <1>3, <1>4 DEF Replayed, LastAccess
<1>6. q.vid = r.vid /\ q.sup = IF \E u \in events : u.id < k /\ u.kind # "access" /\ r.vid \in u.plan.closed
                               THEN r.sup ELSE Forever
  BY DEF Replayed
<1>7. (\E u \in events : u.id < k + 1 /\ u.kind # "access" /\ r.vid \in u.plan.closed)
      <=> \/ \E u \in events : u.id < k /\ u.kind # "access" /\ r.vid \in u.plan.closed
          \/ r.vid \in p.closed
  BY <1>1
<1>8. w.sup = IF \E u \in events : u.id < k + 1 /\ u.kind # "access" /\ r.vid \in u.plan.closed
              THEN r.sup ELSE Forever
  <2>1. q \in Closing(p, R) <=> r.vid \in p.closed /\ q.sup = Forever
    BY <1>6 DEF Closing, IsCurrent
  <2> HIDE DEF p, k
  <2>2. CASE r.vid \in p.closed
    <3>1. r.sup = p.at
      BY <1>1, <2>2
    <3>2. w.sup = r.sup
      BY <1>3, <1>6, <2>1, <2>2, <3>1
    <3> QED BY <1>7, <2>2, <3>2
  <2>3. CASE r.vid \notin p.closed
    BY <1>3, <1>6, <1>7, <2>1, <2>3
  <2> QED BY <2>2, <2>3
<1> QED BY <1>3, <1>5, <1>6, <1>8 DEF Replayed, SameSpan

\* A recorded event gives the rows that the live table got of it.
LEMMA RecordFits ==
  ASSUME Kept, NEW v \in events, v.kind # "access", NEW k, k = v.id, NEW R, TableFits(R, k)
  PROVE  TableFits(Applied(v.plan, R), k + 1)
<1>1. /\ TypeOK /\ RowsFit /\ R \in SUBSET Rows /\ \A q, s \in R : q.vid = s.vid => q = s
      /\ k \in Nat /\ \A u \in events : u.id < k + 1 <=> u.id < k \/ u = v
  BY NextBelow DEF Kept, IInv, FitInv, TableFits
<1>2. PICK p : p = v.plan
  OBVIOUS
<1>3. ASSUME NEW q \in R
      PROVE  /\ Passed(q, p, R) \in Rows /\ Passed(q, p, R).vid = q.vid
             /\ \E r \in rows : There(r.vid, k) /\ q.vid = r.vid /\ Replayed(Passed(q, p, R), r, k + 1)
  <2>1. PICK r \in rows : There(r.vid, k) /\ Replayed(q, r, k)
    BY DEF TableFits
  <2>2. q.vid = r.vid
    BY <2>1 DEF Replayed
  <2> QED BY <1>1, <1>2, <2>1, <2>2, PassedAgain
<1>4. ASSUME NEW d \in p.added
      PROVE  /\ Written(d, p.at, R) \in Rows /\ Written(d, p.at, R).vid = d.vid
             /\ \E r \in rows : r.vid = d.vid /\ There(r.vid, k + 1) /\ Replayed(Written(d, p.at, R), r, k + 1)
  BY <1>2, WrittenAgain
<1>5. PICK T : T = Applied(p, R)
  OBVIOUS
<1>6. T = {Passed(q, p, R) : q \in R} \cup {Written(d, p.at, R) : d \in p.added}
  BY <1>5, AppliedRows
<1>7. \A n : There(n, k + 1) <=> There(n, k) \/ \E d \in p.added : d.vid = n
  BY <1>1, <1>2 DEF There, Gives
<1>8. T \in SUBSET Rows
  BY <1>3, <1>4, <1>6
<1>9. ASSUME NEW q \in R, NEW d \in p.added PROVE q.vid # d.vid
  <2>1. There(q.vid, k)
    BY <1>3
  <2>2. There(d.vid, k) => v.id < k
    BY <1>2, GivenOnce
  <2> QED BY <1>1, <2>1, <2>2
<1>10. ASSUME NEW s \in T, NEW t \in T, s.vid = t.vid PROVE s = t
  <2>1. \A d, e \in p.added : d.vid = e.vid => d = e
    BY <1>2, RecordFacts
  <2> QED BY <1>1, <1>3, <1>4, <1>6, <1>9, <1>10, <2>1
<1>11. ASSUME NEW s \in T PROVE \E r \in rows : There(r.vid, k + 1) /\ Replayed(s, r, k + 1)
  BY <1>3, <1>4, <1>6, <1>7
<1>12. ASSUME NEW r \in rows, There(r.vid, k + 1) PROVE \E s \in T : Replayed(s, r, k + 1)
  <2>1. CASE There(r.vid, k)
    <3>1. PICK q \in R : Replayed(q, r, k)
      BY <2>1 DEF TableFits
    <3>2. Replayed(Passed(q, p, R), r, k + 1)
      BY <1>1, <1>2, <3>1, PassedAgain
    <3> QED BY <1>6, <3>2
  <2>2. CASE \E d \in p.added : d.vid = r.vid
    <3>1. PICK d \in p.added : d.vid = r.vid
      BY <2>2
    <3>2. PICK o \in rows : o.vid = d.vid /\ Replayed(Written(d, p.at, R), o, k + 1)
      BY <1>4
    <3>3. o = r
      BY <1>1, <3>1, <3>2 DEF RowsFit
    <3> QED BY <1>6, <3>2, <3>3
  <2> QED BY <1>7, <1>12, <2>1, <2>2
<1>13. TableFits(T, k + 1)
  BY <1>8, <1>10, <1>11, <1>12 DEF TableFits
<1> QED BY <1>2, <1>5, <1>13

\* Before the first event there are the versions that were there before.
LEMMA EarlierFits ==
  ASSUME Kept
  PROVE  TableFits(Earlier, 1)
<1>1. TypeOK /\ \A v \in events : v.id \in Nat /\ ~ (v.id < 1)
  BY DEF Kept, IInv, TypeOK, Events
<1>2. \A n : There(n, 1) <=> n \in Stored
  BY <1>1 DEF There
<1>3. ASSUME NEW n \in Stored PROVE \A t : t \in Accesses(n, 1) <=> t = 0
  <2>1. ~ \E v \in events : v.kind # "access" /\ \E d \in v.plan.added : d.vid = n
    BY RecordFacts
  <2> QED BY <1>1, <2>1, AccessesMember
<1>4. ASSUME NEW e \in Earlier
      PROVE  /\ e \in Rows /\ e.vid \in Stored /\ e.sup = Forever /\ e.access = 0
             /\ e = [vid |-> e.vid, item |-> e.vid, from |-> 0, to |-> Forever, rec |-> 0, sup |-> Forever,
                     base |-> None, body |-> e.vid, access |-> 0]
  <2>1. PICK i \in Stored : e = [vid |-> i, item |-> i, from |-> 0, to |-> Forever, rec |-> 0,
                                 sup |-> Forever, base |-> None, body |-> i, access |-> 0]
    BY DEF Earlier
  <2>2. i \in Items /\ i \in Nat \ {0}
    BY Numbers, BitemporalAssumption DEF Items
  <2> QED BY <2>1, <2>2, Numbers DEF Rows, None, Ends
<1>5. ASSUME NEW i \in Stored PROVE \E e \in Earlier : e.vid = i
  <2>1. PICK e : e = [vid |-> i, item |-> i, from |-> 0, to |-> Forever, rec |-> 0,
                      sup |-> Forever, base |-> None, body |-> i, access |-> 0]
    OBVIOUS
  <2>2. e.vid = i
    BY <2>1
  <2>3. e \in Earlier
    BY <2>1 DEF Earlier
  <2> QED BY <2>2, <2>3
<1>6. ASSUME NEW e \in Earlier, NEW r \in rows, r.vid = e.vid PROVE Replayed(e, r, 1)
  <2>1. RowGiven(r)
    BY DEF Kept, ReplayInv
  <2>2. ~ \E v \in events : Gives(v, r.vid)
    BY <1>4, <1>6, RecordFacts DEF Gives
  <2>3. PICK o \in Earlier : /\ r.vid = o.vid /\ SameSpan(r, o) /\ r.rec = o.rec
                             /\ r.base = o.base /\ r.body = o.body
    BY <2>1, <2>2 DEF RowGiven
  <2>4. o = e
    BY <1>4, <1>6, <2>3
  <2>5. LastAccess(r.vid, 1, e.access)
    BY <1>3, <1>4, <1>6 DEF LastAccess
  <2> QED BY <1>1, <1>4, <2>3, <2>4, <2>5 DEF Replayed, SameSpan
<1>7. \A q, s \in Earlier : q.vid = s.vid => q = s
  BY <1>4
<1>8. \A e \in Earlier : \E r \in rows : r.vid = e.vid
  BY <1>4 DEF Kept, ReplayInv
<1>9. Earlier \in SUBSET Rows
  BY <1>4
<1> QED BY <1>2, <1>4, <1>5, <1>6, <1>7, <1>8, <1>9 DEF TableFits

\* What the event with identity n makes of a table.
NextTable(T, n) == IF \E w \in events : w.id = n THEN Redone(CHOOSE w \in events : w.id = n, T) ELSE T

\* Whether there is such an event or not, the table then fits.
LEMMA NextFits ==
  ASSUME Kept, NEW n \in Nat, NEW R, TableFits(R, n)
  PROVE  TableFits(NextTable(R, n), n + 1)
<1>1. CASE \E w \in events : w.id = n
  <2>1. PICK v \in events : v.id = n /\ v = (CHOOSE w \in events : w.id = n)
    BY <1>1
  <2>2. NextTable(R, n) = Redone(v, R)
    BY <1>1, <2>1 DEF NextTable
  <2>3. CASE v.kind = "access"
    BY <2>1, <2>2, <2>3, AccessFits DEF Redone
  <2>4. CASE v.kind # "access"
    BY <2>1, <2>2, <2>4, RecordFits DEF Redone
  <2> QED BY <2>3, <2>4
<1>2. CASE ~ \E w \in events : w.id = n
  BY <1>2, SkipFits DEF NextTable
<1> QED BY <1>1, <1>2

\* The table of one identity by that of the one before.
TableOf(f, n) == IF n = 0 THEN Earlier ELSE NextTable(f[n - 1], n)

\* The rebuild as a function that is given by its own values before.
LEMMA RebuildForm ==
  Rebuild = CHOOSE f : f = [n \in 0 .. nextEvent - 1 |-> TableOf(f, n)]
BY DEF Rebuild, TableOf, NextTable

\* Earlier tables decide about later ones, so there is a rebuild.
LEMMA RebuildExists ==
  ASSUME NEW N \in Nat
  PROVE  \E f : f = [n \in 0 .. N |-> TableOf(f, n)]
<1> DEFINE T == {k \in 0 .. N : \E f : f = [n \in 0 .. k |-> TableOf(f, n)]}
<1>1. T \in SUBSET Nat /\ 0 \in T
  <2> DEFINE f == [n \in 0 .. 0 |-> Earlier]
  <2>1. \A n \in 0 .. 0 : n = 0
    OBVIOUS
  <2>2. f = [n \in 0 .. 0 |-> TableOf(f, n)]
    BY <2>1 DEF TableOf
  <2> HIDE DEF f
  <2> QED BY <2>2
<1>2. IsFiniteSet(T)
  <2>1. T \subseteq 0 .. N
    OBVIOUS
  <2>2. IsFiniteSet(0 .. N)
    BY FS_Interval
  <2> HIDE DEF T
  <2> QED BY <2>1, <2>2, FS_Subset
<1>3. PICK k \in T : \A j \in T : j <= k
  <2> HIDE DEF T
  <2> QED BY <1>1, <1>2, LargestNatural
<1>4. PICK f : f = [n \in 0 .. k |-> TableOf(f, n)]
  OBVIOUS
<1>5. CASE k = N
  BY <1>4, <1>5
<1>6. CASE k # N
  <2>0. k \in Nat /\ k + 1 \in 0 .. N /\ ~ (k + 1 <= k)
    BY <1>6
  <2> DEFINE last == TableOf(f, k + 1)
             g == [n \in 0 .. k + 1 |-> IF n = k + 1 THEN last ELSE f[n]]
  <2>1. ASSUME NEW n \in 0 .. k + 1 PROVE g[n] = TableOf(g, n)
    <3>1. n # 0 => g[n - 1] = f[n - 1] /\ n - 1 \in 0 .. k
      BY <2>0
    <3>2. g[n] = IF n = k + 1 THEN TableOf(f, k + 1) ELSE f[n]
      OBVIOUS
    <3>3. n # k + 1 => n \in 0 .. k
      BY <2>0
    <3> HIDE DEF g, T
    <3>4. TableOf(g, n) = TableOf(f, n)
      BY <3>1 DEF TableOf
    <3>5. n # k + 1 => f[n] = TableOf(f, n)
      BY <1>4, <3>3
    <3> QED BY <3>2, <3>4, <3>5
  <2>2. g = [n \in 0 .. k + 1 |-> TableOf(g, n)]
    <3>1. g = [n \in 0 .. k + 1 |-> g[n]]
      OBVIOUS
    <3> HIDE DEF g
    <3> QED BY <2>1, <3>1
  <2>3. k + 1 \in T
    <3> HIDE DEF g
    <3> QED BY <2>0, <2>2
  <2> QED BY <1>3, <2>0, <2>3
<1> QED BY <1>5, <1>6

\* Every table of the rebuild fits.
LEMMA RebuildFits ==
  ASSUME Kept
  PROVE  TableFits(Rebuilt, nextEvent)
<1> DEFINE N == nextEvent - 1
           Bad == {n \in 0 .. N : ~ TableFits(Rebuild[n], n + 1)}
<1>1. nextEvent \in Nat /\ N \in Nat /\ N + 1 = nextEvent
  BY DEF Kept, IInv, TypeOK
<1>2. PICK f : f = Rebuild
  OBVIOUS
<1>3. f = [n \in 0 .. N |-> TableOf(f, n)]
  BY <1>1, <1>2, RebuildForm, RebuildExists
<1>4. \A n \in 0 .. N : f[n] = TableOf(f, n)
  BY <1>3
<1>5. Bad = {}
  <2> SUFFICES ASSUME Bad # {} PROVE FALSE
    OBVIOUS
  <2>1. Bad \in SUBSET Nat
    OBVIOUS
  <2>2. PICK n \in Bad : \A m \in Bad : n <= m
    <3> HIDE DEF Bad
    <3> QED BY <2>1, LeastNatural
  <2>3. n \in 0 .. N /\ ~ TableFits(f[n], n + 1)
    BY <1>2
  <2>4. CASE n = 0
    <3>1. f[n] = Earlier
      BY <1>4, <2>3, <2>4 DEF TableOf
    <3> QED BY <2>3, <2>4, <3>1, EarlierFits
  <2>5. CASE n # 0
    <3>1. n \in Nat /\ n - 1 \in 0 .. N /\ ~ (n <= n - 1) /\ (n - 1) + 1 = n
      BY <1>1, <2>3, <2>5
    <3>2. n - 1 \notin Bad
      BY <2>2, <3>1
    <3>3. TableFits(f[n - 1], n)
      BY <1>2, <3>1, <3>2
    <3>4. f[n] = NextTable(f[n - 1], n)
      BY <1>4, <2>3, <2>5 DEF TableOf
    <3>5. PICK R : R = f[n - 1]
      OBVIOUS
    <3>6. TableFits(NextTable(R, n), n + 1)
      BY <3>1, <3>3, <3>5, NextFits
    <3> QED BY <2>3, <3>4, <3>5, <3>6
  <2> QED BY <2>4, <2>5
<1>6. N \in 0 .. N
  BY <1>1
<1>7. TableFits(Rebuild[N], N + 1)
  BY <1>5, <1>6
<1> QED BY <1>1, <1>7 DEF Rebuilt

\* So a rebuild gives back the live table.
LEMMA RebuildIs ==
  ASSUME Kept
  PROVE  RebuildGivesTheFacts
<1>1. PICK R : R = Rebuilt
  OBVIOUS
<1>2. /\ TableFits(R, nextEvent) /\ R \in SUBSET Rows /\ rows \in SUBSET Rows /\ TypeOK
      /\ \A v \in events : v.id < nextEvent
  BY <1>1, RebuildFits DEF TableFits, Kept, IInv, TypeOK, ReplayInv, IdsApart
<1>3. ASSUME NEW r \in rows PROVE There(r.vid, nextEvent)
  <2>1. RowGiven(r)
    BY DEF Kept, ReplayInv
  <2>2. \A e \in Earlier : e.vid \in Stored
    BY DEF Earlier
  <2> QED BY <1>2, <2>1, <2>2 DEF RowGiven, There
<1>4. ASSUME NEW q \in R, NEW r \in rows, Replayed(q, r, nextEvent)
      PROVE  /\ [q EXCEPT !.access = 0] = [r EXCEPT !.access = 0]
             /\ q.item = r.item
             /\ r.item \in Reviewed \/ q = r
  <2>1. r.sup = Forever \/ \E v \in events : v.kind # "access" /\ r.vid \in v.plan.closed
    BY DEF Kept, LogInv, RowLogged, IsCurrent
  <2>2. q.sup = r.sup
    BY <1>2, <1>4, <2>1 DEF Replayed
  <2>3. /\ q.vid = r.vid /\ q.item = r.item /\ q.from = r.from /\ q.to = r.to /\ q.rec = r.rec
        /\ q.base = r.base /\ q.body = r.body
        /\ r.item \in Reviewed \/ LastAccess(r.vid, nextEvent, q.access)
    BY <1>4 DEF Replayed, SameSpan
  <2>4. q \in Rows /\ r \in Rows
    BY <1>2
  <2>5. r.item \in Reviewed \/ q.access = r.access
    <3>1. r.item \in Reviewed \/ LastAccess(r.vid, nextEvent, r.access)
      BY DEF Kept, ReplayInv
    <3>2. q.access \in Nat /\ r.access \in Nat
      BY <2>4 DEF Rows
    <3> QED BY <2>3, <3>1, <3>2 DEF LastAccess
  <2>6. [q EXCEPT !.access = 0] = [r EXCEPT !.access = 0]
    BY <2>2, <2>3, <2>4 DEF Rows
  <2>7. q.access = r.access => q = r
    BY <2>2, <2>3, <2>4 DEF Rows
  <2> QED BY <2>3, <2>5, <2>6, <2>7
<1>5. \A q \in R : \E r \in rows : Replayed(q, r, nextEvent)
  BY <1>2 DEF TableFits
<1>6. \A r \in rows : \E q \in R : Replayed(q, r, nextEvent)
  BY <1>2, <1>3 DEF TableFits
<1>7. Facts(R) = Facts(rows)
  <2>1. ASSUME NEW q \in R PROVE \E r \in rows : [q EXCEPT !.access = 0] = [r EXCEPT !.access = 0]
    BY <1>4, <1>5
  <2>2. ASSUME NEW r \in rows PROVE \E q \in R : [q EXCEPT !.access = 0] = [r EXCEPT !.access = 0]
    BY <1>4, <1>6
  <2> DEFINE bare(r) == [r EXCEPT !.access = 0]
  <2>3. Facts(R) = {bare(q) : q \in R} /\ Facts(rows) = {bare(r) : r \in rows}
    BY DEF Facts
  <2>4. /\ \A q \in R : \E r \in rows : bare(q) = bare(r)
        /\ \A r \in rows : \E q \in R : bare(q) = bare(r)
    BY <2>1, <2>2
  <2> HIDE DEF bare
  <2> QED BY <2>3, <2>4
<1>8. \A r \in rows \cup R : r \in rows \cap R \/ r.item \in Reviewed
  BY <1>4, <1>5, <1>6
<1> QED BY <1>1, <1>7, <1>8 DEF RebuildGivesTheFacts

-----------------------------------------------------------------------------
\* What a replay needs, through the steps that add nothing to the log.

\* What an event needs of earlier ones.
EventFollows(v) ==
  IF v.kind = "access" THEN \A n \in v.touched : There(n, v.id) ELSE Follows(v.plan, v.ask, v.id)

\* What a plan that waits needs, and what a reversal takes back.
UndoTold(h) ==
  tx[h].pc \in Working /\ tx[h].ask.reverts # {} =>
    \E u \in tx[h].ask.reverts : u.item = tx[h].undo.item

TxFollows(h) ==
  /\ tx[h].pc = "store" => Follows(tx[h].plan, tx[h].ask, tx[h].plan.event)
  /\ UndoTold(h)

\* No two events give one version.
GivesApart ==
  \A v, w \in events : v.kind # "access" /\ w.kind # "access" =>
    \A d \in v.plan.added, e \in w.plan.added : d.vid = e.vid => v = w

\* What is kept of a row.
RowFollows(r) == RowGiven(r) /\ (r.item \in Reviewed \/ LastAccess(r.vid, nextEvent, r.access))

\* What the log has stays in it.
LEMMA ThereStays ==
  ASSUME events \subseteq events', NEW n, NEW k, There(n, k)
  PROVE  There(n, k)'
BY DEF There, Gives

\* A plan goes on having what it needs.
LEMMA FollowsStays ==
  ASSUME events \subseteq events', NEW p, NEW a, NEW k, Follows(p, a, k)
  PROVE  Follows(p, a, k)'
<1>1. \A n : There(n, k) => There(n, k)'
  BY ThereStays
<1> QED BY <1>1 DEF Follows

\* So does an event.
LEMMA EventFollowsStays ==
  ASSUME events \subseteq events', NEW v, EventFollows(v)
  PROVE  EventFollows(v)'
<1>1. CASE v.kind = "access"
  <2>1. \A n \in v.touched : There(n, v.id)'
    BY <1>1, ThereStays DEF EventFollows
  <2> QED BY <1>1, <2>1 DEF EventFollows
<1>2. CASE v.kind # "access"
  <2>1. Follows(v.plan, v.ask, v.id)'
    BY <1>2, FollowsStays DEF EventFollows
  <2> QED BY <1>2, <2>1 DEF EventFollows
<1> QED BY <1>1, <1>2

\* A handler's part, of its transaction.
LEMMA TxFollowsOf ==
  ASSUME NEW h \in Handlers, NEW x, tx'[h] = x,
         x.pc = "store" => Follows(x.plan, x.ask, x.plan.event)',
         x.pc \in Working /\ x.ask.reverts # {} => \E u \in x.ask.reverts : u.item = x.undo.item
  PROVE  TxFollows(h)'
<1>1. ASSUME x.pc = "store" PROVE Follows(tx[h].plan, tx[h].ask, tx[h].plan.event)'
  BY <1>1 DEF Follows, There, Gives
<1> QED BY <1>1 DEF TxFollows, UndoTold

\* A step that adds to the log, and keeps the rest.
LEMMA ReplayStays ==
  ASSUME ReplayInv, events \subseteq events', IdsApart', GivesApart',
         \A i \in Stored : \E r \in rows' : r.vid = i,
         \A r \in rows' : RowFollows(r)',
         \A v \in events' : v \in events \/ EventFollows(v)',
         \A x \in reader' : x \in reader \/ There(x.vid, x.id)',
         \A h \in Handlers : tx'[h] = tx[h] \/ TxFollows(h)'
  PROVE  ReplayInv'
<1>1. ASSUME NEW v \in events' PROVE EventFollows(v)'
  <2>1. v \in events => EventFollows(v)
    BY DEF ReplayInv, EventFollows
  <2> QED BY <2>1, EventFollowsStays
<1>2. ASSUME NEW x \in reader' PROVE There(x.vid, x.id)'
  <2>1. x \in reader => There(x.vid, x.id)
    BY DEF ReplayInv
  <2> QED BY <2>1, ThereStays
<1>3. ASSUME NEW h \in Handlers PROVE TxFollows(h)'
  <2> SUFFICES ASSUME tx'[h] = tx[h] PROVE TxFollows(h)'
    OBVIOUS
  <2>1. PICK x : x = tx[h]
    OBVIOUS
  <2>2. /\ x.pc = "store" => Follows(x.plan, x.ask, x.plan.event)
        /\ x.pc \in Working /\ x.ask.reverts # {} => \E u \in x.ask.reverts : u.item = x.undo.item
    BY <2>1 DEF ReplayInv
  <2>3. x.pc = "store" => Follows(x.plan, x.ask, x.plan.event)'
    BY <2>2, FollowsStays
  <2> QED BY <2>1, <2>2, <2>3, TxFollowsOf
<1> QED BY <1>1, <1>2, <1>3 DEF ReplayInv, EventFollows, TxFollows, UndoTold, GivesApart, RowFollows

\* A version that has a row is there.
LEMMA RowIsThere ==
  ASSUME ReplayInv, NEW r \in rows
  PROVE  There(r.vid, nextEvent)
<1>1. RowGiven(r) /\ \A v \in events : v.id < nextEvent
  BY DEF ReplayInv, IdsApart
<1>2. \A e \in Earlier : e.vid \in Stored
  BY DEF Earlier
<1> QED BY <1>1, <1>2 DEF RowGiven, There

\* A step of one handler that plans nothing.
LEMMA QuietReplay ==
  ASSUME IInv, ReplayInv, rows' = rows, events' = events, reader' = reader, nextEvent' = nextEvent,
         \A h \in Handlers : tx'[h] = tx[h] \/ (tx'[h].pc # "store" /\ UndoTold(h)')
  PROVE  ReplayInv'
<1>1. IdsApart'
  BY DEF ReplayInv, IdsApart
<1>2. GivesApart'
  BY DEF ReplayInv, GivesApart
<1>3. Reviewed' = Reviewed /\ \A n, k, t : LastAccess(n, k, t) => LastAccess(n, k, t)'
  BY DEF Reviewed, LastAccess, Accesses
<1>4. \A r \in rows' : RowFollows(r)'
  <2> SUFFICES ASSUME NEW r \in rows PROVE RowFollows(r)'
    OBVIOUS
  <2>1. RowGiven(r)'
    BY DEF ReplayInv, RowGiven, Gives, Earlier, SameSpan
  <2>2. r.item \in Reviewed' \/ LastAccess(r.vid, nextEvent, r.access)'
    <3>1. PICK n : n = nextEvent
      OBVIOUS
    <3>2. r.item \in Reviewed \/ LastAccess(r.vid, n, r.access)
      BY <3>1 DEF ReplayInv
    <3>3. LastAccess(r.vid, n, r.access)' => LastAccess(r.vid, nextEvent, r.access)'
      BY <3>1 DEF LastAccess, Accesses
    <3> QED BY <1>3, <3>2, <3>3
  <2> QED BY <2>1, <2>2 DEF RowFollows
<1>5. \A h \in Handlers : tx'[h] = tx[h] \/ TxFollows(h)'
  BY DEF TxFollows
<1>6. \A i \in Stored : \E r \in rows' : r.vid = i
  BY DEF ReplayInv
<1> QED BY <1>1, <1>2, <1>4, <1>5, <1>6, ReplayStays

\* The item that a reversal takes back is its ask's.
LEMMA UndoStays ==
  ASSUME IInv, ReplayInv, NEW h \in Handlers,
         \/ \E a \in Asks : Begin(h, a) \/ BeginReversal(h, a)
         \/ LockRequest(h) \/ \E i \in Items : LockItem(h, i)
         \/ Decide(h) \/ Rollback(h)
  PROVE  \A g \in Handlers : tx'[g] = tx[g] \/ UndoTold(g)'
<1>1. tx \in [Handlers -> Txs] /\ UndoTold(h)
  BY DEF IInv, TypeOK, ReplayInv, UndoTold
<1>2. ASSUME NEW x, tx' = [tx EXCEPT ![h] = x],
             x.pc \in Working /\ x.ask.reverts # {} => \E u \in x.ask.reverts : u.item = x.undo.item
      PROVE  \A g \in Handlers : tx'[g] = tx[g] \/ UndoTold(g)'
  <2>1. tx'[h] = x /\ \A g \in Handlers \ {h} : tx'[g] = tx[g]
    BY <1>1, <1>2, TxUpdate
  <2>2. UndoTold(h)'
    BY <1>2, <2>1 DEF UndoTold
  <2> QED BY <2>1, <2>2
<1>3. ASSUME NEW what, NEW n, Reply(h, what, n)
      PROVE  \A g \in Handlers : tx'[g] = tx[g] \/ UndoTold(g)'
  <2>1. PICK x : x = Ended(h, what, n)
    OBVIOUS
  <2>2. x.pc = "done" /\ tx' = [tx EXCEPT ![h] = x]
    BY <1>3, <2>1 DEF Reply, Ended
  <2>3. x.pc \notin Working
    BY <2>2 DEF Working, Locking
  <2> QED BY <1>2, <2>2, <2>3
<1>4. ASSUME NEW a \in Asks, Begin(h, a)
      PROVE  \A g \in Handlers : tx'[g] = tx[g] \/ UndoTold(g)'
  <2>0. PICK x :
          x = [pc |-> IF ~ Known(a) THEN "done" ELSE IF IsWrite(a) THEN "key" ELSE "locks",
               ask |-> a,
               pending |-> IF Known(a) THEN {u \in a.updates : Current(u.item) # {}} ELSE {},
               undo |-> NoUndo, held |-> {}, seen |-> {}, plan |-> NoPlan,
               reply |-> IF Known(a) THEN "none" ELSE "notFound", answer |-> 0]
    OBVIOUS
  <2>1. x.ask = a /\ tx' = [tx EXCEPT ![h] = x]
    BY <1>4, <2>0 DEF Begin
  <2>2. a.reverts = {}
    BY <1>4 DEF Begin
  <2> QED BY <1>2, <2>1, <2>2
<1>5. ASSUME NEW a \in Asks, BeginReversal(h, a)
      PROVE  \A g \in Handlers : tx'[g] = tx[g] \/ UndoTold(g)'
  <2>1. \E x, u : /\ u \in a.reverts /\ x.ask = a /\ tx' = [tx EXCEPT ![h] = x]
                  /\ x.pc = "done" \/ x.undo.item = u.item
    BY <1>5 DEF BeginReversal
  <2>2. PICK x, u : /\ u \in a.reverts /\ x.ask = a /\ tx' = [tx EXCEPT ![h] = x]
                    /\ x.pc = "done" \/ x.undo.item = u.item
    BY <2>1
  <2>3. "done" \notin Working
    BY DEF Working, Locking
  <2> QED BY <1>2, <2>2, <2>3
<1>6. ASSUME LockRequest(h) \/ \E i \in Items : LockItem(h, i)
      PROVE  \A g \in Handlers : tx'[g] = tx[g] \/ UndoTold(g)'
  <2>1. tx[h] \in Txs /\ tx[h].pc \in Working
    BY <1>1, <1>6 DEF LockRequest, LockItem, Working, Locking
  <2>2. \E x : x.ask = tx[h].ask /\ x.undo = tx[h].undo /\ tx' = [tx EXCEPT ![h] = x]
    <3>1. CASE LockRequest(h)
      <4>1. PICK x : x = [tx[h] EXCEPT !.pc = "locks"]
        OBVIOUS
      <4>2. x.ask = tx[h].ask /\ x.undo = tx[h].undo
        BY <2>1, <4>1 DEF Txs
      <4>3. tx' = [tx EXCEPT ![h] = x]
        BY <3>1, <4>1 DEF LockRequest
      <4> QED BY <4>2, <4>3
    <3>2. ASSUME NEW i \in Items, LockItem(h, i)
          PROVE  \E x : x.ask = tx[h].ask /\ x.undo = tx[h].undo /\ tx' = [tx EXCEPT ![h] = x]
      <4>1. PICK x : x = [tx[h] EXCEPT !.held = @ \cup {i}]
        OBVIOUS
      <4>2. x.ask = tx[h].ask /\ x.undo = tx[h].undo
        BY <2>1, <4>1 DEF Txs
      <4>3. tx' = [tx EXCEPT ![h] = x]
        BY <3>2, <4>1 DEF LockItem
      <4> QED BY <4>2, <4>3
    <3> QED BY <1>6, <3>1, <3>2
  <2>3. PICK x : x.ask = tx[h].ask /\ x.undo = tx[h].undo /\ tx' = [tx EXCEPT ![h] = x]
    BY <2>2
  <2> QED BY <1>1, <1>2, <2>1, <2>3 DEF UndoTold
<1>7. ASSUME Decide(h) PROVE \A g \in Handlers : tx'[g] = tx[g] \/ UndoTold(g)'
  <2>1. tx[h].pc \in Working
    BY <1>7 DEF Decide, Working, Locking
  <2>2. \/ \E what, n : Reply(h, what, n)
        \/ \E x : x.ask = tx[h].ask /\ x.undo = tx[h].undo /\ tx' = [tx EXCEPT ![h] = x]
    BY <1>7 DEF Decide
  <2>3. ASSUME NEW x, x.ask = tx[h].ask, x.undo = tx[h].undo, tx' = [tx EXCEPT ![h] = x]
        PROVE  \A g \in Handlers : tx'[g] = tx[g] \/ UndoTold(g)'
    BY <1>1, <1>2, <2>1, <2>3 DEF UndoTold
  <2> QED BY <1>3, <2>2, <2>3
<1>8. ASSUME Rollback(h) PROVE \A g \in Handlers : tx'[g] = tx[g] \/ UndoTold(g)'
  BY <1>3, <1>8 DEF Rollback
<1> QED BY <1>4, <1>5, <1>6, <1>7, <1>8

\* No step but a build, a commit and those of readers changes the log or the
\* identities.
LEMMA QuietReplays ==
  ASSUME IInv, ReplayInv, NEW h \in Handlers,
         \/ \E a \in Asks : Begin(h, a) \/ BeginReversal(h, a)
         \/ LockRequest(h) \/ \E i \in Items : LockItem(h, i)
         \/ Decide(h) \/ Rollback(h)
  PROVE  ReplayInv'
<1>1. /\ rows' = rows /\ events' = events
      /\ \A g \in Handlers : tx'[g] = tx[g] \/ tx'[g].pc # "store"
  BY QuietSteps
<1>2. reader' = reader /\ nextEvent' = nextEvent
  BY DEF Begin, BeginReversal, LockRequest, LockItem, Decide, Rollback, sequences
<1>3. \A g \in Handlers : tx'[g] = tx[g] \/ UndoTold(g)'
  BY UndoStays
<1> QED BY <1>1, <1>2, <1>3, QuietReplay

\* The first table is the first of the replay.
LEMMA InitReplay ==
  ASSUME Init
  PROVE  ReplayInv
<1>1. events = {} /\ reader = {} /\ rows = Earlier /\ \A h \in Handlers : tx[h].pc = "idle"
  BY DEF Init, NoTx, Earlier
<1>2. IdsApart
  BY <1>1 DEF IdsApart
<1>3. ASSUME NEW i \in Stored PROVE \E r \in rows : r.vid = i
  <2>1. PICK e : e = [vid |-> i, item |-> i, from |-> 0, to |-> Forever, rec |-> 0,
                      sup |-> Forever, base |-> None, body |-> i, access |-> 0]
    OBVIOUS
  <2>2. e.vid = i
    BY <2>1
  <2>3. e \in Earlier
    BY <2>1 DEF Earlier
  <2> QED BY <1>1, <2>2, <2>3
<1>4. ASSUME NEW r \in rows PROVE RowGiven(r) /\ LastAccess(r.vid, nextEvent, r.access)
  <2>1. RowGiven(r)
    BY <1>1 DEF RowGiven, SameSpan
  <2>2. r.vid \in Stored /\ r.access = 0
    BY <1>1 DEF Earlier
  <2>3. \A t : t \in Accesses(r.vid, nextEvent) <=> t = 0
    BY <1>1, <2>2, AccessesMember
  <2> QED BY <2>1, <2>2, <2>3 DEF LastAccess
<1>5. \A h \in Handlers : tx[h].pc # "store" /\ tx[h].pc \notin Working
  BY <1>1 DEF Working, Locking
<1> QED BY <1>1, <1>2, <1>3, <1>4, <1>5 DEF ReplayInv

-----------------------------------------------------------------------------
\* What a replay needs, through reads, builds and commits.

\* A reader's event gets an identity nobody has.
LEMMA OpenReadReplay ==
  ASSUME IInv, ReplayInv, NEW r \in rows, OpenRead(r)
  PROVE  ReplayInv'
<1>1. /\ rows' = rows /\ events' = events /\ tx' = tx /\ nextEvent' = nextEvent + 1
      /\ \E at : reader' = reader \cup {[id |-> nextEvent, at |-> at, vid |-> r.vid]}
      /\ nextEvent \in Nat
  BY DEF OpenRead, IInv, TypeOK
<1>2. PICK at : reader' = reader \cup {[id |-> nextEvent, at |-> at, vid |-> r.vid]}
  BY <1>1
<1>3. PICK x : x = [id |-> nextEvent, at |-> at, vid |-> r.vid]
  OBVIOUS
<1>4. reader' = reader \cup {x} /\ x.id = nextEvent /\ x.vid = r.vid
  BY <1>2, <1>3
<1>5. /\ events \in SUBSET Events /\ reader \in SUBSET [id: Nat \ {0}, at: Instants, vid: Nat]
      /\ \A h \in Handlers : tx[h].plan.event \in Nat
  BY DEF IInv, TypeOK, Txs, Plans
<1>6. \A v \in events : v.id \in Nat /\ v.id < nextEvent
  BY <1>5 DEF Events, ReplayInv, IdsApart
<1>7. \A y \in reader : y.id \in Nat /\ y.id < nextEvent
  BY <1>5 DEF ReplayInv, IdsApart
<1>8. \A h \in Handlers : tx[h].pc = "store" => tx[h].plan.event \in Nat /\ tx[h].plan.event < nextEvent
  BY <1>5 DEF ReplayInv, IdsApart
<1>9. IdsApart'
  <2>1. /\ \A v \in events' : v.id < nextEvent'
        /\ \A v, w \in events' : v.id = w.id => v = w
    BY <1>1, <1>6 DEF ReplayInv, IdsApart
  <2>2. /\ \A y \in reader' : y.id < nextEvent' /\ \A v \in events' : v.id # y.id
        /\ \A y, z \in reader' : y.id = z.id => y = z
    BY <1>1, <1>4, <1>6, <1>7 DEF ReplayInv, IdsApart
  <2>3. ASSUME NEW h \in Handlers, tx'[h].pc = "store"
        PROVE  /\ tx'[h].plan.event < nextEvent'
               /\ \A v \in events' : v.id # tx'[h].plan.event
               /\ \A y \in reader' : y.id # tx'[h].plan.event
               /\ \A g \in Handlers \ {h} : tx'[g].pc = "store" => tx'[g].plan.event # tx'[h].plan.event
    BY <1>1, <1>4, <1>8, <2>3 DEF ReplayInv, IdsApart
  <2> QED BY <2>1, <2>2, <2>3 DEF IdsApart
<1>10. GivesApart'
  BY <1>1 DEF ReplayInv, GivesApart
<1>11. ASSUME NEW o \in rows' PROVE RowFollows(o)'
  <2>1. RowGiven(o)'
    BY <1>1, <1>11 DEF ReplayInv, RowGiven, Gives, Earlier, SameSpan
  <2>2. PICK k : k = nextEvent
    OBVIOUS
  <2>3. o.item \in Reviewed \/ LastAccess(o.vid, k, o.access)
    BY <1>1, <2>2 DEF ReplayInv
  <2>4. \A v \in events : v.id < k + 1 /\ v.id < k
    BY <1>1, <1>6, <2>2
  <2>5. Accesses(o.vid, nextEvent)' = Accesses(o.vid, k)
    BY <1>1, <2>2, <2>4 DEF Accesses
  <2>6. LastAccess(o.vid, k, o.access) => LastAccess(o.vid, nextEvent, o.access)'
    BY <2>5 DEF LastAccess
  <2>7. Reviewed' = Reviewed
    BY <1>1 DEF Reviewed
  <2> QED BY <2>1, <2>3, <2>6, <2>7 DEF RowFollows
<1>12. There(x.vid, x.id)'
  BY <1>1, <1>4, RowIsThere, ThereStays
<1>13. \A i \in Stored : \E o \in rows' : o.vid = i
  BY <1>1 DEF ReplayInv
<1> QED BY <1>1, <1>4, <1>9, <1>10, <1>11, <1>12, <1>13, ReplayStays

\* The accesses after a step.
LEMMA AccessesNext ==
  ASSUME NEW n, NEW k, NEW t
  PROVE  t \in Accesses(n, k)' <=>
           \/ t = 0 /\ n \in Stored
           \/ \E v \in events' : v.kind # "access" /\ \E d \in v.plan.added : d.vid = n /\ t = d.access
           \/ \E v \in events' : v.kind = "access" /\ v.id < k /\ n \in v.touched /\ t = v.plan.at
<1> DEFINE A == UNION {{d.access : d \in {e \in v.plan.added : e.vid = n}} :
                         v \in {w \in events' : w.kind # "access"}}
           B == {v.plan.at : v \in {w \in events' : w.kind = "access" /\ w.id < k /\ n \in w.touched}}
<1>1. t \in A <=> \E v \in events' : v.kind # "access" /\ \E d \in v.plan.added : d.vid = n /\ t = d.access
  OBVIOUS
<1>2. t \in B <=> \E v \in events' : v.kind = "access" /\ v.id < k /\ n \in v.touched /\ t = v.plan.at
  OBVIOUS
<1>3. Accesses(n, k)' = {s \in {0} : n \in Stored} \cup A \cup B
  BY DEF Accesses
<1> HIDE DEF A, B
<1> QED BY <1>1, <1>2, <1>3

\* A reader's event touches the version that was shown.
LEMMA CloseReadReplay ==
  ASSUME IInv, ReplayInv, NEW x \in reader, CloseRead(x)
  PROVE  ReplayInv'
<1>1. PICK v : v = [id |-> x.id, kind |-> "access", ask |-> NoAsk,
                    plan |-> [event |-> x.id, at |-> x.at, closed |-> {}, added |-> {}],
                    touched |-> {x.vid}]
  OBVIOUS
<1>2. /\ v.id = x.id /\ v.kind = "access" /\ v.plan.at = x.at /\ v.touched = {x.vid}
      /\ events' = events \cup {v} /\ reader' = reader \ {x} /\ tx' = tx /\ nextEvent' = nextEvent
      /\ rows' = Touched(rows, {x.vid}, x.at)
  BY <1>1 DEF CloseRead, sequences
<1>3. /\ TypeOK /\ rows \in SUBSET Rows /\ x.at \in Nat
  BY Numbers DEF IInv, TypeOK
<1>4. IdsApart'
  <2>1. /\ x.id < nextEvent /\ \A w \in events : w.id # x.id
        /\ \A y \in reader' : y.id # x.id
        /\ \A h \in Handlers : tx[h].pc = "store" => tx[h].plan.event # x.id
    BY <1>2 DEF ReplayInv, IdsApart
  <2>2. /\ \A w \in events' : w.id < nextEvent'
        /\ \A w, u \in events' : w.id = u.id => w = u
    BY <1>2, <2>1 DEF ReplayInv, IdsApart
  <2>3. /\ \A y \in reader' : y.id < nextEvent' /\ \A w \in events' : w.id # y.id
        /\ \A y, z \in reader' : y.id = z.id => y = z
    BY <1>2, <2>1 DEF ReplayInv, IdsApart
  <2>4. ASSUME NEW h \in Handlers, tx'[h].pc = "store"
        PROVE  /\ tx'[h].plan.event < nextEvent'
               /\ \A w \in events' : w.id # tx'[h].plan.event
               /\ \A y \in reader' : y.id # tx'[h].plan.event
               /\ \A g \in Handlers \ {h} : tx'[g].pc = "store" => tx'[g].plan.event # tx'[h].plan.event
    BY <1>2, <2>1, <2>4 DEF ReplayInv, IdsApart
  <2> QED BY <2>2, <2>3, <2>4 DEF IdsApart
<1>5. GivesApart'
  BY <1>2 DEF ReplayInv, GivesApart
<1>6. EventFollows(v)'
  <2>1. There(x.vid, x.id)'
    BY <1>2, ThereStays DEF ReplayInv
  <2> QED BY <1>2, <2>1 DEF EventFollows
<1>7. /\ \A r \in rows : \E s \in rows' : Alike(r, s) /\ Tells(r, s)
      /\ \A s \in rows' : \E r \in rows : Alike(r, s) /\ Tells(r, s)
  BY <1>3, TouchTells
<1>8. Reviewed' = Reviewed
  BY <1>2 DEF Reviewed
<1>9. PICK k : k = nextEvent
  OBVIOUS
<1>10. ASSUME NEW n, NEW t
       PROVE  t \in Accesses(n, nextEvent)' <=> t \in Accesses(n, k) \/ (n = x.vid /\ t = x.at)
  <2>1. v.id < k
    BY <1>2, <1>9 DEF ReplayInv, IdsApart
  <2>2. (\E w \in events' : w.kind = "access" /\ w.id < k /\ n \in w.touched /\ t = w.plan.at)
        <=> \/ \E w \in events : w.kind = "access" /\ w.id < k /\ n \in w.touched /\ t = w.plan.at
            \/ n = x.vid /\ t = x.at
    BY <1>2, <2>1
  <2>3. (\E w \in events' : w.kind # "access" /\ \E d \in w.plan.added : d.vid = n /\ t = d.access)
        <=> \E w \in events : w.kind # "access" /\ \E d \in w.plan.added : d.vid = n /\ t = d.access
    BY <1>2
  <2>4. t \in Accesses(n, k)' <=>
           \/ t = 0 /\ n \in Stored
           \/ \E w \in events' : w.kind # "access" /\ \E d \in w.plan.added : d.vid = n /\ t = d.access
           \/ \E w \in events' : w.kind = "access" /\ w.id < k /\ n \in w.touched /\ t = w.plan.at
    BY AccessesNext
  <2>5. Accesses(n, nextEvent)' = Accesses(n, k)'
    BY <1>2, <1>9 DEF Accesses
  <2> QED BY <2>2, <2>3, <2>4, <2>5, AccessesMember
<1>11. ASSUME NEW s \in rows' PROVE RowFollows(s)'
  <2>1. PICK r \in rows : s = IF r.vid \in {x.vid} /\ r.access < x.at THEN [r EXCEPT !.access = x.at] ELSE r
    BY <1>2 DEF Touched
  <2>2. /\ s.vid = r.vid /\ SameSpan(s, r) /\ s.rec = r.rec /\ s.base = r.base /\ s.body = r.body
        /\ r.access \in Nat
        /\ s.access = IF r.vid = x.vid /\ r.access < x.at THEN x.at ELSE r.access
    <3>1. r \in Rows
      BY <1>3
    <3> QED BY <2>1, <3>1 DEF Rows, SameSpan
  <2>3. RowGiven(s)'
    <3>1. RowGiven(r)
      BY DEF ReplayInv
    <3>2. ASSUME NEW e \in Earlier, /\ r.vid = e.vid /\ SameSpan(r, e) /\ r.rec = e.rec
                                    /\ r.base = e.base /\ r.body = e.body
          PROVE  /\ s.vid = e.vid /\ SameSpan(s, e) /\ s.rec = e.rec
                 /\ s.base = e.base /\ s.body = e.body
      BY <2>2, <3>2 DEF SameSpan
    <3>3. \A w \in events : Gives(w, r.vid) => w \in events' /\ Gives(w, s.vid)'
      BY <1>2, <2>2 DEF Gives
    <3> QED BY <3>1, <3>2, <3>3 DEF RowGiven, Earlier, SameSpan
  <2>4. s.item \in Reviewed' \/ LastAccess(s.vid, nextEvent, s.access)'
    <3> SUFFICES ASSUME s.item \notin Reviewed PROVE LastAccess(s.vid, nextEvent, s.access)'
      BY <1>8
    <3>1. r.item = s.item /\ LastAccess(r.vid, k, r.access)
      BY <1>9, <2>2 DEF ReplayInv, SameSpan
    <3>2. r.access \in Accesses(r.vid, k) /\ \A t \in Accesses(r.vid, k) : t =< r.access /\ t \in Nat
      BY <1>3, <3>1, AccessesTyped DEF LastAccess
    <3>3. s.access \in Accesses(s.vid, nextEvent)'
      BY <1>10, <2>2, <3>2
    <3>4. ASSUME NEW t \in Accesses(s.vid, nextEvent)' PROVE t =< s.access
      <4>1. t \in Accesses(r.vid, k) \/ (r.vid = x.vid /\ t = x.at)
        BY <1>10, <2>2, <3>4
      <4> QED BY <1>3, <2>2, <3>2, <4>1
    <3> QED BY <3>3, <3>4 DEF LastAccess
  <2> QED BY <2>3, <2>4 DEF RowFollows
<1>12. \A i \in Stored : \E s \in rows' : s.vid = i
  BY <1>7 DEF ReplayInv, Alike
<1> QED BY <1>2, <1>4, <1>5, <1>6, <1>11, <1>12, ReplayStays

\* What a build copies when it is applied is of an item that its ask names.
LEMMA LiveOfAsk ==
  ASSUME NEW h \in Handlers, NEW now, NEW name, Building(h, now, name), UndoTold(h),
         NEW d \in DraftsOf(h, now, name), d.live
  PROVE  \E c \in tx[h].ask.closes \cup tx[h].ask.updates \cup tx[h].ask.reverts : c.item = d.item
<1>1. AskFits(h) /\ tx[h].pc = "build" /\ tx[h].pending \subseteq tx[h].ask.updates
  BY BuildingFacts DEF Building, Fits
<1>2. CASE d \in Restored(tx[h].undo)
  <2>1. d.item = tx[h].undo.item /\ tx[h].undo.plan.closed # {}
    BY <1>2 DEF Restored
  <2>2. tx[h].ask.reverts # {}
    <3>1. tx[h].undo = NoUndo => tx[h].undo.plan.closed = {}
      BY DEF NoUndo, NoPlan
    <3> QED BY <1>1, <2>1, <3>1 DEF AskFits, Working, Locking
  <2> QED BY <1>1, <2>1, <2>2 DEF UndoTold, Working, Locking
<1>3. CASE d \in Drafts(Changes(h, now, name), tx[h].seen)
  <2>1. PICK c \in Changes(h, now, name) : d \in Survivors(c, tx[h].seen) \cup Replacement(c)
    BY <1>3 DEF Drafts
  <2>2. d.item = c.item /\ d.live = c.live
    <3>1. CASE d \in Survivors(c, tx[h].seen)
      <4>1. PICK r \in Hits(c, tx[h].seen) :
              d \in {[item |-> c.item, from |-> s.from, to |-> s.to, base |-> r.vid,
                      live |-> c.live, access |-> r.access] :
                       s \in SurvivingSegments(r.from, r.to, c.start, c.until)}
        BY <3>1 DEF Survivors
      <4>2. PICK s \in SurvivingSegments(r.from, r.to, c.start, c.until) :
              d = [item |-> c.item, from |-> s.from, to |-> s.to, base |-> r.vid,
                   live |-> c.live, access |-> r.access]
        BY <4>1
      <4> QED BY <4>2
    <3>2. CASE d \in Replacement(c)
      BY <3>2 DEF Replacement
    <3> QED BY <2>1, <3>1, <3>2
  <2>3. ASSUME NEW e, FromEdit(h, now, name, c, e) PROVE ~ c.live
    BY <2>3 DEF FromEdit, EditChange, Change
  <2>4. ASSUME NEW u, NEW r, FromUpdate(h, now, c, u, r) PROVE u \in tx[h].ask.updates /\ u.item = c.item
    BY <1>1, <2>4 DEF FromUpdate, UpdateChange, Change
  <2>5. ASSUME NEW k, FromClose(h, c, k) PROVE k \in tx[h].ask.closes /\ k.item = c.item
    BY <2>5 DEF FromClose, Change
  <2> QED BY <2>2, <2>3, <2>4, <2>5, ChangeOrigin
<1> QED BY <1>2, <1>3 DEF DraftsOf

\* A build takes the next identity of an event, or none if it is refused.
LEMMA BuildNumbers ==
  ASSUME TypeOK, NEW h \in Handlers, Build(h)
  PROVE  \/ tx'[h].pc = "done" /\ nextEvent' = nextEvent
         \/ tx'[h].pc = "store" /\ tx'[h].plan.event = nextEvent /\ nextEvent' = nextEvent + 1
<1>1. tx \in [Handlers -> Txs]
  BY DEF TypeOK
<1>2. ASSUME NEW what, Reply(h, what, 0), UNCHANGED sequences
      PROVE  tx'[h].pc = "done" /\ nextEvent' = nextEvent
  BY <1>1, <1>2 DEF Reply, Ended, sequences
<1>3. ASSUME NEW now, Planned(h, now)
      PROVE  tx'[h].pc = "store" /\ tx'[h].plan.event = nextEvent /\ nextEvent' = nextEvent + 1
  <2>1. /\ \E x : /\ x.pc = "store" /\ x.plan.event = nextEvent /\ tx' = [tx EXCEPT ![h] = x]
        /\ nextEvent' = nextEvent + 1
    BY <1>3 DEF Planned, NewEvent
  <2> QED BY <1>1, <2>1
<1> QED BY <1>2, <1>3 DEF Build

\* A plan is numbered after all it names.
LEMMA BuildReplay ==
  ASSUME IInv, IInv', FitInv, FitInv', ReplayInv, NEW h \in Handlers, Build(h)
  PROVE  ReplayInv'
<1>1. rows' = rows /\ events' = events /\ reader' = reader
  BY DEF Build
<1>2. CASE tx'[h].pc = "done" /\ nextEvent' = nextEvent /\ \A g \in Handlers \ {h} : tx'[g] = tx[g]
  <2>1. tx'[h].pc # "store" /\ UndoTold(h)'
    BY <1>2 DEF UndoTold, Working, Locking
  <2> QED BY <1>1, <1>2, <2>1, QuietReplay
<1>3. ASSUME NEW name, NEW x, Building(h, clock + 1, name),
             tx[h].ask.reverts # {} => Undoable(tx[h].undo),
             tx'[h] = x, \A g \in Handlers \ {h} : tx'[g] = tx[g],
             x.ask = tx[h].ask, x.undo = tx[h].undo, x.pc = "store",
             x.plan.event = nextEvent, nextEvent' = nextEvent + 1,
             x.plan.closed = Ids(MetBy(h, clock + 1, name)),
             x.plan.added = Numbered(DraftsOf(h, clock + 1, name))
      PROVE  ReplayInv'
  <2>1. PICK now : now = clock + 1
    OBVIOUS
  <2>2. PICK D : D = DraftsOf(h, now, name)
    OBVIOUS
  <2>3. PICK p : p = x.plan
    OBVIOUS
  <2>4. PICK k : k = nextEvent
    OBVIOUS
  <2>5. /\ p.event = k /\ k \in Nat /\ p.added = Numbered(D) /\ Building(h, now, name) /\ TypeOK
    BY <1>3, <2>1, <2>2, <2>3, <2>4 DEF IInv, TypeOK
  <2>6. /\ \A n \in p.closed : \E r \in rows : r.vid = n
        /\ \A d \in p.added : \A r \in rows : r.vid # d.vid
        /\ \A d \in p.added : d.live \/ d.base # None => \E r \in rows : r.vid = d.base
    BY <1>1, <1>3, <2>3 DEF IInv, TxInv, PlanInv
  <2>7. \A d, e \in p.added : d.vid = e.vid => d = e
    <3>1. PlanFits(h)'
      BY DEF FitInv
    <3> QED BY <1>3, <2>3, <3>1 DEF PlanFits
  <2>8. \A r \in rows : There(r.vid, k)
    BY <2>4, RowIsThere
  <2>9. \A d \in p.added : d.vid \notin Stored
    BY <2>6 DEF ReplayInv
  <2>10. ASSUME NEW d \in p.added, d.live
         PROVE  \E c \in x.ask.closes \cup x.ask.updates \cup x.ask.reverts : c.item = d.item
    <3>1. PICK e \in D : e.live = d.live /\ e.item = d.item
      BY <2>5 DEF Numbered
    <3>2. UndoTold(h)
      BY DEF ReplayInv, UndoTold
    <3>l. e.live /\ e \in DraftsOf(h, now, name)
      BY <2>2, <2>10, <3>1
    <3>3. \E c \in tx[h].ask.closes \cup tx[h].ask.updates \cup tx[h].ask.reverts : c.item = e.item
      BY <2>5, <3>2, <3>l, LiveOfAsk
    <3> QED BY <1>3, <3>1, <3>3
  <2>11. Follows(p, x.ask, k)
    BY <2>6, <2>7, <2>8, <2>9, <2>10 DEF Follows
  <2>12. TxFollows(h)'
    <3>1. Follows(x.plan, x.ask, x.plan.event)'
      <4>1. Follows(p, x.ask, k)'
        BY <1>1, <2>11, FollowsStays
      <4> QED BY <2>3, <2>5, <4>1
    <3>2. x.ask.reverts # {} => \E u \in x.ask.reverts : u.item = x.undo.item
      BY <1>3 DEF ReplayInv, Building, Working, Locking
    <3> QED BY <1>3, <3>1, <3>2, TxFollowsOf
  <2>13. IdsApart'
    <3>1. /\ \A v \in events : v.id \in Nat /\ v.id < k
          /\ \A y \in reader : y.id \in Nat /\ y.id < k
          /\ \A g \in Handlers : tx[g].pc = "store" => tx[g].plan.event \in Nat /\ tx[g].plan.event < k
      <4>1. /\ events \in SUBSET Events /\ reader \in SUBSET [id: Nat \ {0}, at: Instants, vid: Nat]
            /\ \A g \in Handlers : tx[g].plan.event \in Nat
        BY <2>5 DEF TypeOK, Txs, Plans
      <4>2. \A v \in events : v.id \in Nat
        BY <4>1 DEF Events
      <4> QED BY <2>4, <4>1, <4>2 DEF ReplayInv, IdsApart
    <3>2. nextEvent' = k + 1
      BY <1>3, <2>4
    <3>3. /\ \A v \in events' : v.id < nextEvent'
          /\ \A v, w \in events' : v.id = w.id => v = w
          /\ \A y \in reader' : y.id < nextEvent' /\ \A v \in events' : v.id # y.id
          /\ \A y, z \in reader' : y.id = z.id => y = z
      BY <1>1, <2>5, <3>1, <3>2 DEF ReplayInv, IdsApart
    <3>4. /\ tx'[h].plan.event = k /\ k < nextEvent'
          /\ \A v \in events' : v.id # k
          /\ \A y \in reader' : y.id # k
          /\ \A g \in Handlers : tx[g].pc = "store" => tx[g].plan.event # k
      BY <1>1, <1>3, <2>3, <2>5, <3>1, <3>2
    <3>5. ASSUME NEW g \in Handlers, tx'[g].pc = "store"
          PROVE  /\ tx'[g].plan.event < nextEvent'
                 /\ \A v \in events' : v.id # tx'[g].plan.event
                 /\ \A y \in reader' : y.id # tx'[g].plan.event
                 /\ \A f \in Handlers \ {g} : tx'[f].pc = "store" => tx'[f].plan.event # tx'[g].plan.event
      <4>1. CASE g = h
        <5>1. \A f \in Handlers \ {g} : tx'[f] = tx[f]
          BY <1>3, <4>1
        <5> QED BY <3>4, <4>1, <5>1
      <4>2. CASE g # h
        <5>1. tx'[g] = tx[g] /\ tx[g].pc = "store"
          BY <1>3, <3>5, <4>2
        <5>2. /\ \A v \in events : v.id # tx[g].plan.event
              /\ \A y \in reader : y.id # tx[g].plan.event
              /\ \A f \in Handlers \ {g} : tx[f].pc = "store" => tx[f].plan.event # tx[g].plan.event
          BY <5>1 DEF ReplayInv, IdsApart
        <5>3. tx[g].plan.event < nextEvent'
          BY <2>5, <3>1, <3>2, <5>1
        <5>4. ASSUME NEW f \in Handlers \ {g}, tx'[f].pc = "store" PROVE tx'[f].plan.event # tx'[g].plan.event
          <6>1. f = h \/ tx'[f] = tx[f]
            BY <1>3
          <6> QED BY <3>4, <5>1, <5>2, <5>4, <6>1
        <5> QED BY <1>1, <5>1, <5>2, <5>3, <5>4
      <4> QED BY <4>1, <4>2
    <3> QED BY <3>3, <3>5 DEF IdsApart
  <2>14. GivesApart'
    BY <1>1 DEF ReplayInv, GivesApart
  <2>15. ASSUME NEW r \in rows' PROVE RowFollows(r)'
    <3>1. RowGiven(r)'
      BY <1>1, <2>15 DEF ReplayInv, RowGiven, Gives, Earlier, SameSpan
    <3>2. r.item \in Reviewed \/ LastAccess(r.vid, k, r.access)
      BY <1>1, <2>4 DEF ReplayInv
    <3>3. \A v \in events : v.id < k + 1 /\ v.id < k
      <4>1. events \in SUBSET Events /\ \A v \in events : v.id < k
        BY <2>4, <2>5 DEF TypeOK, ReplayInv, IdsApart
      <4>2. \A v \in events : v.id \in Nat
        BY <4>1 DEF Events
      <4> QED BY <2>5, <4>1, <4>2
    <3>4. nextEvent' = k + 1
      BY <1>3, <2>4
    <3>5. Accesses(r.vid, nextEvent)' = Accesses(r.vid, k)
      BY <1>1, <3>3, <3>4 DEF Accesses
    <3>6. LastAccess(r.vid, k, r.access) => LastAccess(r.vid, nextEvent, r.access)'
      BY <3>5 DEF LastAccess
    <3>7. Reviewed' = Reviewed
      BY <1>1 DEF Reviewed
    <3> QED BY <3>1, <3>2, <3>6, <3>7 DEF RowFollows
  <2>16. \A i \in Stored : \E r \in rows' : r.vid = i
    BY <1>1 DEF ReplayInv
  <2>17. \A g \in Handlers : tx'[g] = tx[g] \/ TxFollows(g)'
    BY <1>3, <2>12
  <2> QED BY <1>1, <2>13, <2>14, <2>15, <2>16, <2>17, ReplayStays
<1>4. /\ \/ tx'[h].pc = "done" /\ nextEvent' = nextEvent
         \/ tx'[h].pc = "store" /\ tx'[h].plan.event = nextEvent /\ nextEvent' = nextEvent + 1
  BY BuildNumbers DEF IInv
<1>5. \A g \in Handlers \ {h} : tx'[g] = tx[g]
  BY BuildPlans
<1> QED BY <1>2, <1>3, <1>4, <1>5, BuildPlans

\* A commit gives the versions of its plan, and nobody gave them before.
LEMMA StoreReplay ==
  ASSUME Kept, IInv', FitInv', NEW h \in Handlers, Store(h)
  PROVE  ReplayInv'
<1>1. PICK x : x = tx[h]
  OBVIOUS
<1>2. PICK p : p = x.plan
  OBVIOUS
<1>3. /\ IInv /\ TypeOK /\ ReplayInv /\ x \in Txs /\ p \in Plans /\ x.pc = "store" /\ tx[h].pc = "store"
      /\ tx \in [Handlers -> Txs] /\ PlanInv(h) /\ rows \in SUBSET Rows /\ RowsFit
  BY <1>1, <1>2 DEF Kept, IInv, TypeOK, Txs, Store, FitInv, TxInv
<1>4. reader' = reader /\ nextEvent' = nextEvent /\ \A g \in Handlers \ {h} : tx'[g] = tx[g]
  BY <1>3 DEF Store, Reply, sequences
<1>5. tx'[h].pc = "done"
  BY <1>3 DEF Store, Reply, Ended
<1>6. tx'[h].pc # "store" /\ UndoTold(h)'
  BY <1>5 DEF UndoTold, Working, Locking
<1>7. CASE rows' = rows /\ events' = events
  BY <1>3, <1>4, <1>6, <1>7, QuietReplay
<1>8. CASE /\ rows' = Applied(p, rows)
           /\ events' = events \cup
                {[id |-> p.event, kind |-> Kind(x.ask), ask |-> x.ask, plan |-> p, touched |-> {}]}
  <2>1. PICK v : v = [id |-> p.event, kind |-> Kind(x.ask), ask |-> x.ask, plan |-> p, touched |-> {}]
    OBVIOUS
  <2>2. /\ events' = events \cup {v} /\ events \subseteq events' /\ v \in events'
        /\ v.id = p.event /\ v.ask = x.ask /\ v.plan = p /\ v.kind # "access"
    BY <1>8, <2>1 DEF Kind
  <2>3. Follows(p, x.ask, p.event)
    BY <1>1, <1>2, <1>3 DEF ReplayInv
  <2>4. /\ \A d \in p.added : \A r \in rows : r.vid # d.vid
        /\ \A d, e \in p.added : d.vid = e.vid => d = e
        /\ \A d \in p.added : d.vid \notin Stored /\ d.access \in Nat
    <3>1. \A d \in p.added : d.access \in Nat
      BY <1>3 DEF Plans, PlannedRows
    <3> QED BY <1>1, <1>2, <1>3, <2>3, <3>1 DEF PlanInv, Follows
  <2>5. ASSUME NEW d \in p.added, NEW k PROVE ~ There(d.vid, k)
    BY <2>4, ThereIsRow
  <2>6. IdsApart'
    <3>1. /\ p.event < nextEvent
          /\ \A w \in events : w.id # p.event
          /\ \A y \in reader : y.id # p.event
          /\ \A g \in Handlers \ {h} : tx[g].pc = "store" => tx[g].plan.event # p.event
      BY <1>1, <1>2, <1>3 DEF ReplayInv, IdsApart
    <3>2. /\ \A w \in events' : w.id < nextEvent'
          /\ \A w, u \in events' : w.id = u.id => w = u
      BY <1>3, <1>4, <2>2, <3>1 DEF ReplayInv, IdsApart
    <3>3. /\ \A y \in reader' : y.id < nextEvent' /\ \A w \in events' : w.id # y.id
          /\ \A y, z \in reader' : y.id = z.id => y = z
      BY <1>3, <1>4, <2>2, <3>1 DEF ReplayInv, IdsApart
    <3>4. ASSUME NEW g \in Handlers, tx'[g].pc = "store"
          PROVE  /\ tx'[g].plan.event < nextEvent'
                 /\ \A w \in events' : w.id # tx'[g].plan.event
                 /\ \A y \in reader' : y.id # tx'[g].plan.event
                 /\ \A f \in Handlers \ {g} : tx'[f].pc = "store" => tx'[f].plan.event # tx'[g].plan.event
      <4>1. g # h /\ tx'[g] = tx[g] /\ tx[g].pc = "store"
        BY <1>4, <1>6, <3>4
      <4>2. /\ tx[g].plan.event < nextEvent
            /\ \A w \in events : w.id # tx[g].plan.event
            /\ \A y \in reader : y.id # tx[g].plan.event
            /\ \A f \in Handlers \ {g} : tx[f].pc = "store" => tx[f].plan.event # tx[g].plan.event
        BY <1>3, <4>1 DEF ReplayInv, IdsApart
      <4>3. \A f \in Handlers : tx'[f].pc = "store" => tx'[f] = tx[f]
        BY <1>4, <1>6
      <4> QED BY <1>4, <2>2, <3>1, <4>1, <4>2, <4>3
    <3> QED BY <3>2, <3>3, <3>4 DEF IdsApart
  <2>7. GivesApart'
    <3>1. ASSUME NEW w \in events, w.kind # "access", NEW e \in w.plan.added, NEW d \in p.added
          PROVE  d.vid # e.vid
      <4>1. \E r \in rows : r.vid = e.vid
        BY <3>1, RecordFacts
      <4> QED BY <2>4, <4>1
    <3> QED BY <1>3, <2>2, <3>1 DEF ReplayInv, GivesApart
  <2>8. EventFollows(v)'
    <3>1. Follows(p, x.ask, p.event)'
      BY <2>2, <2>3, FollowsStays
    <3> QED BY <2>2, <3>1 DEF EventFollows
  <2>9. PICK R : R = rows'
    OBVIOUS
  <2>10. Passes(p, R)
    BY <1>8, <2>9, AppliedPasses
  <2>11. ASSUME NEW s \in R
         PROVE  \/ \E r \in rows : /\ s.vid = r.vid /\ SameSpan(s, r) /\ s.rec = r.rec /\ s.base = r.base
                                    /\ s.body = r.body /\ s.access = r.access
                \/ \E d \in p.added : s = Written(d, p.at, rows)
    <3>1. CASE s \in rows
      BY <3>1 DEF SameSpan
    <3>2. ASSUME NEW r \in Closing(p, rows), s = [r EXCEPT !.sup = p.at]
          PROVE  /\ r \in rows /\ s.vid = r.vid /\ SameSpan(s, r) /\ s.rec = r.rec /\ s.base = r.base
                 /\ s.body = r.body /\ s.access = r.access
      <4>1. r \in rows /\ r \in Rows
        BY <1>3 DEF Closing
      <4> QED BY <3>2, <4>1 DEF Rows, SameSpan
    <3> QED BY <2>10, <3>1, <3>2 DEF Passes
  <2>12. \A r \in rows : \E s \in R : s.vid = r.vid
    <3>1. ASSUME NEW r \in Closing(p, rows) PROVE [r EXCEPT !.sup = p.at].vid = r.vid
      <4>1. r \in Rows
        BY <1>3 DEF Closing
      <4> QED BY <4>1 DEF Rows
    <3> QED BY <2>10, <3>1 DEF Passes
  <2>13. \A i \in Stored : \E s \in rows' : s.vid = i
    BY <1>3, <2>9, <2>12 DEF ReplayInv
  <2>14. Reviewed \subseteq Reviewed' /\ \A d \in p.added : d.live => d.item \in Reviewed'
    <3>1. Reviewed \subseteq Reviewed'
      BY <2>2 DEF Reviewed
    <3>2. ASSUME NEW d \in p.added, d.live PROVE d.item \in Reviewed'
      <4>1. PICK c \in v.ask.closes \cup v.ask.updates \cup v.ask.reverts : c.item = d.item
        BY <2>2, <2>3, <3>2 DEF Follows
      <4> QED BY <2>2, <4>1 DEF Reviewed
    <3> QED BY <3>1, <3>2
  <2>15. PICK k : k = nextEvent
    OBVIOUS
  <2>16. ASSUME NEW n, NEW t
         PROVE  t \in Accesses(n, nextEvent)' <=>
                  t \in Accesses(n, k) \/ \E d \in p.added : d.vid = n /\ t = d.access
    <3>1. Accesses(n, nextEvent)' = Accesses(n, k)'
      BY <1>4, <2>15 DEF Accesses
    <3>2. (\E w \in events' : w.kind # "access" /\ \E d \in w.plan.added : d.vid = n /\ t = d.access)
          <=> \/ \E w \in events : w.kind # "access" /\ \E d \in w.plan.added : d.vid = n /\ t = d.access
              \/ \E d \in p.added : d.vid = n /\ t = d.access
      BY <2>2
    <3>3. (\E w \in events' : w.kind = "access" /\ w.id < k /\ n \in w.touched /\ t = w.plan.at)
          <=> \E w \in events : w.kind = "access" /\ w.id < k /\ n \in w.touched /\ t = w.plan.at
      BY <2>2
    <3> QED BY <3>1, <3>2, <3>3, AccessesMember, AccessesNext
  <2>17. ASSUME NEW d \in p.added, NEW t PROVE t \notin Accesses(d.vid, k)
    <3>1. ~ \E w \in events : w.kind # "access" /\ \E e \in w.plan.added : e.vid = d.vid
      <4> SUFFICES ASSUME NEW w \in events, w.kind # "access", NEW e \in w.plan.added, e.vid = d.vid
                   PROVE  FALSE
        OBVIOUS
      <4>1. \E r \in rows : r.vid = e.vid
        BY RecordFacts
      <4> QED BY <2>4, <4>1
    <3>2. ~ \E w \in events : w.kind = "access" /\ d.vid \in w.touched
      BY <1>3, <2>5 DEF ReplayInv
    <3> QED BY <2>4, <3>1, <3>2, AccessesMember
  <2>18. ASSUME NEW s \in R, NEW r \in rows, s.vid = r.vid, SameSpan(s, r), s.rec = r.rec,
                s.base = r.base, s.body = r.body, s.access = r.access
         PROVE  RowFollows(s)'
    <3>1. RowGiven(r) /\ (r.item \in Reviewed \/ LastAccess(r.vid, k, r.access))
      BY <1>3, <2>15 DEF ReplayInv
    <3>2. ASSUME NEW e \in Earlier, r.vid = e.vid, SameSpan(r, e), r.rec = e.rec,
                 r.base = e.base, r.body = e.body
          PROVE  /\ s.vid = e.vid /\ SameSpan(s, e) /\ s.rec = e.rec
                 /\ s.base = e.base /\ s.body = e.body
      BY <2>18, <3>2 DEF SameSpan
    <3>3. \A w \in events : Gives(w, r.vid) => w \in events' /\ Gives(w, s.vid)'
      BY <2>2, <2>18 DEF Gives
    <3>4. RowGiven(s)'
      BY <3>1, <3>2, <3>3 DEF RowGiven, Earlier, SameSpan
    <3>5. s.item = r.item /\ \A t : t \in Accesses(s.vid, nextEvent)' <=> t \in Accesses(r.vid, k)
      BY <2>4, <2>16, <2>18 DEF SameSpan
    <3>6. s.item \in Reviewed' \/ LastAccess(s.vid, nextEvent, s.access)'
      BY <2>14, <2>18, <3>1, <3>5 DEF LastAccess
    <3> QED BY <3>4, <3>6 DEF RowFollows
  <2>19. ASSUME NEW s \in R, NEW d \in p.added, s = Written(d, p.at, rows) PROVE RowFollows(s)'
    <3>1. s.vid = d.vid /\ s.item = d.item /\ (~ d.live => s.access = d.access)
      BY <2>19 DEF Written
    <3>2. RowGiven(s)'
      BY <2>2, <3>1 DEF RowGiven, Gives
    <3>3. ASSUME ~ d.live PROVE LastAccess(s.vid, nextEvent, s.access)'
      <4>1. \A t : t \in Accesses(s.vid, nextEvent)' <=> t = d.access
        BY <2>4, <2>16, <2>17, <3>1
      <4>2. s.access = d.access /\ d.access \in Nat
        BY <2>4, <3>1, <3>3
      <4> QED BY <4>1, <4>2 DEF LastAccess
    <3>4. d.live => s.item \in Reviewed'
      BY <2>14, <3>1
    <3> QED BY <3>2, <3>3, <3>4 DEF RowFollows
  <2>20. ASSUME NEW s \in rows' PROVE RowFollows(s)'
    BY <2>9, <2>11, <2>18, <2>19
  <2>21. \A w \in events' : w \in events \/ EventFollows(w)'
    <3>1. \A w \in events' : w \in events \/ w = v
      BY <2>2
    <3> QED BY <2>8, <3>1
  <2>22. \A g \in Handlers : tx'[g] = tx[g] \/ TxFollows(g)'
    BY <1>4, <1>6 DEF TxFollows
  <2> QED BY <1>3, <1>4, <2>2, <2>6, <2>7, <2>13, <2>20, <2>21, <2>22, ReplayStays
<1> QED BY <1>1, <1>2, <1>7, <1>8 DEF Store

\* Every step keeps what a replay needs.
LEMMA NextReplay ==
  ASSUME Kept, IInv', FitInv', [Next]_vars
  PROVE  ReplayInv'
<1>0. IInv /\ FitInv /\ ReplayInv
  BY DEF Kept
<1>1. ASSUME NEW h \in Handlers,
             \/ \E a \in Asks : Begin(h, a) \/ BeginReversal(h, a)
             \/ LockRequest(h) \/ \E i \in Items : LockItem(h, i)
             \/ Decide(h) \/ Rollback(h)
      PROVE  ReplayInv'
  BY <1>0, <1>1, QuietReplays
<1>2. ASSUME NEW h \in Handlers, Build(h) PROVE ReplayInv'
  BY <1>0, <1>2, BuildReplay
<1>3. ASSUME NEW h \in Handlers, Store(h) PROVE ReplayInv'
  BY <1>3, StoreReplay
<1>4. ASSUME NEW r \in rows, OpenRead(r) PROVE ReplayInv'
  BY <1>0, <1>4, OpenReadReplay
<1>5. ASSUME NEW x \in reader, CloseRead(x) PROVE ReplayInv'
  BY <1>0, <1>5, CloseReadReplay
<1>6. CASE StepBack
  BY <1>0, <1>6, QuietReplay DEF StepBack, sequences
<1>7. CASE UNCHANGED vars
  BY <1>0, <1>7, QuietReplay DEF vars
<1> QED BY <1>1, <1>2, <1>3, <1>4, <1>5, <1>6, <1>7 DEF Next

(* What an event needs of earlier ones is there when it is applied again:  *)
(* whatever order the transactions commit in, the versions that an event   *)
(* closes, copies or touches come of events with smaller identities, no    *)
(* version comes of two events, and last_access_at is the last access that *)
(* the events record (db/replay.py:89-110).                                *)
THEOREM ReplayInvariance == Spec => []ReplayInv
<1>1. Init => ReplayInv
  BY InitReplay
<1>2. /\ IInv /\ IInv' /\ FitInv /\ FitInv' /\ HistoryInv /\ LogInv /\ ReplayInv /\ [Next]_vars
      => ReplayInv'
  BY NextReplay DEF Kept
<1> QED BY <1>1, <1>2, Invariance, FitInvariance, HistoryInvariance, LogInvariance, PTL DEF Spec

(* Emptying memory_versions and applying the committed events again in the *)
(* order of their identities gives back every version, interval, instant   *)
(* and content of the live table at any moment, and last_access_at of all  *)
(* but the items with a copy that took it from its base when it was        *)
(* applied (db/replay.py:89-110).                                          *)
THEOREM RebuildRight == Spec => []RebuildGivesTheFacts
<1>1. IInv /\ FitInv /\ HistoryInv /\ LogInv /\ ReplayInv => RebuildGivesTheFacts
  BY RebuildIs DEF Kept
<1> QED BY <1>1, Invariance, FitInvariance, HistoryInvariance, LogInvariance, ReplayInvariance, PTL
=============================================================================
