------------------------ MODULE BitemporalStoreProofs -------------------------
(***************************************************************************)
(* For every number of handlers, items and asks, every clock and every     *)
(* crash: what a transaction commits was decided on the heads its author   *)
(* named, every answer is of the event that did what was asked, no instant *)
(* of valid time falls out, what readers are told is a history of single   *)
(* revisions, and while the clock goes forward the constraints of the      *)
(* tables have nothing to refuse.                                          *)
(***************************************************************************)
EXTENDS BitemporalStore, FiniteSetTheorems, WellFoundedInduction, TLAPS

\* A set of natural numbers that is not empty has a least.
LEMMA LeastNatural ==
  ASSUME NEW S \in SUBSET Nat, S # {}
  PROVE  \E m \in S : \A k \in S : m <= k
<1>1. PICK m \in S : \A k \in S : ~(<<k, m>> \in OpToRel(<, Nat))
  BY NatLessThanWellFounded, WFMin
<1>2. \A k \in S : ~(k < m)
  BY <1>1 DEF OpToRel
<1> QED BY <1>2

\* A finite set of natural numbers that is not empty has a largest.
LEMMA LargestNatural ==
  ASSUME NEW S \in SUBSET Nat, S # {}, IsFiniteSet(S)
  PROVE  \E m \in S : \A k \in S : k <= m
<1> DEFINE Above(n) == {k \in S : n < k}
           T == {Above(n) : n \in S}
<1>1. T \subseteq FiniteSubsetsOf(S)
  <2>1. ASSUME NEW n \in S PROVE IsFiniteSet(Above(n)) /\ Above(n) \subseteq S
    <3>1. Above(n) \in SUBSET S
      OBVIOUS
    <3> HIDE DEF Above
    <3> QED BY <3>1, FS_Subset
  <2> HIDE DEF Above
  <2> QED BY <2>1 DEF FiniteSubsetsOf
<1>2. T # {}
  OBVIOUS
<1>3. IsWellFoundedOn(StrictSubsetOrdering(S), FiniteSubsetsOf(S))
  BY FS_StrictSubsetOrderingWellFounded
<1> HIDE DEF T
<1>4. PICK U \in T : \A V \in T : ~(<<V, U>> \in StrictSubsetOrdering(S))
  BY <1>1, <1>2, <1>3, WFMin
<1>5. PICK m \in S : U = Above(m)
  BY DEF T
<1>6. ASSUME NEW k \in S, m < k PROVE FALSE
  <2>1. Above(k) \subseteq Above(m) /\ Above(k) # Above(m)
    <3>1. k \in Above(m) /\ k \notin Above(k)
      BY <1>6
    <3>2. Above(k) \subseteq Above(m)
      <4>1. \A x \in S : x \in Above(k) => x \in Above(m)
        BY <1>6
      <4>2. Above(k) \subseteq S
        OBVIOUS
      <4> HIDE DEF Above
      <4> QED BY <4>1, <4>2
    <3> QED BY <3>1, <3>2
  <2>2. Above(k) \in T
    BY DEF T
  <2>3. Above(k) \subseteq S /\ Above(m) \subseteq S
    OBVIOUS
  <2> HIDE DEF Above
  <2>4. <<Above(k), Above(m)>> \in StrictSubsetOrdering(S)
    BY <2>1, <2>3 DEF StrictSubsetOrdering
  <2> QED BY <1>4, <1>5, <2>2, <2>4
<1> QED BY <1>6

\* Two versions of the same id: a row before and after a change of it.
Same(r, s) == r.vid = s.vid /\ r.item = s.item

Changed == [item: Items, start: Instants, end: Ends, until: Ends, live: BOOLEAN]

Drafted == [item: Items, from: Instants, to: Ends, base: Nat, live: BOOLEAN, access: Nat]

\* The numbers the constants stand for: items, instants and the open end.
LEMMA Numbers ==
  /\ Forever \in Nat \ {0} /\ MaxItem \in Nat /\ Given \in 0 .. MaxItem
  /\ Items \subseteq Nat \ {0} /\ Cards \subseteq 1 .. Given
  /\ Instants \subseteq Nat /\ Ends \subseteq Nat /\ Forever \notin Instants
  /\ 0 \in Instants
BY ForeverAssumption, BitemporalAssumption DEF Items, Instants, Ends

\* The parts of a request are finite sets, and every close names the version
\* it expects.
LEMMA AskParts ==
  ASSUME NEW a \in Asks \cup {NoAsk}
  PROVE  /\ a.key \in Nat
         /\ a.edits \in SUBSET Edits /\ IsFiniteSet(a.edits)
         /\ a.updates \in SUBSET Updates /\ IsFiniteSet(a.updates)
         /\ a.closes \in SUBSET Closes /\ IsFiniteSet(a.closes)
         /\ \A c \in a.closes : c.expected # None
         /\ a.reverts \in SUBSET Reversals
<1>1. CASE a = NoAsk
  BY <1>1, FS_EmptySet DEF NoAsk
<1>2. CASE a \in Asks
  <2>1. /\ a \in [key: Nat, edits: SUBSET Edits, updates: SUBSET Updates,
                  closes: SUBSET Closes, reverts: SUBSET Reversals]
        /\ IsFiniteSet(a.edits) /\ IsFiniteSet(a.updates)
        /\ \A c, d \in a.closes : c = d
        /\ \A c \in a.closes : c.expected # None
    BY <1>2, BitemporalAssumption
  <2>2. a.closes = {} \/ \E c \in a.closes : a.closes = {c}
    BY <2>1
  <2>3. IsFiniteSet(a.closes)
    <3>1. CASE a.closes = {}
      BY <3>1, FS_EmptySet
    <3>2. CASE \E c \in a.closes : a.closes = {c}
      BY <3>2, FS_Singleton
    <3> QED BY <2>2, <3>1, <3>2
  <2> QED BY <2>1, <2>3
<1> QED BY <1>1, <1>2

\* The image of a finite set is finite.
LEMMA ImageFinite ==
  ASSUME NEW S, IsFiniteSet(S), NEW f
  PROVE  IsFiniteSet({f[x] : x \in S})
<1> DEFINE g == [x \in S |-> f[x]]
<1>1. g \in Surjection(S, {f[x] : x \in S})
  BY DEF Surjection
<1> HIDE DEF g
<1> QED BY <1>1, FS_Surjection

\* The empty plan and the empty undo are well typed.
LEMMA NothingPlanned ==
  /\ NoPlan \in Plans
  /\ NoUndo \in [item: Items \cup {New}, locks: SUBSET Items, plan: Plans]
  /\ NoUndo.item = New /\ NoUndo.locks = {}
<1>1. NoPlan \in Plans
  BY Numbers DEF NoPlan, Plans
<1> QED BY <1>1 DEF NoUndo

-----------------------------------------------------------------------------
\* SurvivingSegments keeps what a correction does not name, and only that.
LEMMA SegmentsPartition ==
  ASSUME NEW vFrom \in Nat, NEW vTo \in Nat, NEW cFrom \in Nat, NEW cTo \in Nat,
         cFrom <= cTo, Overlaps(vFrom, vTo, cFrom, cTo), NEW v \in Nat
  PROVE  (\E s \in SurvivingSegments(vFrom, vTo, cFrom, cTo) : s.from <= v /\ v < s.to)
         <=> /\ vFrom <= v /\ v < vTo
             /\ ~ (cFrom <= v /\ v < cTo)
<1>1. Segment(vFrom, cFrom).from = vFrom /\ Segment(vFrom, cFrom).to = cFrom
      /\ Segment(cTo, vTo).from = cTo /\ Segment(cTo, vTo).to = vTo
  BY DEF Segment
<1>2. ASSUME NEW s \in SurvivingSegments(vFrom, vTo, cFrom, cTo), s.from <= v, v < s.to
      PROVE  vFrom <= v /\ v < vTo /\ ~ (cFrom <= v /\ v < cTo)
  BY <1>1, <1>2 DEF SurvivingSegments, Overlaps
<1>3. ASSUME vFrom <= v, v < vTo, ~ (cFrom <= v /\ v < cTo)
      PROVE  \E s \in SurvivingSegments(vFrom, vTo, cFrom, cTo) : s.from <= v /\ v < s.to
  <2>1. CASE v < cFrom
    <3>1. Segment(vFrom, cFrom) \in SurvivingSegments(vFrom, vTo, cFrom, cTo)
      BY <1>1, <1>3, <2>1 DEF SurvivingSegments
    <3> QED BY <1>1, <1>3, <2>1, <3>1
  <2>2. CASE cTo <= v
    <3>1. Segment(cTo, vTo) \in SurvivingSegments(vFrom, vTo, cFrom, cTo)
      BY <1>1, <1>3, <2>2 DEF SurvivingSegments
    <3> QED BY <1>1, <1>3, <2>2, <3>1
  <2> QED BY <1>3, <2>1, <2>2
<1> QED BY <1>2, <1>3

\* What survives of a row's validity has its ends among the instants.
LEMMA SegmentsTyped ==
  ASSUME NEW r \in Rows, NEW c \in Changed,
         NEW s \in SurvivingSegments(r.from, r.to, c.start, c.until)
  PROVE  s.from \in Instants /\ s.to \in Ends
<1>1. r.from \in Instants /\ r.to \in Ends /\ c.start \in Instants /\ c.until \in Ends
  BY DEF Rows, Changed
<1>2. s = Segment(r.from, c.start) \/ s = Segment(c.until, r.to)
  BY DEF SurvivingSegments
<1>3. s.from < s.to
  BY DEF SurvivingSegments
<1> QED BY <1>1, <1>2, <1>3, Numbers DEF Segment, Instants, Ends

\* At most two segments of a row survive a change.
LEMMA SegmentsFinite ==
  ASSUME NEW a, NEW b, NEW c, NEW d
  PROVE  IsFiniteSet(SurvivingSegments(a, b, c, d))
<1>1. IsFiniteSet({Segment(a, c), Segment(d, b)})
  <2>1. IsFiniteSet({Segment(a, c)}) /\ IsFiniteSet({Segment(d, b)})
    BY FS_Singleton
  <2>2. {Segment(a, c), Segment(d, b)} = {Segment(a, c)} \cup {Segment(d, b)}
    OBVIOUS
  <2> QED BY <2>1, <2>2, FS_Union
<1>2. SurvivingSegments(a, b, c, d) \in SUBSET {Segment(a, c), Segment(d, b)}
  BY DEF SurvivingSegments
<1> QED BY <1>1, <1>2, FS_Subset

-----------------------------------------------------------------------------
\* What a transaction plans when it builds.

\* Its changes: finitely many, of items it wants or creates.
LEMMA ChangesFacts ==
  ASSUME TypeOK, RowsInv, NEW h \in Handlers, TxInv(h), NEW now \in Instants,
         NEW name, \A e \in tx[h].ask.edits : e.item = New => name[e] \in Items,
         \A e \in tx[h].ask.edits : InOrder(e, now)
  PROVE  /\ IsFiniteSet(Changes(h, now, name))
         /\ Changes(h, now, name) \in SUBSET Changed
         /\ \A c \in Changes(h, now, name) :
              /\ c.item \in Wanted(h) \/ \E e \in tx[h].ask.edits : e.item = New /\ c.item = name[e]
              /\ c.live => c.item \in Wanted(h)
<1> DEFINE a == tx[h].ask
           byEdit == [e \in a.edits |->
                        EditChange(e, IF e.item = New THEN name[e] ELSE e.item, now)]
           live == {q \in tx[h].pending \X rows : StillApplies(q[1], q[2], now)}
           byUpdate == [q \in live |-> UpdateChange(q[1], q[2], now)]
           byClose == [c \in a.closes |-> Change(c.item, c.cut, c.cut, Forever, TRUE)]
<1>1. /\ tx[h] \in Txs /\ a \in Asks \cup {NoAsk} /\ tx[h].pending \in SUBSET Updates
      /\ rows \in SUBSET Rows /\ IsFiniteSet(rows) /\ IsFiniteSet(tx[h].pending)
  BY DEF TypeOK, Txs, RowsInv, TxInv
<1>2. /\ a.edits \in SUBSET Edits /\ IsFiniteSet(a.edits)
      /\ a.closes \in SUBSET Closes /\ IsFiniteSet(a.closes)
  BY <1>1, AskParts
<1>3. Changes(h, now, name) = {byEdit[e] : e \in a.edits} \cup {byUpdate[q] : q \in live}
                              \cup {byClose[c] : c \in a.closes}
  BY DEF Changes
<1>4. IsFiniteSet(live)
  BY <1>1, FS_Product, FS_Subset
<1>5. IsFiniteSet(Changes(h, now, name))
  <2>1. /\ IsFiniteSet({byEdit[e] : e \in a.edits})
        /\ IsFiniteSet({byUpdate[q] : q \in live})
        /\ IsFiniteSet({byClose[c] : c \in a.closes})
    <3> HIDE DEF byEdit, byUpdate, byClose, live, a
    <3> QED BY <1>2, <1>4, ImageFinite
  <2> HIDE DEF byEdit, byUpdate, byClose, live, a
  <2> QED BY <1>3, <2>1, FS_Union
<1>6. ASSUME NEW e \in a.edits
      PROVE  /\ byEdit[e] \in Changed
             /\ byEdit[e].item \in Wanted(h) \/ (e.item = New /\ byEdit[e].item = name[e])
             /\ ~ byEdit[e].live
  <2>1. e.item \in Items \cup {New} /\ e.from \in Instants \cup {Unset} /\ e.to \in Ends
        /\ e.close \in BOOLEAN
    BY <1>2, <1>6 DEF Edits
  <2>2. Start(e, now) \in Instants
    BY <2>1 DEF Start
  <2>3. End(e, now) \in Ends
    BY <2>1 DEF End, Instants, Ends
  <2>4. (IF e.item = New THEN name[e] ELSE e.item) \in Items
    BY <2>1
  <2>5. Forever \in Ends
    BY Numbers DEF Ends
  <2>6. byEdit[e] \in Changed
    BY <2>2, <2>3, <2>4, <2>5 DEF EditChange, Change, Changed
  <2>7. /\ byEdit[e].item = IF e.item = New THEN name[e] ELSE e.item
        /\ byEdit[e].live = FALSE
    BY DEF EditChange, Change
  <2>8. e.item # New => e.item \in Wanted(h)
    BY <2>1 DEF Wanted
  <2> QED BY <2>6, <2>7, <2>8
<1>7. ASSUME NEW q \in live
      PROVE  byUpdate[q] \in Changed /\ byUpdate[q].item \in Wanted(h)
  <2>1. q[1] \in tx[h].pending /\ q[2] \in rows
    OBVIOUS
  <2>2. q[1] \in Updates /\ q[2] \in Rows
    BY <1>1, <2>1
  <2>3. q[1].item \in Items /\ q[1].carrier \in Edits /\ Forever \in Ends
    BY <2>2, Numbers DEF Updates, Ends
  <2>4. Cut(q[1], q[2], now) \in Instants
    BY <2>3 DEF Cut, Start, Edits
  <2>5. Cut(q[1], q[2], now) \in Ends
    BY <2>4, Numbers DEF Instants, Ends
  <2>6. byUpdate[q] \in Changed
    BY <2>3, <2>4, <2>5 DEF UpdateChange, Change, Changed
  <2>7. byUpdate[q].item = q[1].item
    BY DEF UpdateChange, Change
  <2> QED BY <2>1, <2>3, <2>6, <2>7 DEF Wanted
<1>8. ASSUME NEW c \in a.closes
      PROVE  byClose[c] \in Changed /\ byClose[c].item \in Wanted(h)
  <2>1. c.item \in Items /\ c.cut \in Instants
    BY <1>2 DEF Closes
  <2>2. c.cut \in Ends /\ Forever \in Ends
    BY <2>1, Numbers DEF Instants, Ends
  <2> QED BY <2>1, <2>2 DEF Change, Changed, Wanted
<1> HIDE DEF byEdit, byUpdate, byClose, live
<1> QED BY <1>3, <1>5, <1>6, <1>7, <1>8

\* What its changes supersede is locked, and is still there.
LEMMA HitsFacts ==
  ASSUME TypeOK, RowsInv, NEW h \in Handlers, TxInv(h), tx[h].pc = "build",
         NEW c \in Changed, c.live => c.item \in Wanted(h), NEW r \in Hits(c, tx[h].seen)
  PROVE  /\ r \in Rows /\ r.item = c.item /\ r.item \in tx[h].held
         /\ \E s \in rows : Same(s, r)
<1>1. rows \in SUBSET Rows /\ tx[h].seen \in SUBSET Rows
  BY DEF TypeOK, Txs
<1>2. r.item = c.item
  BY DEF Hits
<1>3. CASE c.live
  BY <1>1, <1>2, <1>3 DEF Hits, Current, Same, TxInv, DecidedInv
<1>4. CASE ~ c.live
  BY <1>1, <1>2, <1>4 DEF Hits, Same, TxInv
<1> QED BY <1>2, <1>3, <1>4

\* A change meets finitely many of the rows its handler saw.
LEMMA HitsFinite ==
  ASSUME RowsInv, NEW h \in Handlers, TxInv(h), NEW c \in Changed
  PROVE  IsFiniteSet(Hits(c, tx[h].seen))
<1>1. IsFiniteSet(rows) /\ IsFiniteSet(tx[h].seen)
  BY DEF RowsInv, TxInv
<1>2. Hits(c, tx[h].seen) \in SUBSET (rows \cup tx[h].seen)
  BY DEF Hits, Current
<1> QED BY <1>1, <1>2, FS_Union, FS_Subset

\* Each survivor is a draft of the changed item based on a row that the change
\* meets.
LEMMA SurvivorsFacts ==
  ASSUME NEW c \in Changed, NEW seen, IsFiniteSet(Hits(c, seen)), Hits(c, seen) \in SUBSET Rows
  PROVE  /\ IsFiniteSet(Survivors(c, seen))
         /\ \A d \in Survivors(c, seen) :
              /\ d \in Drafted /\ d.item = c.item
              /\ \E r \in Hits(c, seen) : d.base = r.vid
<1> DEFINE S(r) == SurvivingSegments(r.from, r.to, c.start, c.until)
           draft(r) == [s \in S(r) |-> [item |-> c.item, from |-> s.from, to |-> s.to,
                          base |-> r.vid, live |-> c.live, access |-> r.access]]
           part == [r \in Hits(c, seen) |-> {draft(r)[s] : s \in S(r)}]
<1>1. Survivors(c, seen) = UNION {part[r] : r \in Hits(c, seen)}
  BY DEF Survivors
<1>2. ASSUME NEW r \in Hits(c, seen) PROVE IsFiniteSet(part[r])
  <2>1. IsFiniteSet(S(r))
    BY SegmentsFinite
  <2>2. part[r] = {draft(r)[s] : s \in S(r)}
    OBVIOUS
  <2> HIDE DEF draft, S, part
  <2> QED BY <2>1, <2>2, ImageFinite
<1>3. IsFiniteSet(Survivors(c, seen))
  <2> HIDE DEF part
  <2>1. IsFiniteSet({part[r] : r \in Hits(c, seen)})
    BY ImageFinite
  <2> QED BY <1>1, <1>2, <2>1, FS_UNION
<1>4. ASSUME NEW d \in Survivors(c, seen)
      PROVE  d \in Drafted /\ d.item = c.item /\ \E r \in Hits(c, seen) : d.base = r.vid
  <2>1. PICK r \in Hits(c, seen) : d \in part[r]
    BY <1>1
  <2>2. PICK s \in S(r) :
          d = [item |-> c.item, from |-> s.from, to |-> s.to, base |-> r.vid,
               live |-> c.live, access |-> r.access]
    BY <2>1
  <2>3. r \in Rows
    BY <2>1
  <2>4. s.from \in Instants /\ s.to \in Ends
    BY <2>2, <2>3, SegmentsTyped
  <2>5. r.vid \in Nat /\ r.access \in Nat /\ c.item \in Items /\ c.live \in BOOLEAN
    BY <2>3 DEF Rows, Changed
  <2>6. d \in Drafted
    BY <2>2, <2>4, <2>5 DEF Drafted
  <2> QED BY <2>1, <2>2, <2>6
<1> QED BY <1>3, <1>4

\* A change writes at most one row of its own, based on no other.
LEMMA ReplacementFacts ==
  ASSUME NEW c \in Changed
  PROVE  /\ IsFiniteSet(Replacement(c))
         /\ \A d \in Replacement(c) : d \in Drafted /\ d.item = c.item /\ d.base = None /\ ~ d.live
<1> DEFINE new == [item |-> c.item, from |-> c.start, to |-> c.end, base |-> None,
                   live |-> FALSE, access |-> 0]
<1>1. new \in Drafted
  BY DEF Changed, Drafted, None
<1>2. Replacement(c) \in {{}, {new}}
  BY DEF Replacement
<1>3. IsFiniteSet(Replacement(c))
  <2> HIDE DEF new
  <2>1. IsFiniteSet({}) /\ IsFiniteSet({new})
    BY FS_EmptySet, FS_Singleton
  <2> QED BY <1>2, <2>1
<1>4. new.item = c.item /\ new.base = None /\ new.live = FALSE
  OBVIOUS
<1> HIDE DEF new
<1> QED BY <1>1, <1>2, <1>3, <1>4

\* What it is to write.
LEMMA DraftsFacts ==
  ASSUME TypeOK, RowsInv, NEW h \in Handlers, TxInv(h), tx[h].pc = "build",
         NEW C \in SUBSET Changed, IsFiniteSet(C),
         \A c \in C : c.live => c.item \in Wanted(h)
  PROVE  /\ IsFiniteSet(Drafts(C, tx[h].seen))
         /\ \A d \in Drafts(C, tx[h].seen) :
              /\ d \in Drafted
              /\ \E c \in C : d.item = c.item
              /\ d.live \/ d.base # None => \E r \in rows : r.vid = d.base
<1> DEFINE seen == tx[h].seen
           part == [c \in C |-> Survivors(c, seen) \cup Replacement(c)]
<1>1. Drafts(C, seen) = UNION {part[c] : c \in C}
  BY DEF Drafts
<1>2. ASSUME NEW c \in C
      PROVE  /\ IsFiniteSet(part[c])
             /\ \A d \in part[c] :
                  /\ d \in Drafted /\ d.item = c.item
                  /\ d.live \/ d.base # None => \E r \in rows : r.vid = d.base
  <2>1. IsFiniteSet(Hits(c, seen))
    BY HitsFinite
  <2>2. \A r \in Hits(c, seen) : r \in Rows /\ \E s \in rows : Same(s, r)
    BY HitsFacts
  <2>3. /\ IsFiniteSet(Survivors(c, seen)) /\ IsFiniteSet(Replacement(c))
        /\ \A d \in Survivors(c, seen) :
             d \in Drafted /\ d.item = c.item /\ \E r \in Hits(c, seen) : d.base = r.vid
        /\ \A d \in Replacement(c) : d \in Drafted /\ d.item = c.item /\ d.base = None /\ ~ d.live
    BY <2>1, <2>2, SurvivorsFacts, ReplacementFacts
  <2>4. IsFiniteSet(Survivors(c, seen) \cup Replacement(c))
    BY <2>3, FS_Union
  <2> QED BY <2>2, <2>3, <2>4 DEF Same
<1>3. IsFiniteSet(Drafts(C, seen))
  <2> HIDE DEF part
  <2>1. IsFiniteSet({part[c] : c \in C})
    BY ImageFinite
  <2>2. \A T \in {part[c] : c \in C} : IsFiniteSet(T)
    BY <1>2
  <2> QED BY <1>1, <2>1, <2>2, FS_UNION
<1> HIDE DEF part
<1> QED BY <1>1, <1>2, <1>3

\* What a reversal takes back is locked and current, and what it restores is a
\* version of the same item.
LEMMA UndoFacts ==
  ASSUME TypeOK, RowsInv, NEW h \in Handlers, TxInv(h), tx[h].pc = "build"
  PROVE  /\ IsFiniteSet(Restored(tx[h].undo))
         /\ \A d \in Restored(tx[h].undo) :
              /\ d \in Drafted /\ d.item \in Wanted(h)
              /\ \E r \in rows : r.vid = d.base
         /\ \A r \in Withdrawn(tx[h].undo) : r \in rows /\ r.item \in tx[h].held
<1> DEFINE u == tx[h].undo
           old == {s \in rows : s.item = u.item /\ s.vid \in u.plan.closed}
           copy == [r \in old |-> [item |-> r.item, from |-> r.from, to |-> r.to,
                                   base |-> r.vid, live |-> TRUE, access |-> 0]]
<1>1. /\ rows \in SUBSET Rows /\ IsFiniteSet(rows) /\ DecidedInv(h)
      /\ u.locks \in SUBSET Items
      /\ u.item # New => u.item \in u.locks
  BY DEF TypeOK, Txs, RowsInv, TxInv
<1>2. ASSUME NEW r \in rows, r.item = u.item PROVE r.item \in Wanted(h)
  <2>1. r.item \in Items /\ r.item # New
    BY <1>1, Numbers DEF Rows, New
  <2> QED BY <1>1, <1>2, <2>1 DEF Wanted
<1>3. Restored(u) = {copy[r] : r \in old}
  BY DEF Restored
<1>4. ASSUME NEW r \in old
      PROVE  copy[r] \in Drafted /\ copy[r].item \in Wanted(h) /\ copy[r].base = r.vid
  <2>1. r \in Rows /\ r.item \in Wanted(h)
    BY <1>1, <1>2
  <2>2. /\ r.item \in Items /\ r.from \in Instants /\ r.to \in Ends /\ r.vid \in Nat
    BY <2>1 DEF Rows
  <2>3. copy[r] = [item |-> r.item, from |-> r.from, to |-> r.to, base |-> r.vid,
                   live |-> TRUE, access |-> 0]
    OBVIOUS
  <2> HIDE DEF copy
  <2> QED BY <2>1, <2>2, <2>3 DEF Drafted
<1>5. IsFiniteSet(old)
  BY <1>1, FS_Subset
<1>6. IsFiniteSet(Restored(u))
  <2> HIDE DEF copy, old
  <2> QED BY <1>3, <1>5, ImageFinite
<1>7. \A r \in Withdrawn(u) : r \in rows /\ r.item \in tx[h].held
  BY <1>1, <1>2 DEF Withdrawn, Current, DecidedInv
<1>8. \A r \in old : r \in rows
  OBVIOUS
<1> HIDE DEF copy, old
<1> QED BY <1>3, <1>4, <1>6, <1>7, <1>8

\* Version ids come from the sequence, and an id is of one item.
LEMMA NumberedFacts ==
  ASSUME TypeOK, NEW D \in SUBSET Drafted, IsFiniteSet(D)
  PROVE  /\ Cardinality(D) \in Nat
         /\ IsFiniteSet(Numbered(D)) /\ Numbered(D) \in SUBSET PlannedRows
         /\ \A n \in Numbered(D) :
              /\ nextVersion <= n.vid /\ n.vid < nextVersion + Cardinality(D)
              /\ \E d \in D : n.item = d.item /\ n.base = d.base /\ n.live = d.live
         /\ \A m, n \in Numbered(D) : m.vid = n.vid => m.item = n.item
<1> DEFINE before(d) == {e \in D : Precedes(e, d)}
           number == [d \in D |-> [vid |-> VersionId(d, D), item |-> d.item, from |-> d.from,
                        to |-> d.to, base |-> d.base, live |-> d.live, access |-> d.access]]
<1>1. Numbered(D) = {number[d] : d \in D}
  BY DEF Numbered
<1>2. IsFiniteSet(Numbered(D))
  <2> HIDE DEF number
  <2> QED BY <1>1, ImageFinite
<1>3. Cardinality(D) \in Nat
  BY FS_CardinalityType
<1>4. \A d \in D : d.item \in Nat /\ d.base \in Nat /\ d.from \in Nat
  BY Numbers DEF Drafted
<1>5. ASSUME NEW d \in D
      PROVE  /\ VersionId(d, D) = nextVersion + Cardinality(before(d))
             /\ Cardinality(before(d)) \in Nat /\ Cardinality(before(d)) < Cardinality(D)
             /\ IsFiniteSet(before(d))
  <2>1. ~ Precedes(d, d)
    BY <1>4 DEF Precedes
  <2>2. before(d) \in SUBSET D /\ before(d) # D
    BY <2>1
  <2>3. VersionId(d, D) = nextVersion + Cardinality(before(d))
    BY DEF VersionId
  <2> HIDE DEF before
  <2>4. IsFiniteSet(before(d)) /\ Cardinality(before(d)) <= Cardinality(D)
        /\ Cardinality(before(d)) # Cardinality(D)
    BY <2>2, FS_Subset
  <2>5. Cardinality(before(d)) \in Nat
    BY <2>4, FS_CardinalityType
  <2> QED BY <1>3, <2>3, <2>4, <2>5
<1>6. ASSUME NEW d \in D, NEW e \in D, d.item < e.item
      PROVE  VersionId(d, D) < VersionId(e, D)
  <2>1. before(d) \subseteq before(e) /\ d \in before(e) /\ d \notin before(d)
    BY <1>4, <1>6 DEF Precedes
  <2>2. IsFiniteSet(before(e)) /\ Cardinality(before(e)) \in Nat /\ Cardinality(before(d)) \in Nat
        /\ VersionId(d, D) = nextVersion + Cardinality(before(d))
        /\ VersionId(e, D) = nextVersion + Cardinality(before(e))
    BY <1>5
  <2>3. nextVersion \in Nat
    BY DEF TypeOK
  <2> HIDE DEF before
  <2>4. before(d) \in SUBSET before(e) /\ before(d) # before(e)
    BY <2>1
  <2>5. Cardinality(before(d)) <= Cardinality(before(e)) /\ Cardinality(before(d)) # Cardinality(before(e))
    BY <2>2, <2>4, FS_Subset
  <2> QED BY <2>2, <2>3, <2>5
<1>7. nextVersion \in Nat \ {0}
  BY DEF TypeOK
<1>8. ASSUME NEW d \in D
      PROVE  /\ number[d] \in PlannedRows
             /\ nextVersion <= number[d].vid /\ number[d].vid < nextVersion + Cardinality(D)
             /\ number[d].item = d.item /\ number[d].base = d.base /\ number[d].live = d.live
             /\ number[d].vid = VersionId(d, D)
  <2>1. VersionId(d, D) \in Nat \ {0} /\ nextVersion <= VersionId(d, D)
        /\ VersionId(d, D) < nextVersion + Cardinality(D)
    <3> HIDE DEF before
    <3> QED BY <1>3, <1>5, <1>7
  <2>2. d \in Drafted
    OBVIOUS
  <2>3. d.item \in Items /\ d.from \in Instants /\ d.to \in Ends /\ d.base \in Nat
        /\ d.live \in BOOLEAN /\ d.access \in Nat
    BY <2>2 DEF Drafted
  <2>4. number[d] = [vid |-> VersionId(d, D), item |-> d.item, from |-> d.from, to |-> d.to,
                     base |-> d.base, live |-> d.live, access |-> d.access]
    OBVIOUS
  <2> HIDE DEF number
  <2> QED BY <2>1, <2>3, <2>4 DEF PlannedRows
<1>9. ASSUME NEW d \in D, NEW e \in D, number[d].vid = number[e].vid
      PROVE  number[d].item = number[e].item
  <2>1. VersionId(d, D) = VersionId(e, D) /\ number[d].item = d.item /\ number[e].item = e.item
    BY <1>8, <1>9
  <2>2. VersionId(d, D) \in Nat /\ VersionId(e, D) \in Nat
    <3> HIDE DEF before
    <3> QED BY <1>5, <1>7
  <2>3. ~ (d.item < e.item) /\ ~ (e.item < d.item)
    BY <1>6, <2>1, <2>2
  <2> QED BY <1>4, <2>1, <2>3
<1> HIDE DEF number, before
<1> QED BY <1>1, <1>2, <1>3, <1>8, <1>9

-----------------------------------------------------------------------------
\* How the invariant of a handler survives what the others do.

\* Setting one handler's transaction leaves the others' as they were.
LEMMA TxUpdate ==
  ASSUME tx \in [Handlers -> Txs], NEW h \in Handlers, NEW x, tx' = [tx EXCEPT ![h] = x]
  PROVE  /\ tx'[h] = x
         /\ \A g \in Handlers \ {h} : tx'[g] = tx[g]
         /\ x \in Txs => tx' \in [Handlers -> Txs]
OBVIOUS

\* The table and the sequences only grow.
Grows == /\ \A r \in rows : \E s \in rows' : Same(r, s)
         /\ nextVersion <= nextVersion' /\ nextItem <= nextItem'

\* A handler that does not move keeps its part of the invariant when rows only
\* grow, its planned rows stay unused and the heads it named stay heads.
LEMMA Stays ==
  ASSUME TypeOK, TypeOK', RowsInv, NEW h \in Handlers, TxInv(h), tx'[h] = tx[h], Grows,
         \A s \in rows' :
           \/ \E r \in rows : Same(r, s)
           \/ tx[h].pc = "store" =>
                /\ s.vid \notin tx[h].plan.closed
                /\ \A d \in tx[h].plan.added : s.vid # d.vid /\ s.item # d.item,
         tx[h].pc \in {"build", "store"} =>
           \A e \in Named(h) : IsHead(e.expected, Current(e.item))
                               => IsHead(e.expected, Current(e.item))'
  PROVE  TxInv(h)'
<1>1. \A i : Exists(i) => Exists(i)'
  BY DEF Exists, Grows, Same
<1>2. Wanted(h)' = Wanted(h) /\ Named(h)' = Named(h)
  BY DEF Wanted, Named
<1>3. /\ nextVersion \in Nat /\ nextVersion' \in Nat /\ nextItem \in Nat /\ nextItem' \in Nat
      /\ tx[h] \in Txs
  BY DEF TypeOK
<1>4. ASSUME tx[h].pc \in {"build", "store"} PROVE DecidedInv(h)'
  <2>1. DecidedInv(h)
    BY <1>4 DEF TxInv
  <2> QED BY <1>1, <1>2, <1>4, <2>1 DEF DecidedInv
<1>5. ASSUME tx[h].pc = "store" PROVE PlanInv(h)'
  <2> DEFINE p == tx[h].plan
  <2>1. PlanInv(h) /\ p \in Plans /\ tx'[h].plan = p /\ tx'[h].held = tx[h].held
    BY <1>3, <1>5 DEF TxInv, Txs
  <2>2. \A v \in p.closed : \E r \in rows' : r.vid = v
    BY <2>1 DEF PlanInv, Grows, Same
  <2>3. \A r \in rows' : r.vid \in p.closed => r.item \in tx[h].held
    BY <1>5, <2>1 DEF PlanInv, Same
  <2>4. ASSUME NEW d \in p.added
        PROVE  /\ d.vid < nextVersion' /\ d.item < nextItem'
               /\ \A r \in rows' : r.vid # d.vid
               /\ d.live \/ d.base # None => \E r \in rows' : r.vid = d.base
               /\ Exists(d.item)' => d.item \in tx[h].held
    <3>1. /\ d.vid < nextVersion /\ d.item < nextItem
          /\ \A r \in rows : r.vid # d.vid
          /\ d.live \/ d.base # None => \E r \in rows : r.vid = d.base
          /\ Exists(d.item) => d.item \in tx[h].held
      BY <2>1 DEF PlanInv
    <3>2. d.vid \in Nat /\ d.item \in Nat
      BY <2>1, Numbers DEF Plans, PlannedRows
    <3>3. d.vid < nextVersion' /\ d.item < nextItem'
      BY <1>3, <3>1, <3>2 DEF Grows
    <3>4. \A r \in rows' : r.vid # d.vid
      BY <1>5, <3>1 DEF Same
    <3>5. d.live \/ d.base # None => \E r \in rows' : r.vid = d.base
      BY <3>1 DEF Grows, Same
    <3>6. Exists(d.item)' => Exists(d.item)
      BY <1>5 DEF Exists, Same
    <3> QED BY <3>1, <3>3, <3>4, <3>5, <3>6
  <2>5. p.event > 0 /\ IsFiniteSet(p.added)
        /\ \A d, e \in p.added : d.vid = e.vid => d.item = e.item
    BY <2>1 DEF PlanInv
  <2> HIDE DEF p
  <2> QED BY <2>1, <2>2, <2>3, <2>4, <2>5 DEF PlanInv
<1>6. /\ tx[h].pc \notin Locking => tx[h].held = {}
      /\ IsFiniteSet(tx[h].pending) /\ IsFiniteSet(tx[h].seen)
      /\ \A s \in tx[h].seen : s.item \in tx[h].held
  BY DEF TxInv
<1>7. /\ \A u \in tx[h].pending : Exists(u.item)'
      /\ \A i \in tx[h].undo.locks : Exists(i)'
      /\ tx[h].undo.item # New => tx[h].undo.item \in tx[h].undo.locks
  BY <1>1 DEF TxInv
<1>8. \A s \in tx[h].seen : \E r \in rows' : r.vid = s.vid /\ r.item = s.item
  BY DEF TxInv, Grows, Same
<1> QED BY <1>4, <1>5, <1>6, <1>7, <1>8 DEF TxInv

\* Only h moves, and the rows stay.
LEMMA OneMoves ==
  ASSUME IInv, TypeOK', NEW h \in Handlers, \A g \in Handlers \ {h} : tx'[g] = tx[g],
         rows' = rows, nextVersion <= nextVersion', nextItem <= nextItem',
         TxInv(h)', \A g \in Handlers \ {h} : ApartInv(h, g)'
  PROVE  /\ (\A g \in Handlers : TxInv(g))'
         /\ (\A g, k \in Handlers : g # k => ApartInv(g, k))'
<1>1. TypeOK /\ RowsInv
  BY DEF IInv
<1>2. ASSUME NEW g \in Handlers \ {h} PROVE TxInv(g)'
  <2>1. TxInv(g) /\ tx'[g] = tx[g]
    BY DEF IInv
  <2>2. Grows
    BY DEF Grows, Same
  <2>3. \A e \in Named(g) : IsHead(e.expected, Current(e.item))
                            => IsHead(e.expected, Current(e.item))'
    BY DEF Current, IsHead
  <2>4. \A s \in rows' : \E r \in rows : Same(r, s)
    BY DEF Same
  <2> QED BY <1>1, <2>1, <2>2, <2>3, <2>4, Stays
<1>3. ASSUME NEW g \in Handlers, NEW k \in Handlers, g # k PROVE ApartInv(g, k)'
  <2>1. CASE g = h
    BY <1>3, <2>1
  <2>2. CASE k = h
    <3>1. ApartInv(k, g)'
      BY <1>3, <2>2
    <3> QED BY <3>1 DEF ApartInv
  <2>3. CASE g # h /\ k # h
    <3>1. ApartInv(g, k) /\ tx'[g] = tx[g] /\ tx'[k] = tx[k]
      BY <1>3, <2>3 DEF IInv
    <3> QED BY <3>1 DEF ApartInv
  <2> QED BY <2>1, <2>2, <2>3
<1> QED BY <1>2, <1>3

\* A transaction that ended holds nothing.
LEMMA EndedFacts ==
  ASSUME TypeOK, NEW h \in Handlers, NEW what \in Replies, NEW n \in Nat,
         Reply(h, what, n)
  PROVE  /\ tx' \in [Handlers -> Txs]
         /\ tx'[h] = Ended(h, what, n)
         /\ \A g \in Handlers \ {h} : tx'[g] = tx[g]
         /\ TxInv(h)'
         /\ \A g \in Handlers \ {h} : ApartInv(h, g)'
<1>1. tx \in [Handlers -> Txs] /\ tx[h] \in Txs
  BY DEF TypeOK
<1>2. Ended(h, what, n) \in Txs
  <2>1. tx[h].ask \in Asks \cup {NoAsk}
    BY <1>1 DEF Txs
  <2> QED BY <2>1, NothingPlanned DEF Ended, Txs, Working, Locking
<1>3. tx' = [tx EXCEPT ![h] = Ended(h, what, n)]
  BY DEF Reply
<1>4. /\ tx' \in [Handlers -> Txs] /\ tx'[h] = Ended(h, what, n)
      /\ \A g \in Handlers \ {h} : tx'[g] = tx[g]
  BY <1>1, <1>2, <1>3, TxUpdate
<1>5. /\ tx'[h].pc = "done" /\ tx'[h].held = {} /\ tx'[h].pending = {} /\ tx'[h].seen = {}
      /\ tx'[h].undo = NoUndo
  BY <1>4 DEF Ended
<1>6. TxInv(h)'
  BY <1>5, FS_EmptySet, NothingPlanned DEF TxInv, Locking
<1>7. \A g \in Handlers \ {h} : ApartInv(h, g)'
  BY <1>5 DEF ApartInv
<1> QED BY <1>4, <1>6, <1>7

\* A step of h that leaves the rows and the events alone.
LEMMA QuietStep ==
  ASSUME IInv, TypeOK', NEW h \in Handlers, \A g \in Handlers \ {h} : tx'[g] = tx[g],
         rows' = rows, events' = events,
         nextVersion <= nextVersion', nextItem <= nextItem',
         TxInv(h)', \A g \in Handlers \ {h} : ApartInv(h, g)',
         tx'[h].reply \in {"done", "replayed"} =>
           \E v \in events : v.id = tx'[h].answer /\ v.ask = tx'[h].ask
  PROVE  IInv'
<1>1. TypeOK /\ RowsInv /\ AnswersAreTrue
  BY DEF IInv
<1>2. (\A g \in Handlers : TxInv(g))' /\ (\A g, k \in Handlers : g # k => ApartInv(g, k))'
  BY OneMoves
<1>3. RowsInv'
  <2>1. /\ nextVersion \in Nat /\ nextVersion' \in Nat /\ nextItem \in Nat /\ nextItem' \in Nat
        /\ \A r \in rows : r.vid \in Nat /\ r.item \in Nat
    BY <1>1, Numbers DEF TypeOK, Rows
  <2>2. Given \in Nat
    BY Numbers
  <2> QED BY <1>1, <2>1, <2>2 DEF RowsInv
<1>4. AnswersAreTrue'
  <2>1. \A v, w \in events' : v.kind # "access" /\ w.kind # "access" /\ v.ask.key = w.ask.key => v = w
    BY <1>1 DEF AnswersAreTrue
  <2>2. ASSUME NEW g \in Handlers, tx'[g].reply \in {"done", "replayed"}
        PROVE  \E v \in events' : v.id = tx'[g].answer /\ v.ask = tx'[g].ask
    BY <1>1, <2>2 DEF AnswersAreTrue
  <2> QED BY <2>1, <2>2 DEF AnswersAreTrue
<1> QED BY <1>2, <1>3, <1>4 DEF IInv

\* A transaction begins, or is refused at once.
LEMMA BegunStep ==
  ASSUME IInv, NEW h \in Handlers, NEW x \in Txs, tx' = [tx EXCEPT ![h] = x],
         x.pc \in {"done", "key", "locks"}, x.held = {}, x.seen = {},
         x.reply \notin {"done", "replayed"}, IsFiniteSet(x.pending),
         \A u \in x.pending : Exists(u.item), \A i \in x.undo.locks : Exists(i),
         x.undo.item # New => x.undo.item \in x.undo.locks,
         UNCHANGED <<rows, events, clock, sequences, reader, setBacks>>
  PROVE  IInv'
<1>1. TypeOK /\ tx \in [Handlers -> Txs]
  BY DEF IInv, TypeOK
<1>2. tx'[h] = x /\ (\A g \in Handlers \ {h} : tx'[g] = tx[g]) /\ tx' \in [Handlers -> Txs]
  BY <1>1, TxUpdate
<1>3. TypeOK'
  BY <1>1, <1>2 DEF TypeOK, sequences
<1>4. \A i : Exists(i)' <=> Exists(i)
  BY DEF Exists
<1>5. TxInv(h)'
  BY <1>2, <1>4, FS_EmptySet DEF TxInv, Locking
<1>6. \A g \in Handlers \ {h} : ApartInv(h, g)'
  BY <1>2 DEF ApartInv
<1>7. nextVersion <= nextVersion' /\ nextItem <= nextItem'
  BY <1>1 DEF sequences, TypeOK
<1> QED BY <1>2, <1>3, <1>5, <1>6, <1>7, QuietStep

\* A request starts with nothing found and nothing planned.
LEMMA BeginStep ==
  ASSUME IInv, NEW h \in Handlers, NEW a \in Asks, Begin(h, a)
  PROVE  IInv'
<1> DEFINE x == [pc |-> IF ~ Known(a) THEN "done" ELSE IF IsWrite(a) THEN "key" ELSE "locks",
                 ask |-> a,
                 pending |-> IF Known(a) THEN {u \in a.updates : Current(u.item) # {}} ELSE {},
                 undo |-> NoUndo, held |-> {}, seen |-> {}, plan |-> NoPlan,
                 reply |-> IF Known(a) THEN "none" ELSE "notFound", answer |-> 0]
<1>1. tx' = [tx EXCEPT ![h] = x] /\ UNCHANGED <<rows, events, clock, sequences, reader, setBacks>>
  BY DEF Begin
<1>2. a.updates \in SUBSET Updates /\ IsFiniteSet(a.updates)
  BY AskParts
<1>3. /\ x.pc \in {"done", "key", "locks"} /\ x.held = {} /\ x.seen = {}
      /\ x.pending \in SUBSET a.updates /\ x.undo = NoUndo
      /\ x.reply \in {"none", "notFound"}
      /\ \A u \in x.pending : Current(u.item) # {}
  OBVIOUS
<1>4. x \in Txs
  BY <1>2, NothingPlanned DEF Txs, Working, Locking, Replies
<1> HIDE DEF x
<1>5. IsFiniteSet(x.pending)
  BY <1>2, <1>3, FS_Subset
<1>6. \A u \in x.pending : Exists(u.item)
  BY <1>3 DEF Exists, Current
<1> QED BY <1>1, <1>3, <1>4, <1>5, <1>6, NothingPlanned, BegunStep

\* A reversal starts from the plan of a committed write.
LEMMA BeginReversalStep ==
  ASSUME IInv, NEW h \in Handlers, NEW a \in Asks, BeginReversal(h, a)
  PROVE  IInv'
<1> DEFINE x(pc, undo, reply) ==
             [pc |-> pc, ask |-> a, pending |-> {}, undo |-> undo, held |-> {},
              seen |-> {}, plan |-> NoPlan, reply |-> reply, answer |-> 0]
<1>1. TypeOK /\ UNCHANGED <<rows, events, clock, sequences, reader, setBacks>>
  BY DEF IInv, BeginReversal
<1>2. PICK u \in a.reverts :
        \/ tx' = [tx EXCEPT ![h] = x("done", NoUndo, "notFound")]
        \/ tx' = [tx EXCEPT ![h] = x("done", NoUndo, "versionConflict")]
        \/ \E v \in events :
             /\ Updated(v, u.item)
             /\ tx' = [tx EXCEPT ![h] =
                  x("locks", [item |-> u.item, locks |-> Linked(v, u.item), plan |-> v.plan],
                    "none")]
  BY DEF BeginReversal
<1>3. u.item \in Items
  BY AskParts DEF Reversals
<1>4. ASSUME NEW pc \in {"done", "locks"}, NEW reply \in {"none", "notFound", "versionConflict"},
             NEW undo \in [item: Items \cup {New}, locks: SUBSET Items, plan: Plans],
             \A i \in undo.locks : Exists(i), undo.item # New => undo.item \in undo.locks,
             tx' = [tx EXCEPT ![h] = x(pc, undo, reply)]
      PROVE  IInv'
  <2>1. /\ x(pc, undo, reply).pc = pc /\ x(pc, undo, reply).held = {}
        /\ x(pc, undo, reply).seen = {} /\ x(pc, undo, reply).pending = {}
        /\ x(pc, undo, reply).undo = undo /\ x(pc, undo, reply).reply = reply
    OBVIOUS
  <2>2. x(pc, undo, reply) \in Txs
    BY NothingPlanned DEF Txs, Working, Locking, Replies
  <2> HIDE DEF x
  <2> QED BY <1>1, <1>4, <2>1, <2>2, FS_EmptySet, BegunStep
<1>5. ASSUME NEW v \in events, Updated(v, u.item),
             tx' = [tx EXCEPT ![h] =
               x("locks", [item |-> u.item, locks |-> Linked(v, u.item), plan |-> v.plan], "none")]
      PROVE  IInv'
  <2>1. v.plan \in Plans
    BY <1>1 DEF TypeOK, Events
  <2>2. Linked(v, u.item) \in SUBSET Items
    BY DEF Linked
  <2>3. \A i \in Linked(v, u.item) : Exists(i)
    BY DEF Linked, Exists
  <2>4. u.item \in Linked(v, u.item)
    BY <1>3, <1>5 DEF Updated, Linked
  <2>5. PICK undo : undo = [item |-> u.item, locks |-> Linked(v, u.item), plan |-> v.plan]
    OBVIOUS
  <2>6. /\ undo \in [item: Items \cup {New}, locks: SUBSET Items, plan: Plans]
        /\ \A i \in undo.locks : Exists(i)
        /\ undo.item \in undo.locks
    BY <1>3, <2>1, <2>2, <2>3, <2>4, <2>5
  <2>7. tx' = [tx EXCEPT ![h] = x("locks", undo, "none")]
    BY <1>5, <2>5
  <2> HIDE DEF x
  <2> QED BY <1>4, <2>6, <2>7
<1> HIDE DEF x
<1> QED BY <1>2, <1>4, <1>5, NothingPlanned

\* The request's key is locked before the event it stands for is looked up.
LEMMA LockRequestStep ==
  ASSUME IInv, NEW h \in Handlers, LockRequest(h)
  PROVE  IInv'
<1> DEFINE x == [tx[h] EXCEPT !.pc = "locks"]
<1>1. TypeOK /\ tx \in [Handlers -> Txs] /\ tx[h] \in Txs /\ TxInv(h) /\ AnswersAreTrue
  BY DEF IInv, TypeOK
<1>2. /\ tx[h].pc = "key" /\ tx' = [tx EXCEPT ![h] = x]
      /\ UNCHANGED <<rows, events, clock, sequences, reader, setBacks>>
  BY DEF LockRequest
<1>3. /\ x.pc = "locks" /\ x.held = tx[h].held /\ x.seen = tx[h].seen /\ x.ask = tx[h].ask
      /\ x.pending = tx[h].pending /\ x.reply = tx[h].reply /\ x.answer = tx[h].answer
      /\ x.undo = tx[h].undo /\ x \in Txs
  BY <1>1 DEF Txs, Working, Locking
<1> HIDE DEF x
<1>4. tx'[h] = x /\ (\A g \in Handlers \ {h} : tx'[g] = tx[g]) /\ tx' \in [Handlers -> Txs]
  BY <1>1, <1>2, <1>3, TxUpdate
<1>5. TypeOK'
  BY <1>1, <1>2, <1>4 DEF TypeOK, sequences
<1>6. TxInv(h)'
  BY <1>1, <1>2, <1>3, <1>4 DEF TxInv, Locking, Exists
<1>7. tx[h].held = {}
  BY <1>1, <1>2 DEF TxInv, Locking
<1>8. \A g \in Handlers \ {h} : ApartInv(h, g)'
  BY <1>3, <1>4, <1>7 DEF ApartInv
<1>9. nextVersion <= nextVersion' /\ nextItem <= nextItem'
  BY <1>1, <1>2 DEF sequences, TypeOK
<1>10. tx'[h].reply \in {"done", "replayed"} =>
         \E v \in events : v.id = tx'[h].answer /\ v.ask = tx'[h].ask
  BY <1>1, <1>3, <1>4 DEF AnswersAreTrue
<1> QED BY <1>2, <1>4, <1>5, <1>6, <1>8, <1>9, <1>10, QuietStep

\* A transaction locks its items one at a time, each free before.
LEMMA LockItemStep ==
  ASSUME IInv, NEW h \in Handlers, NEW i \in Items, LockItem(h, i)
  PROVE  IInv'
<1> DEFINE x == [tx[h] EXCEPT !.held = @ \cup {i}]
<1>1. TypeOK /\ tx \in [Handlers -> Txs] /\ tx[h] \in Txs /\ TxInv(h) /\ AnswersAreTrue
  BY DEF IInv, TypeOK
<1>2. /\ tx[h].pc = "locks" /\ tx' = [tx EXCEPT ![h] = x]
      /\ \A g \in Handlers : i \notin tx[g].held
      /\ UNCHANGED <<rows, events, clock, sequences, reader, setBacks>>
  BY DEF LockItem
<1>3. /\ x.pc = "locks" /\ x.held = tx[h].held \cup {i} /\ x.seen = tx[h].seen
      /\ x.ask = tx[h].ask /\ x.pending = tx[h].pending /\ x.reply = tx[h].reply
      /\ x.answer = tx[h].answer /\ x.undo = tx[h].undo /\ x \in Txs
  BY <1>1, <1>2 DEF Txs
<1> HIDE DEF x
<1>4. tx'[h] = x /\ (\A g \in Handlers \ {h} : tx'[g] = tx[g]) /\ tx' \in [Handlers -> Txs]
  BY <1>1, <1>2, <1>3, TxUpdate
<1>5. TypeOK'
  BY <1>1, <1>2, <1>4 DEF TypeOK, sequences
<1>6. TxInv(h)'
  BY <1>1, <1>2, <1>3, <1>4 DEF TxInv, Locking, Exists
<1>7. ASSUME NEW g \in Handlers \ {h} PROVE ApartInv(h, g)'
  <2>1. ApartInv(h, g)
    BY DEF IInv
  <2> QED BY <1>2, <1>3, <1>4, <2>1 DEF ApartInv
<1>8. nextVersion <= nextVersion' /\ nextItem <= nextItem'
  BY <1>1, <1>2 DEF sequences, TypeOK
<1>9. tx'[h].reply \in {"done", "replayed"} =>
         \E v \in events : v.id = tx'[h].answer /\ v.ask = tx'[h].ask
  BY <1>1, <1>3, <1>4 DEF AnswersAreTrue
<1> QED BY <1>2, <1>4, <1>5, <1>6, <1>7, <1>8, <1>9, QuietStep

\* A transaction that is refused, or does not come back.
LEMMA RefusedStep ==
  ASSUME IInv, NEW h \in Handlers, NEW what \in Replies \ {"done", "replayed"},
         Reply(h, what, 0), clock' \in Nat,
         UNCHANGED <<rows, events, sequences, reader, setBacks>>
  PROVE  IInv'
<1>1. TypeOK
  BY DEF IInv
<1>2. /\ tx' \in [Handlers -> Txs] /\ tx'[h] = Ended(h, what, 0)
      /\ \A g \in Handlers \ {h} : tx'[g] = tx[g]
      /\ TxInv(h)' /\ \A g \in Handlers \ {h} : ApartInv(h, g)'
  BY <1>1, EndedFacts
<1>3. tx'[h].reply = what
  BY <1>2 DEF Ended
<1>4. TypeOK' /\ nextVersion <= nextVersion' /\ nextItem <= nextItem'
  BY <1>1, <1>2 DEF TypeOK, sequences
<1> QED BY <1>2, <1>3, <1>4, QuietStep

\* A rolled back write leaves no row and gives its locks up.
LEMMA RollbackStep ==
  ASSUME IInv, NEW h \in Handlers, Rollback(h)
  PROVE  IInv'
<1>1. Reply(h, "aborted", 0) /\ UNCHANGED <<rows, events, clock, sequences, reader, setBacks>>
  BY DEF Rollback
<1>2. "aborted" \in Replies /\ clock' \in Nat
  BY <1>1 DEF Replies, IInv, TypeOK
<1> QED BY <1>1, <1>2, RefusedStep

\* What the decision on a transaction has seen.
LEMMA VerdictFacts ==
  ASSUME NEW a
  PROVE  /\ Verdict(a) \in (Replies \ {"done"}) \cup {"ok"}
         /\ Verdict(a) = "ok" =>
              /\ Known(a)
              /\ \A e \in a.edits : e.item # New => IsHead(e.expected, Current(e.item))
              /\ \A c \in a.closes : IsHead(c.expected, Current(c.item))
         /\ Verdict(a) = "replayed" => SameRequest(a)
BY DEF Verdict, Replies, Stale

\* With every lock held, a transaction that goes on has found the heads its
\* author quoted.
LEMMA DecideStep ==
  ASSUME IInv, NEW h \in Handlers, Decide(h)
  PROVE  IInv'
<1> DEFINE a == tx[h].ask
           pending == tx[h].pending
<1>1. /\ TypeOK /\ tx \in [Handlers -> Txs] /\ tx[h] \in Txs /\ TxInv(h) /\ RowsInv
      /\ AnswersAreTrue
  BY DEF IInv, TypeOK
<1>2. /\ tx[h].pc = "locks" /\ Wanted(h) \subseteq tx[h].held
      /\ UNCHANGED <<rows, events, sequences, reader, setBacks>>
  BY DEF Decide
<1>3. a \in Asks \cup {NoAsk} /\ pending \in SUBSET Updates
  BY <1>1 DEF Txs
<1>4. CASE /\ Verdict(a) = "replayed" /\ clock' = clock
           /\ \E v \in Prior(a) : Reply(h, "replayed", v.id)
  <2>1. PICK v \in Prior(a) : Reply(h, "replayed", v.id)
    BY <1>4
  <2>2. v \in events /\ v.id \in Nat /\ v.ask = a
    <3>1. PICK w \in Prior(a) : w.ask = a
      BY <1>4, VerdictFacts DEF SameRequest
    <3>2. v = w
      BY <1>1, <3>1 DEF Prior, AnswersAreTrue
    <3>3. v \in Events
      BY <1>1 DEF TypeOK, Prior
    <3> QED BY <3>1, <3>2, <3>3 DEF Prior, Events
  <2>3. "replayed" \in Replies
    BY DEF Replies
  <2>4. /\ tx' \in [Handlers -> Txs] /\ tx'[h] = Ended(h, "replayed", v.id)
        /\ \A g \in Handlers \ {h} : tx'[g] = tx[g]
        /\ TxInv(h)' /\ \A g \in Handlers \ {h} : ApartInv(h, g)'
    BY <1>1, <2>1, <2>2, <2>3, EndedFacts
  <2>5. tx'[h].answer = v.id /\ tx'[h].ask = a
    BY <2>4 DEF Ended
  <2>6. TypeOK' /\ nextVersion <= nextVersion' /\ nextItem <= nextItem'
    BY <1>1, <1>2, <1>4, <2>4 DEF TypeOK, sequences
  <2> QED BY <1>2, <2>2, <2>4, <2>5, <2>6, QuietStep
<1>5. CASE Verdict(a) \notin {"ok", "replayed"} /\ clock' = clock /\ Reply(h, Verdict(a), 0)
  <2>1. Verdict(a) \in Replies \ {"done", "replayed"}
    BY <1>5, VerdictFacts
  <2>2. clock' \in Nat
    BY <1>1, <1>5 DEF TypeOK
  <2> QED BY <1>2, <1>5, <2>1, <2>2, RefusedStep
<1>6. CASE /\ Verdict(a) = "ok"
           /\ clock' = IF pending = {} THEN clock ELSE clock + 1
           /\ \E kept \in SUBSET {u \in pending : Sound(u, a, pending, clock + 1)} :
                tx' = [tx EXCEPT ![h] =
                  [pc |-> "build", ask |-> a, pending |-> kept,
                   undo |-> tx[h].undo, held |-> tx[h].held,
                   seen |-> {r \in rows : IsCurrent(r) /\ \E e \in a.edits : r.item = e.item},
                   plan |-> NoPlan, reply |-> "none", answer |-> 0]]
  <2>1. PICK kept \in SUBSET {u \in pending : Sound(u, a, pending, clock + 1)} :
          tx' = [tx EXCEPT ![h] =
            [pc |-> "build", ask |-> a, pending |-> kept,
             undo |-> tx[h].undo, held |-> tx[h].held,
             seen |-> {r \in rows : IsCurrent(r) /\ \E e \in a.edits : r.item = e.item},
             plan |-> NoPlan, reply |-> "none", answer |-> 0]]
    BY <1>6
  <2>2. PICK seen : seen = {r \in rows : IsCurrent(r) /\ \E e \in a.edits : r.item = e.item}
    OBVIOUS
  <2>3. PICK x : x = [pc |-> "build", ask |-> a, pending |-> kept,
                      undo |-> tx[h].undo, held |-> tx[h].held, seen |-> seen, plan |-> NoPlan, reply |-> "none", answer |-> 0]
    OBVIOUS
  <2>4. /\ x.pc = "build" /\ x.ask = a /\ x.pending = kept /\ x.held = tx[h].held
        /\ x.seen = seen /\ x.reply = "none" /\ x.plan = NoPlan /\ x.answer = 0
        /\ x.undo = tx[h].undo
    BY <2>3
  <2>5. x \in Txs
    <3>1. kept \in SUBSET Updates /\ seen \in SUBSET Rows /\ tx[h].held \in SUBSET Items
          /\ tx[h].undo \in [item: Items \cup {New}, locks: SUBSET Items, plan: Plans]
      BY <1>1, <1>3, <2>1, <2>2 DEF TypeOK, Txs
    <3> QED BY <1>3, <2>3, <3>1, NothingPlanned DEF Txs, Working, Locking, Replies
  <2>6. tx' = [tx EXCEPT ![h] = x]
    BY <2>1, <2>2, <2>3
  <2>7. tx'[h] = x /\ (\A g \in Handlers \ {h} : tx'[g] = tx[g]) /\ tx' \in [Handlers -> Txs]
    BY <1>1, <2>5, <2>6, TxUpdate
  <2>8. clock' \in Nat
    BY <1>1, <1>6 DEF TypeOK
  <2>9. TypeOK' /\ nextVersion <= nextVersion' /\ nextItem <= nextItem'
    BY <1>1, <1>2, <2>7, <2>8 DEF TypeOK, sequences
  <2>10. IsFiniteSet(kept) /\ IsFiniteSet(seen)
    BY <1>1, <2>1, <2>2, FS_Subset DEF TxInv, RowsInv
  <2>11. Wanted(h)' \subseteq Wanted(h) /\ Named(h)' = Named(h)
    BY <2>1, <2>4, <2>7 DEF Wanted, Named
  <2>12. ASSUME NEW i \in Wanted(h)' PROVE Exists(i)'
    <3>1. i \in Items /\ 0 \notin Items
      BY Numbers DEF Wanted
    <3>2. CASE \E e \in a.edits : e.item = i
      BY <1>2, <1>6, <3>1, <3>2, VerdictFacts DEF Known, New, Exists, Current
    <3>3. CASE \E u \in kept : u.item = i
      BY <1>1, <1>2, <2>1, <3>3 DEF TxInv, Exists
    <3>4. CASE \E c \in a.closes : c.item = i
      <4>1. PICK c \in a.closes : c.item = i
        BY <3>4
      <4>2. c.expected # None /\ IsHead(c.expected, Current(i))
        BY <1>3, <1>6, <4>1, VerdictFacts, AskParts
      <4> QED BY <1>2, <4>2 DEF IsHead, Current, Exists
    <3>5. CASE i \in tx[h].undo.locks
      BY <1>1, <1>2, <3>5 DEF TxInv, Exists
    <3> QED BY <2>4, <2>7, <3>2, <3>3, <3>4, <3>5 DEF Wanted
  <2>13. ASSUME NEW e \in Named(h)' PROVE IsHead(e.expected, Current(e.item))'
    <3>1. e \in a.edits \cup a.closes /\ e.item # New
      BY <2>11 DEF Named
    <3>2. IsHead(e.expected, Current(e.item))
      BY <1>6, <3>1, VerdictFacts
    <3> QED BY <1>2, <3>2 DEF IsHead, Current
  <2>14. DecidedInv(h)'
    BY <1>2, <2>4, <2>7, <2>11, <2>12, <2>13 DEF DecidedInv
  <2>15. \A s \in seen : s \in rows /\ s.item \in tx[h].held
    <3>1. ASSUME NEW s \in seen PROVE s \in rows /\ s.item \in tx[h].held
      <4>1. s \in rows /\ s.item \in Items
        BY <1>1, <2>2 DEF TypeOK, Rows
      <4> QED BY <1>2, <2>2, <4>1 DEF Wanted
    <3> QED BY <3>1
  <2>16. /\ \A u \in kept : Exists(u.item)'
         /\ \A i \in tx[h].undo.locks : Exists(i)'
         /\ tx[h].undo.item # New => tx[h].undo.item \in tx[h].undo.locks
    BY <1>1, <1>2, <2>1 DEF TxInv, Exists
  <2>17. TxInv(h)'
    BY <1>2, <2>4, <2>7, <2>10, <2>14, <2>15, <2>16 DEF TxInv, Locking
  <2>18. ASSUME NEW g \in Handlers \ {h} PROVE ApartInv(h, g)'
    <3>1. ApartInv(h, g)
      BY DEF IInv
    <3> QED BY <2>4, <2>7, <3>1 DEF ApartInv
  <2> QED BY <1>2, <2>4, <2>7, <2>9, <2>17, <2>18, QuietStep
<1>7. \/ /\ Verdict(a) = "replayed" /\ clock' = clock
         /\ \E v \in Prior(a) : Reply(h, "replayed", v.id)
      \/ Verdict(a) \notin {"ok", "replayed"} /\ clock' = clock /\ Reply(h, Verdict(a), 0)
      \/ /\ Verdict(a) = "ok"
         /\ clock' = IF pending = {} THEN clock ELSE clock + 1
         /\ \E kept \in SUBSET {u \in pending : Sound(u, a, pending, clock + 1)} :
                tx' = [tx EXCEPT ![h] =
                  [pc |-> "build", ask |-> a, pending |-> kept,
                   undo |-> tx[h].undo, held |-> tx[h].held,
                   seen |-> {r \in rows : IsCurrent(r) /\ \E e \in a.edits : r.item = e.item},
                   plan |-> NoPlan, reply |-> "none", answer |-> 0]]
  BY DEF Decide
<1> QED BY <1>4, <1>5, <1>6, <1>7

\* The plan of a build: what it closes is locked, its ids are new.
LEMMA BuildStep ==
  ASSUME IInv, NEW h \in Handlers, Build(h)
  PROVE  IInv'
<1> DEFINE a == tx[h].ask
           now == clock + 1
           created == {e \in a.edits : e.item = New}
<1>1. /\ TypeOK /\ tx \in [Handlers -> Txs] /\ tx[h] \in Txs /\ TxInv(h) /\ RowsInv
      /\ AnswersAreTrue
  BY DEF IInv, TypeOK
<1>2. /\ tx[h].pc = "build" /\ clock' = now
      /\ UNCHANGED <<rows, events, reader, setBacks>>
      /\ \/ /\ \/ Reply(h, "temporal", 0) \/ Reply(h, "authorityLost", 0)
               \/ Reply(h, "versionConflict", 0)
            /\ UNCHANGED sequences
         \/ (\A e \in a.edits : InOrder(e, now)) /\ Planned(h, now)
  BY DEF Build
<1>3. now \in Nat
  BY <1>1 DEF TypeOK
<1>4. CASE /\ \/ Reply(h, "temporal", 0) \/ Reply(h, "authorityLost", 0)
              \/ Reply(h, "versionConflict", 0)
           /\ UNCHANGED sequences
  <2>1. {"temporal", "authorityLost", "versionConflict"} \subseteq Replies \ {"done", "replayed"}
    BY DEF Replies
  <2> QED BY <1>2, <1>3, <1>4, <2>1, RefusedStep
<1>5. CASE (\A e \in a.edits : InOrder(e, now)) /\ Planned(h, now)
  <2>1. PICK name \in [created -> nextItem .. nextItem + Cardinality(created) - 1] :
          LET u    == tx[h].undo
              C    == Changes(h, now, name)
              D    == Drafts(C, tx[h].seen) \cup Restored(u)
              hits == Withdrawn(u) \cup UNION {Hits(c, tx[h].seen) : c \in C}
          IN
          /\ \A e, f \in created : e # f => name[e] # name[f]
          /\ \A e \in created : name[e] \in Items
          /\ \E t \in Instants :
               /\ SelectT(t, now, {r.rec : r \in hits} \cup {u.plan.at})
               /\ tx' = [tx EXCEPT ![h] =
                    [pc |-> "store", ask |-> tx[h].ask, pending |-> {}, undo |-> u,
                     held |-> tx[h].held, seen |-> {},
                     plan |-> [event |-> NewEvent, at |-> t, closed |-> {r.vid : r \in hits},
                               added |-> Numbered(D)],
                     reply |-> "none", answer |-> 0]]
          /\ nextVersion' = nextVersion + Cardinality(D)
          /\ nextEvent' = nextEvent + 1
          /\ nextItem' = nextItem + Cardinality(created)
    BY <1>5 DEF Planned
  <2>2. PICK C : C = Changes(h, now, name)
    OBVIOUS
  <2>u. PICK u : u = tx[h].undo
    OBVIOUS
  <2>3. PICK D : D = Drafts(C, tx[h].seen) \cup Restored(u)
    OBVIOUS
  <2>4. PICK hits : hits = Withdrawn(u) \cup UNION {Hits(c, tx[h].seen) : c \in C}
    OBVIOUS
  <2>5. PICK t \in Instants :
          /\ SelectT(t, now, {r.rec : r \in hits} \cup {u.plan.at})
          /\ tx' = [tx EXCEPT ![h] =
               [pc |-> "store", ask |-> tx[h].ask, pending |-> {}, undo |-> u,
                held |-> tx[h].held, seen |-> {},
                plan |-> [event |-> NewEvent, at |-> t, closed |-> {r.vid : r \in hits},
                          added |-> Numbered(D)],
                reply |-> "none", answer |-> 0]]
    BY <2>1, <2>2, <2>u, <2>3, <2>4
  <2>6. PICK p : p = [event |-> nextEvent, at |-> t, closed |-> {r.vid : r \in hits},
                      added |-> Numbered(D)]
    OBVIOUS
  <2>7. PICK x : x = [pc |-> "store", ask |-> tx[h].ask, pending |-> {}, undo |-> u,
                      held |-> tx[h].held, seen |-> {}, plan |-> p, reply |-> "none", answer |-> 0]
    OBVIOUS
  <2>8. /\ tx' = [tx EXCEPT ![h] = x]
        /\ nextVersion' = nextVersion + Cardinality(D)
        /\ nextEvent' = nextEvent + 1
        /\ nextItem' = nextItem + Cardinality(created)
        /\ \A e \in created : name[e] \in Items
    BY <2>1, <2>2, <2>u, <2>3, <2>5, <2>6, <2>7 DEF NewEvent
  <2>9. now \in Instants
    BY <1>3, <2>5, Numbers DEF SelectT, Instants
  <2>10. /\ IsFiniteSet(C) /\ C \in SUBSET Changed
         /\ \A c \in C :
              /\ c.item \in Wanted(h) \/ \E e \in created : c.item = name[e]
              /\ c.live => c.item \in Wanted(h)
    BY <1>1, <1>5, <2>2, <2>8, <2>9, ChangesFacts
  <2>11. a.edits \in SUBSET Edits /\ IsFiniteSet(created) /\ Cardinality(created) \in Nat
    <3>1. a \in Asks \cup {NoAsk}
      BY <1>1 DEF Txs
    <3> QED BY <3>1, AskParts, FS_Subset, FS_CardinalityType
  <2>12. \A c \in C : c.live => c.item \in Wanted(h)
    BY <2>10
  <2>13. /\ IsFiniteSet(D)
         /\ \A d \in D :
              /\ d \in Drafted
              /\ d.item \in Wanted(h) \/ \E c \in C : d.item = c.item
              /\ d.live \/ d.base # None => \E r \in rows : r.vid = d.base
    <3>1. /\ IsFiniteSet(Drafts(C, tx[h].seen))
          /\ \A d \in Drafts(C, tx[h].seen) :
               /\ d \in Drafted
               /\ \E c \in C : d.item = c.item
               /\ d.live \/ d.base # None => \E r \in rows : r.vid = d.base
      BY <1>1, <1>2, <2>10, <2>12, DraftsFacts
    <3>2. /\ IsFiniteSet(Restored(u))
          /\ \A d \in Restored(u) :
               d \in Drafted /\ d.item \in Wanted(h) /\ \E r \in rows : r.vid = d.base
      BY <1>1, <1>2, <2>u, UndoFacts
    <3> QED BY <2>3, <3>1, <3>2, FS_Union
  <2>14. /\ Cardinality(D) \in Nat
         /\ IsFiniteSet(Numbered(D)) /\ Numbered(D) \in SUBSET PlannedRows
         /\ \A n \in Numbered(D) :
              /\ nextVersion <= n.vid /\ n.vid < nextVersion + Cardinality(D)
              /\ \E d \in D : n.item = d.item /\ n.base = d.base /\ n.live = d.live
         /\ \A m, n \in Numbered(D) : m.vid = n.vid => m.item = n.item
    BY <1>1, <2>13, NumberedFacts
  <2>15. ASSUME NEW r \in hits
         PROVE  r \in Rows /\ r.item \in tx[h].held /\ \E s \in rows : Same(s, r)
    <3>1. CASE r \in Withdrawn(u)
      <4>1. r \in rows /\ r.item \in tx[h].held
        BY <1>1, <1>2, <2>u, <3>1, UndoFacts
      <4> QED BY <1>1, <4>1 DEF TypeOK, Same
    <3>2. CASE r \notin Withdrawn(u)
      <4>1. r \in UNION {Hits(c, tx[h].seen) : c \in C}
        BY <2>4, <3>2
      <4>2. PICK c \in C : r \in Hits(c, tx[h].seen)
        BY <4>1
      <4> QED BY <1>1, <1>2, <2>10, <2>12, <4>2, HitsFacts
    <3> QED BY <3>1, <3>2
  <2>16. p \in Plans
    <3>1. {r.vid : r \in hits} \in SUBSET Nat
      BY <2>15 DEF Rows
    <3>2. nextEvent \in Nat
      BY <1>1 DEF TypeOK
    <3> QED BY <2>6, <2>14, <3>1, <3>2 DEF Plans
  <2>17. /\ x.pc = "store" /\ x.ask = a /\ x.pending = {} /\ x.held = tx[h].held
         /\ x.seen = {} /\ x.plan = p /\ x.reply = "none" /\ x.undo = tx[h].undo
         /\ p.event = nextEvent /\ p.closed = {r.vid : r \in hits} /\ p.added = Numbered(D)
    BY <2>u, <2>6, <2>7
  <2>18. x \in Txs
    <3>1. /\ tx[h].ask \in Asks \cup {NoAsk} /\ tx[h].held \in SUBSET Items
          /\ u \in [item: Items \cup {New}, locks: SUBSET Items, plan: Plans]
      BY <1>1, <2>u DEF Txs
    <3> QED BY <2>7, <2>16, <3>1 DEF Txs, Working, Locking, Replies
  <2>19. tx'[h] = x /\ (\A g \in Handlers \ {h} : tx'[g] = tx[g]) /\ tx' \in [Handlers -> Txs]
    BY <1>1, <2>8, <2>18, TxUpdate
  <2>20. /\ nextVersion \in Nat \ {0} /\ nextItem \in Nat \ {0} /\ nextEvent \in Nat \ {0}
    BY <1>1 DEF TypeOK
  <2>21. /\ nextVersion' \in Nat \ {0} /\ nextItem' \in Nat \ {0} /\ nextEvent' \in Nat \ {0}
         /\ nextVersion <= nextVersion' /\ nextItem <= nextItem'
    BY <2>8, <2>11, <2>14, <2>20
  <2>22. TypeOK'
    BY <1>1, <1>2, <1>3, <2>19, <2>21 DEF TypeOK
  <2>23. DecidedInv(h)
    BY <1>1, <1>2 DEF TxInv
  <2>24. ASSUME NEW n \in Numbered(D)
         PROVE  /\ n.item \in Nat
                /\ \/ n.item \in tx[h].held /\ Exists(n.item) /\ n.item < nextItem
                   \/ nextItem <= n.item /\ n.item < nextItem' /\ ~ Exists(n.item)
    <3>0. PICK d \in D : n.item = d.item
      BY <2>14
    <3>1. n.item \in Wanted(h) \/ \E e \in created : n.item = name[e]
      BY <2>10, <2>13, <3>0
    <3>2. n.item \in Nat
      BY <2>14, Numbers DEF PlannedRows
    <3>3. \A i \in Nat : Exists(i) => i < nextItem
      <4>0. Given \in Nat /\ Cards \subseteq 1 .. Given
        BY Numbers
      <4>1. /\ Given \in Nat /\ Given < nextItem /\ \A r \in rows : r.item < nextItem
            /\ \A i \in Cards : i \in Nat /\ i <= Given
        BY <1>1, <4>0 DEF RowsInv
      <4> QED BY <2>20, <4>1 DEF Exists
    <3>4. CASE n.item \in Wanted(h)
      BY <2>23, <3>2, <3>3, <3>4 DEF DecidedInv
    <3>5. CASE \E e \in created : n.item = name[e]
      <4>1. nextItem <= n.item /\ n.item <= nextItem + Cardinality(created) - 1
        BY <2>1, <3>5
      <4>2. n.item < nextItem'
        BY <2>8, <2>11, <2>20, <3>2, <4>1
      <4>3. ~ Exists(n.item)
        BY <2>20, <3>2, <3>3, <4>1
      <4> QED BY <3>2, <4>1, <4>2, <4>3
    <3> QED BY <3>1, <3>4, <3>5
  <2>25. \A i : Exists(i)' <=> Exists(i)
    BY <1>2 DEF Exists
  <2>26. PlanInv(h)'
    <3>1. \A v \in p.closed : \E r \in rows' : r.vid = v
      BY <1>2, <2>15, <2>17 DEF Same
    <3>2. ASSUME NEW r \in rows', r.vid \in p.closed PROVE r.item \in tx[h].held
      <4>1. PICK q \in hits : q.vid = r.vid
        BY <2>17, <3>2
      <4>2. PICK s \in rows : Same(s, q)
        BY <2>15
      <4>3. s.item = r.item
        BY <1>1, <1>2, <4>1, <4>2 DEF RowsInv, Same
      <4> QED BY <2>15, <4>2, <4>3 DEF Same
    <3>3. ASSUME NEW n \in Numbered(D)
          PROVE  /\ n.vid < nextVersion' /\ n.item < nextItem'
                 /\ \A r \in rows' : r.vid # n.vid
                 /\ n.live \/ n.base # None => \E r \in rows' : r.vid = n.base
                 /\ Exists(n.item)' => n.item \in tx[h].held
      <4>1. n.vid \in Nat /\ nextVersion <= n.vid /\ n.vid < nextVersion'
        BY <2>8, <2>14 DEF PlannedRows
      <4>2. n.item < nextItem'
        BY <2>20, <2>21, <2>24
      <4>3. \A r \in rows : r.vid \in Nat /\ r.vid < nextVersion
        BY <1>1 DEF RowsInv, TypeOK, Rows
      <4>4. \A r \in rows' : r.vid # n.vid
        BY <1>2, <2>20, <4>1, <4>3
      <4>d. PICK d \in D : n.base = d.base /\ n.live = d.live
        BY <2>14
      <4>5. n.live \/ n.base # None => \E r \in rows' : r.vid = n.base
        BY <1>2, <2>13, <4>d
      <4>6. Exists(n.item)' => n.item \in tx[h].held
        BY <2>24, <2>25
      <4> QED BY <4>1, <4>2, <4>4, <4>5, <4>6
    <3>4. p.event > 0
      BY <2>17, <2>20
    <3>5. tx'[h].plan = p /\ tx'[h].held = tx[h].held
      BY <2>17, <2>19
    <3> QED BY <2>14, <2>17, <3>1, <3>2, <3>3, <3>4, <3>5 DEF PlanInv
  <2>27. DecidedInv(h)'
    <3>1. Wanted(h)' \subseteq Wanted(h) /\ Named(h)' = Named(h)
      BY <2>17, <2>19 DEF Wanted, Named
    <3>2. \A e \in Named(h) : IsHead(e.expected, Current(e.item))'
      BY <1>2, <2>23 DEF DecidedInv, IsHead, Current
    <3> QED BY <2>17, <2>19, <2>23, <2>25, <3>1, <3>2 DEF DecidedInv
  <2>28. TxInv(h)'
    BY <1>1, <2>17, <2>19, <2>25, <2>26, <2>27, FS_EmptySet DEF TxInv, Locking
  <2>29. ASSUME NEW g \in Handlers \ {h} PROVE ApartInv(h, g)'
    <3>1. ApartInv(h, g) /\ TxInv(g) /\ tx'[g] = tx[g] /\ tx[g] \in Txs
      BY <1>1, <2>19 DEF IInv
    <3>2. tx'[h].held \cap tx'[g].held = {}
      BY <2>17, <2>19, <3>1 DEF ApartInv
    <3>3. ASSUME tx[g].pc = "store", NEW n \in Numbered(D), NEW e \in tx[g].plan.added
          PROVE  n.vid # e.vid /\ n.item # e.item
      <4>1. /\ e.vid < nextVersion /\ e.item < nextItem
            /\ Exists(e.item) => e.item \in tx[g].held
        BY <3>1, <3>3 DEF TxInv, PlanInv
      <4>2. e.vid \in Nat /\ e.item \in Nat /\ n.vid \in Nat
        BY <2>14, <3>1, <3>3, Numbers DEF Txs, Plans, PlannedRows
      <4>3. n.vid # e.vid
        BY <2>14, <2>20, <4>1, <4>2
      <4>4. n.item # e.item
        BY <2>20, <2>24, <3>1, <4>1, <4>2 DEF ApartInv
      <4> QED BY <4>3, <4>4
    <3> QED BY <2>17, <2>19, <3>1, <3>2, <3>3 DEF ApartInv
  <2> QED BY <1>2, <2>17, <2>19, <2>21, <2>22, <2>28, <2>29, QuietStep
<1> QED BY <1>2, <1>4, <1>5

-----------------------------------------------------------------------------
\* What a plan does to the table.
LEMMA AppliedFacts ==
  ASSUME TypeOK, NEW p \in Plans,
         \A d \in p.added : d.live \/ d.base # None => \E r \in rows : r.vid = d.base
  PROVE  /\ Applied(p, rows) \in SUBSET Rows
         /\ \A r \in rows : \E s \in Applied(p, rows) : Same(r, s)
         /\ \A s \in Applied(p, rows) :
              \/ s \in rows \ Closing(p, rows)
              \/ \E r \in Closing(p, rows) : Same(r, s) /\ ~ IsCurrent(s)
              \/ \E d \in p.added : s.vid = d.vid /\ s.item = d.item
         /\ rows \ Closing(p, rows) \subseteq Applied(p, rows)
         /\ IsFiniteSet(rows) /\ IsFiniteSet(p.added) => IsFiniteSet(Applied(p, rows))
<1> DEFINE ended == [r \in Closing(p, rows) |-> [r EXCEPT !.sup = p.at]]
           new == [d \in p.added |-> Written(d, p.at, rows)]
<1>1. Applied(p, rows) = (rows \ Closing(p, rows)) \cup {ended[r] : r \in Closing(p, rows)}
                         \cup {new[d] : d \in p.added}
  BY DEF Applied
<1>2. rows \in SUBSET Rows /\ Closing(p, rows) \in SUBSET rows
  BY DEF TypeOK, Closing
<1>3. p.at \in Instants /\ p.at \in Ends /\ p.at # Forever /\ p.added \in SUBSET PlannedRows
  BY Numbers DEF Plans, Instants, Ends
<1>4. ASSUME NEW r \in Closing(p, rows)
      PROVE  ended[r] \in Rows /\ Same(r, ended[r]) /\ ~ IsCurrent(ended[r])
  <2>1. r \in Rows /\ ended[r] = [r EXCEPT !.sup = p.at]
    BY <1>2
  <2> HIDE DEF ended
  <2> QED BY <1>3, <2>1 DEF Rows, Same, IsCurrent
<1>5. ASSUME NEW d \in p.added
      PROVE  new[d] \in Rows /\ new[d].vid = d.vid /\ new[d].item = d.item
  <2>1. PICK base : base = CHOOSE r \in rows : r.vid = d.base
    OBVIOUS
  <2>2. d.live \/ d.base # None => base \in Rows
    BY <1>2, <2>1
  <2>3. PICK body : body = IF d.base = None THEN d.vid ELSE base.body
    OBVIOUS
  <2>4. PICK access : access = IF d.live THEN base.access ELSE d.access
    OBVIOUS
  <2>5. d \in PlannedRows
    BY <1>3
  <2>6. /\ d.vid \in Nat \ {0} /\ d.item \in Items /\ d.from \in Instants /\ d.to \in Ends
        /\ d.base \in Nat /\ d.live \in BOOLEAN /\ d.access \in Nat
    BY <2>5 DEF PlannedRows
  <2>7. body \in Nat \ {0} /\ access \in Nat
    BY <2>2, <2>3, <2>4, <2>6 DEF Rows
  <2>8. new[d] = [vid |-> d.vid, item |-> d.item, from |-> d.from, to |-> d.to,
                  rec |-> p.at, sup |-> Forever, base |-> d.base, body |-> body,
                  access |-> access]
    BY <2>1, <2>3, <2>4 DEF Written
  <2>9. Forever \in Ends
    BY Numbers DEF Ends
  <2> HIDE DEF new
  <2> QED BY <1>3, <2>6, <2>7, <2>8, <2>9 DEF Rows
<1>6. IsFiniteSet(rows) /\ IsFiniteSet(p.added) => IsFiniteSet(Applied(p, rows))
  <2> SUFFICES ASSUME IsFiniteSet(rows), IsFiniteSet(p.added)
               PROVE  IsFiniteSet(Applied(p, rows))
    OBVIOUS
  <2> HIDE DEF ended, new
  <2>1. IsFiniteSet(Closing(p, rows)) /\ IsFiniteSet(rows \ Closing(p, rows))
    BY <1>2, FS_Subset
  <2>2. IsFiniteSet({ended[r] : r \in Closing(p, rows)}) /\ IsFiniteSet({new[d] : d \in p.added})
    BY <2>1, ImageFinite
  <2>3. IsFiniteSet((rows \ Closing(p, rows)) \cup {ended[r] : r \in Closing(p, rows)})
    BY <2>1, <2>2, FS_Union
  <2>4. IsFiniteSet(((rows \ Closing(p, rows)) \cup {ended[r] : r \in Closing(p, rows)})
                    \cup {new[d] : d \in p.added})
    BY <2>2, <2>3, FS_Union
  <2> QED BY <1>1, <2>4
<1> HIDE DEF ended, new
<1>7. \A r \in rows : \E s \in Applied(p, rows) : Same(r, s)
  <2> SUFFICES ASSUME NEW r \in rows PROVE \E s \in Applied(p, rows) : Same(r, s)
    OBVIOUS
  <2>1. CASE r \in Closing(p, rows)
    BY <1>1, <1>4, <2>1
  <2>2. CASE r \notin Closing(p, rows)
    BY <1>1, <2>2 DEF Same
  <2> QED BY <2>1, <2>2
<1>8. ASSUME NEW s \in Applied(p, rows)
      PROVE  \/ s \in rows \ Closing(p, rows)
             \/ \E r \in Closing(p, rows) : Same(r, s) /\ ~ IsCurrent(s)
             \/ \E d \in p.added : s.vid = d.vid /\ s.item = d.item
  <2>1. \/ s \in rows \ Closing(p, rows)
        \/ \E r \in Closing(p, rows) : s = ended[r]
        \/ \E d \in p.added : s = new[d]
    BY <1>1
  <2> QED BY <1>4, <1>5, <2>1
<1>9. Applied(p, rows) \in SUBSET Rows
  BY <1>1, <1>2, <1>4, <1>5
<1> QED BY <1>1, <1>6, <1>7, <1>8, <1>9

\* The commit: the other handlers keep what they hold, because what it changes
\* is locked, or new.
LEMMA StoreStep ==
  ASSUME IInv, NEW h \in Handlers, Store(h)
  PROVE  IInv'
<1> DEFINE a == tx[h].ask
<1>1. /\ TypeOK /\ tx \in [Handlers -> Txs] /\ tx[h] \in Txs /\ TxInv(h) /\ RowsInv
      /\ AnswersAreTrue
  BY DEF IInv, TypeOK
<1>2. PICK p : p = tx[h].plan
  OBVIOUS
<1>3. /\ tx[h].pc = "store" /\ UNCHANGED <<clock, sequences, reader, setBacks>>
      /\ \/ /\ Outcome(a, p) # "done" /\ Reply(h, Outcome(a, p), 0)
            /\ UNCHANGED <<rows, events>>
         \/ /\ Outcome(a, p) = "done" /\ Reply(h, "done", p.event)
            /\ rows' = Applied(p, rows)
            /\ events' = events \cup
                 {[id |-> p.event, kind |-> Kind(a),
                   ask |-> a, plan |-> p, touched |-> {}]}
  BY <1>2 DEF Store
<1>4. CASE Outcome(a, p) # "done" /\ Reply(h, Outcome(a, p), 0) /\ UNCHANGED <<rows, events>>
  <2>1. Outcome(a, p) \in Replies \ {"done", "replayed"}
    BY <1>4 DEF Outcome, Replies
  <2>2. clock' \in Nat
    BY <1>1, <1>3 DEF TypeOK
  <2> QED BY <1>3, <1>4, <2>1, <2>2, RefusedStep
<1>5. CASE /\ Outcome(a, p) = "done" /\ Reply(h, "done", p.event)
           /\ rows' = Applied(p, rows)
           /\ events' = events \cup
                {[id |-> p.event, kind |-> Kind(a),
                  ask |-> a, plan |-> p, touched |-> {}]}
  <2>1. /\ p \in Plans /\ p.event \in Nat \ {0} /\ IsFiniteSet(p.added)
        /\ \A r \in rows : r.vid \in p.closed => r.item \in tx[h].held
        /\ \A d \in p.added :
             /\ d.vid < nextVersion /\ d.item < nextItem
             /\ \A r \in rows : r.vid # d.vid
             /\ d.live \/ d.base # None => \E r \in rows : r.vid = d.base
             /\ Exists(d.item) => d.item \in tx[h].held
        /\ \A d, e \in p.added : d.vid = e.vid => d.item = e.item
    <3>1. PlanInv(h) /\ p \in Plans
      BY <1>1, <1>2, <1>3 DEF TxInv, Txs
    <3>2. p.event \in Nat
      BY <3>1 DEF Plans
    <3> QED BY <1>2, <3>1, <3>2 DEF PlanInv
  <2>2. /\ rows' \in SUBSET Rows /\ IsFiniteSet(rows')
        /\ \A r \in rows : \E s \in rows' : Same(r, s)
        /\ \A s \in rows' :
             \/ s \in rows \ Closing(p, rows)
             \/ \E r \in Closing(p, rows) : Same(r, s) /\ ~ IsCurrent(s)
             \/ \E d \in p.added : s.vid = d.vid /\ s.item = d.item
        /\ rows \ Closing(p, rows) \subseteq rows'
    <3>1. IsFiniteSet(rows)
      BY <1>1 DEF RowsInv
    <3> QED BY <1>1, <1>5, <2>1, <3>1, AppliedFacts
  <2>3. /\ tx' \in [Handlers -> Txs] /\ tx'[h] = Ended(h, "done", p.event)
        /\ \A g \in Handlers \ {h} : tx'[g] = tx[g]
        /\ TxInv(h)' /\ \A g \in Handlers \ {h} : ApartInv(h, g)'
    <3>1. "done" \in Replies
      BY DEF Replies
    <3> QED BY <1>1, <1>5, <2>1, <3>1, EndedFacts
  <2>4. PICK v : v = [id |-> p.event, kind |-> Kind(a),
                      ask |-> a, plan |-> p, touched |-> {}]
    OBVIOUS
  <2>5. events' = events \cup {v} /\ v.id = p.event /\ v.ask = a /\ v \in Events
    <3>1. a \in Asks \cup {NoAsk}
      BY <1>1 DEF Txs
    <3>2. v \in Events
      BY <2>1, <2>4, <3>1 DEF Events, Kind
    <3>3. events' = events \cup {v}
      BY <1>5, <2>4
    <3> QED BY <2>4, <3>2, <3>3
  <2>6. TypeOK'
    BY <1>1, <1>3, <2>2, <2>3, <2>5 DEF TypeOK, sequences
  <2>7. \A s \in rows' : \/ \E r \in rows : Same(r, s)
                         \/ \E d \in p.added : s.vid = d.vid /\ s.item = d.item
    BY <2>2 DEF Same, Closing
  <2>8. RowsInv'
    <3>1. \A s \in rows' : s.vid < nextVersion' /\ s.item < nextItem'
      BY <1>1, <1>3, <2>1, <2>7 DEF RowsInv, Same, sequences
    <3>2. ASSUME NEW r \in rows', NEW s \in rows', r.vid = s.vid PROVE r.item = s.item
      BY <1>1, <2>1, <2>7, <3>2 DEF RowsInv, Same
    <3>3. Given < nextItem'
      BY <1>1, <1>3 DEF RowsInv, sequences
    <3> QED BY <2>2, <3>1, <3>2, <3>3 DEF RowsInv
  <2>9. Grows
    BY <1>1, <1>3, <2>2 DEF Grows, sequences, TypeOK
  <2>10. ASSUME NEW g \in Handlers \ {h} PROVE TxInv(g)'
    <3>1. TxInv(g) /\ tx'[g] = tx[g] /\ tx[g] \in Txs /\ ApartInv(h, g)
      BY <1>1, <2>3 DEF IInv
    <3>2. ASSUME NEW s \in rows', tx[g].pc = "store",
                 NEW d \in p.added, s.vid = d.vid, s.item = d.item
          PROVE  /\ s.vid \notin tx[g].plan.closed
                 /\ \A e \in tx[g].plan.added : s.vid # e.vid /\ s.item # e.item
      <4>1. \A w \in tx[g].plan.closed : \E r \in rows : r.vid = w
        BY <3>1, <3>2 DEF TxInv, PlanInv
      <4>2. \A e \in tx[g].plan.added : d.vid # e.vid /\ d.item # e.item
        BY <1>2, <1>3, <3>1, <3>2 DEF ApartInv
      <4> QED BY <2>1, <3>2, <4>1, <4>2
    <3>3. \A s \in rows' :
            \/ \E r \in rows : Same(r, s)
            \/ tx[g].pc = "store" =>
                 /\ s.vid \notin tx[g].plan.closed
                 /\ \A e \in tx[g].plan.added : s.vid # e.vid /\ s.item # e.item
      BY <2>7, <3>2
    <3>4. ASSUME tx[g].pc \in {"build", "store"}, NEW e \in Named(g)
          PROVE  Current(e.item)' = Current(e.item)
      <4>1. DecidedInv(g)
        BY <3>1, <3>4 DEF TxInv
      <4>2. e.item \in Items
        <5>1. tx[g].ask \in Asks \cup {NoAsk}
          BY <3>1 DEF Txs
        <5>2. tx[g].ask.edits \in SUBSET Edits /\ tx[g].ask.closes \in SUBSET Closes
          BY <5>1, AskParts
        <5>3. (e \in Edits \/ e \in Closes) /\ e.item # New
          BY <5>2 DEF Named
        <5> QED BY <5>3 DEF Edits, Closes
      <4>3. e.item \in Wanted(g)
        BY <4>2 DEF Named, Wanted
      <4>4. Exists(e.item) /\ e.item \in tx[g].held
        BY <4>1, <4>3 DEF DecidedInv
      <4>5. e.item \notin tx[h].held
        BY <3>1, <4>4 DEF ApartInv
      <4>6. ASSUME NEW s \in Current(e.item)' PROVE s \in Current(e.item)
        <5>1. s \in rows' /\ s.item = e.item /\ IsCurrent(s)
          BY DEF Current, IsCurrent
        <5>2. s \in rows
          BY <2>1, <2>2, <4>4, <4>5, <5>1
        <5> QED BY <5>1, <5>2 DEF Current
      <4>7. ASSUME NEW r \in Current(e.item) PROVE r \in Current(e.item)'
        <5>1. r \in rows /\ r.item = e.item /\ IsCurrent(r)
          BY DEF Current
        <5>2. r \notin Closing(p, rows)
          BY <2>1, <4>5, <5>1 DEF Closing
        <5>3. r \in rows'
          BY <2>2, <5>1, <5>2
        <5> QED BY <5>1, <5>3 DEF Current, IsCurrent
      <4> QED BY <4>6, <4>7
    <3>5. tx[g].pc \in {"build", "store"} =>
            \A e \in Named(g) : IsHead(e.expected, Current(e.item))
                                => IsHead(e.expected, Current(e.item))'
      BY <3>4 DEF IsHead
    <3> QED BY <1>1, <2>6, <2>9, <3>1, <3>3, <3>5, Stays
  <2>11. ASSUME NEW g \in Handlers, NEW k \in Handlers, g # k PROVE ApartInv(g, k)'
    <3>1. CASE g = h
      BY <2>3, <2>11, <3>1
    <3>2. CASE k = h
      <4>1. ApartInv(k, g)'
        BY <2>3, <2>11, <3>2
      <4> QED BY <4>1 DEF ApartInv
    <3>3. CASE g # h /\ k # h
      <4>1. ApartInv(g, k) /\ tx'[g] = tx[g] /\ tx'[k] = tx[k]
        BY <2>3, <2>11, <3>3 DEF IInv
      <4> QED BY <4>1 DEF ApartInv
    <3> QED BY <3>1, <3>2, <3>3
  <2>12. AnswersAreTrue'
    <3>1. Prior(a) = {}
      BY <1>5 DEF Outcome
    <3>2. \A w \in events : w.kind # "access" => w.ask.key # a.key
      BY <3>1 DEF Prior
    <3>3. \A u, w \in events' : u.kind # "access" /\ w.kind # "access" /\ u.ask.key = w.ask.key
                                => u = w
      BY <1>1, <2>5, <3>2 DEF AnswersAreTrue
    <3>4. ASSUME NEW g \in Handlers, tx'[g].reply \in {"done", "replayed"}
          PROVE  \E w \in events' : w.id = tx'[g].answer /\ w.ask = tx'[g].ask
      <4>1. CASE g = h
        <5>1. tx'[g].answer = p.event /\ tx'[g].ask = a
          BY <2>3, <4>1 DEF Ended
        <5> QED BY <2>5, <5>1
      <4>2. CASE g # h
        BY <1>1, <2>3, <2>5, <3>4, <4>2 DEF AnswersAreTrue
      <4> QED BY <4>1, <4>2
    <3> QED BY <3>3, <3>4 DEF AnswersAreTrue
  <2> QED BY <2>3, <2>6, <2>8, <2>10, <2>11, <2>12 DEF IInv
<1> QED BY <1>3, <1>4, <1>5

-----------------------------------------------------------------------------
\* The steps of nobody's transaction.

\* The versions may be touched, events of readers may be added.
LEMMA NoneMoves ==
  ASSUME IInv, TypeOK', tx' = tx, IsFiniteSet(rows'),
         nextVersion' = nextVersion, nextItem' = nextItem,
         \A r \in rows : \E s \in rows' : Same(r, s) /\ (IsCurrent(r) <=> IsCurrent(s)),
         \A s \in rows' : \E r \in rows : Same(r, s) /\ (IsCurrent(r) <=> IsCurrent(s)),
         events \subseteq events', \A v \in events' \ events : v.kind = "access"
  PROVE  IInv'
<1>1. TypeOK /\ RowsInv /\ AnswersAreTrue
  BY DEF IInv
<1>2. RowsInv'
  <2>1. \A s \in rows' : s.vid < nextVersion' /\ s.item < nextItem'
    BY <1>1 DEF RowsInv, Same
  <2>2. ASSUME NEW r \in rows', NEW s \in rows', r.vid = s.vid PROVE r.item = s.item
    BY <1>1, <2>2 DEF RowsInv, Same
  <2> QED BY <1>1, <2>1, <2>2 DEF RowsInv
<1>3. ASSUME NEW h \in Handlers PROVE TxInv(h)'
  <2>1. TxInv(h) /\ tx'[h] = tx[h]
    BY DEF IInv
  <2>2. Grows
    BY <1>1 DEF Grows, TypeOK
  <2>3. \A s \in rows' : \E r \in rows : Same(r, s)
    OBVIOUS
  <2>4. ASSUME NEW e, IsHead(e.expected, Current(e.item))
        PROVE  IsHead(e.expected, Current(e.item))'
    <3>1. {r.vid : r \in Current(e.item)'} = {r.vid : r \in Current(e.item)}
      <4>1. ASSUME NEW r \in Current(e.item) PROVE \E s \in Current(e.item)' : s.vid = r.vid
        BY DEF Current, Same, IsCurrent
      <4>2. ASSUME NEW s \in Current(e.item)' PROVE \E r \in Current(e.item) : s.vid = r.vid
        BY DEF Current, Same, IsCurrent
      <4> QED BY <4>1, <4>2
    <3> QED BY <2>4, <3>1 DEF IsHead
  <2> QED BY <1>1, <2>1, <2>2, <2>3, <2>4, Stays
<1>4. ASSUME NEW g \in Handlers, NEW k \in Handlers, g # k PROVE ApartInv(g, k)'
  <2>1. ApartInv(g, k)
    BY <1>4 DEF IInv
  <2> QED BY <2>1 DEF ApartInv
<1>5. AnswersAreTrue'
  BY <1>1 DEF AnswersAreTrue
<1> QED BY <1>2, <1>3, <1>4, <1>5 DEF IInv

\* A read takes an event id and a clock reading of its own, and changes no
\* row.
LEMMA OpenReadStep ==
  ASSUME IInv, NEW r \in rows, OpenRead(r)
  PROVE  IInv'
<1>1. TypeOK /\ IsFiniteSet(rows)
  BY DEF IInv, RowsInv
<1>2. /\ clock + 1 < Forever /\ clock' = clock + 1
      /\ reader' = reader \cup {[id |-> nextEvent, at |-> clock + 1, vid |-> r.vid]}
      /\ nextEvent' = nextEvent + 1
      /\ UNCHANGED <<rows, events, nextVersion, nextItem, tx, setBacks>>
  BY DEF OpenRead
<1>3. r.vid \in Nat /\ clock + 1 \in Instants /\ clock + 1 \in Nat
      /\ nextEvent \in Nat \ {0} /\ nextEvent + 1 \in Nat \ {0}
  BY <1>1, <1>2, Numbers DEF TypeOK, Rows, Instants
<1>4. reader' \in SUBSET [id: Nat \ {0}, at: Instants, vid: Nat]
  BY <1>1, <1>2, <1>3 DEF TypeOK
<1>5. TypeOK'
  BY <1>1, <1>2, <1>3, <1>4 DEF TypeOK
<1> QED BY <1>1, <1>2, <1>5, NoneMoves DEF Same

\* A touch changes neither the id nor the item of a version, nor its end.
LEMMA TouchedFacts ==
  ASSUME NEW R \in SUBSET Rows, NEW vids, NEW t \in Nat
  PROVE  /\ Touched(R, vids, t) \in SUBSET Rows
         /\ \A r \in R : \E s \in Touched(R, vids, t) :
              Same(r, s) /\ (IsCurrent(r) <=> IsCurrent(s))
         /\ \A s \in Touched(R, vids, t) : \E r \in R :
              Same(r, s) /\ (IsCurrent(r) <=> IsCurrent(s))
         /\ IsFiniteSet(R) => IsFiniteSet(Touched(R, vids, t))
<1> DEFINE f == [r \in R |-> IF r.vid \in vids /\ r.access < t THEN [r EXCEPT !.access = t] ELSE r]
<1>1. Touched(R, vids, t) = {f[r] : r \in R}
  BY DEF Touched
<1>2. ASSUME NEW r \in R
      PROVE  f[r] \in Rows /\ Same(r, f[r]) /\ (IsCurrent(r) <=> IsCurrent(f[r]))
  <2>1. r \in Rows /\ f[r] \in {r, [r EXCEPT !.access = t]}
    OBVIOUS
  <2> HIDE DEF f
  <2> QED BY <2>1 DEF Rows, Same, IsCurrent
<1> HIDE DEF f
<1>3. IsFiniteSet(R) => IsFiniteSet(Touched(R, vids, t))
  BY <1>1, ImageFinite
<1> QED BY <1>1, <1>2, <1>3

\* A reader's touch changes access times only.
LEMMA CloseReadStep ==
  ASSUME IInv, NEW x \in reader, CloseRead(x)
  PROVE  IInv'
<1>1. TypeOK /\ IsFiniteSet(rows)
  BY DEF IInv, RowsInv
<1>2. PICK v : v = [id |-> x.id, kind |-> "access", ask |-> NoAsk,
                    plan |-> [event |-> x.id, at |-> x.at, closed |-> {}, added |-> {}],
                    touched |-> {x.vid}]
  OBVIOUS
<1>3. /\ rows' = Touched(rows, {x.vid}, x.at) /\ events' = events \cup {v}
      /\ reader' = reader \ {x}
      /\ UNCHANGED <<clock, sequences, tx, setBacks>>
  BY <1>2 DEF CloseRead
<1>4. x.id \in Nat \ {0} /\ x.at \in Instants /\ x.at \in Nat /\ x.vid \in Nat
  BY <1>1, Numbers DEF TypeOK
<1>5. [event |-> x.id, at |-> x.at, closed |-> {}, added |-> {}] \in Plans
  BY <1>4 DEF Plans
<1>6. v \in Events /\ v.kind = "access"
  BY <1>2, <1>4, <1>5 DEF Events
<1>7. /\ rows' \in SUBSET Rows /\ IsFiniteSet(rows')
      /\ \A r \in rows : \E s \in rows' : Same(r, s) /\ (IsCurrent(r) <=> IsCurrent(s))
      /\ \A s \in rows' : \E r \in rows : Same(r, s) /\ (IsCurrent(r) <=> IsCurrent(s))
  <2>1. rows \in SUBSET Rows
    BY <1>1 DEF TypeOK
  <2> QED BY <1>1, <1>3, <1>4, <2>1, TouchedFacts
<1>8. TypeOK'
  BY <1>1, <1>3, <1>6, <1>7 DEF TypeOK, sequences
<1> QED BY <1>3, <1>6, <1>7, <1>8, NoneMoves DEF sequences

\* The clock's step back changes no row.
LEMMA StepBackStep ==
  ASSUME IInv, StepBack
  PROVE  IInv'
<1>1. TypeOK /\ IsFiniteSet(rows)
  BY DEF IInv, RowsInv
<1>2. /\ setBacks < StepBacks /\ clock' \in 0 .. clock - 1 /\ setBacks' = setBacks + 1
      /\ UNCHANGED <<rows, events, sequences, tx, reader>>
  BY DEF StepBack
<1>3. TypeOK'
  BY <1>1, <1>2, BitemporalAssumption DEF TypeOK, sequences
<1> QED BY <1>1, <1>2, <1>3, NoneMoves DEF Same, sequences

\* A step that changes nothing keeps the invariant.
LEMMA StutterStep ==
  ASSUME IInv, UNCHANGED vars
  PROVE  IInv'
<1>1. TypeOK /\ IsFiniteSet(rows)
  BY DEF IInv, RowsInv
<1>2. TypeOK'
  BY <1>1 DEF TypeOK, vars
<1> QED BY <1>1, <1>2, NoneMoves DEF Same, vars

-----------------------------------------------------------------------------
\* The invariant holds of the store as it was given.
LEMMA InitIInv ==
  ASSUME Init
  PROVE  IInv
<1> DEFINE first == [i \in Stored |-> [vid |-> i, item |-> i, from |-> 0, to |-> Forever,
                       rec |-> 0, sup |-> Forever, base |-> None, body |-> i, access |-> 0]]
<1>1. rows = {first[i] : i \in Stored}
  BY DEF Init
<1>2. Given \in Nat /\ Given <= MaxItem /\ MaxItem \in Nat /\ Stored \subseteq 1 .. Given
  BY Numbers, BitemporalAssumption
<1>3. ASSUME NEW i \in Stored
      PROVE  first[i] \in Rows /\ first[i].vid = i /\ first[i].item = i
             /\ i \in Nat /\ i < Given + 1
  <2>1. i \in Nat \ {0} /\ i \in Items /\ i < Given + 1
    BY <1>2 DEF Items
  <2>2. 0 \in Instants /\ Forever \in Ends
    BY Numbers DEF Ends
  <2>3. first[i] = [vid |-> i, item |-> i, from |-> 0, to |-> Forever,
                    rec |-> 0, sup |-> Forever, base |-> None, body |-> i, access |-> 0]
    OBVIOUS
  <2> HIDE DEF first
  <2> QED BY <2>1, <2>2, <2>3 DEF Rows, None
<1>4. IsFiniteSet(rows)
  <2>1. IsFiniteSet(1 .. Given)
    BY <1>2, FS_Interval
  <2>2. IsFiniteSet(Stored)
    BY <1>2, <2>1, FS_Subset
  <2> HIDE DEF first
  <2> QED BY <1>1, <2>2, ImageFinite
<1> HIDE DEF first
<1>5. RowsInv
  BY <1>1, <1>2, <1>3, <1>4 DEF Init, RowsInv
<1>6. \A h \in Handlers : tx[h] = NoTx
  BY DEF Init
<1>7. TypeOK
  <2>1. NoTx \in Txs
    BY NothingPlanned DEF NoTx, Txs, Working, Locking, Replies
  <2>2. tx \in [Handlers -> Txs]
    BY <2>1 DEF Init
  <2>3. rows \in SUBSET Rows
    BY <1>1, <1>3
  <2>4. Given + 1 \in Nat \ {0} /\ StepBacks \in Nat
    BY <1>2, BitemporalAssumption
  <2> QED BY <2>2, <2>3, <2>4 DEF Init, TypeOK
<1>8. ASSUME NEW h \in Handlers PROVE TxInv(h)
  BY <1>6, FS_EmptySet, NothingPlanned DEF TxInv, NoTx, Locking
<1>9. ASSUME NEW g \in Handlers, NEW h \in Handlers PROVE ApartInv(g, h)
  BY <1>6 DEF ApartInv, NoTx
<1>10. AnswersAreTrue
  BY <1>6 DEF Init, AnswersAreTrue, NoTx
<1> QED BY <1>5, <1>7, <1>8, <1>9, <1>10 DEF IInv

\* Every action, and a step that changes nothing, keeps the invariant.
LEMMA NextIInv ==
  ASSUME IInv, [Next]_vars
  PROVE  IInv'
<1>1. ASSUME NEW h \in Handlers, NEW a \in Asks, Begin(h, a) PROVE IInv'
  BY <1>1, BeginStep
<1>2. ASSUME NEW h \in Handlers, LockRequest(h) PROVE IInv'
  BY <1>2, LockRequestStep
<1>3. ASSUME NEW h \in Handlers, NEW i \in Items, LockItem(h, i) PROVE IInv'
  BY <1>3, LockItemStep
<1>4. ASSUME NEW h \in Handlers, Decide(h) PROVE IInv'
  BY <1>4, DecideStep
<1>5. ASSUME NEW h \in Handlers, Build(h) PROVE IInv'
  BY <1>5, BuildStep
<1>6. ASSUME NEW h \in Handlers, Store(h) PROVE IInv'
  BY <1>6, StoreStep
<1>7. ASSUME NEW h \in Handlers, Rollback(h) PROVE IInv'
  BY <1>7, RollbackStep
<1>8. ASSUME NEW r \in rows, OpenRead(r) PROVE IInv'
  BY <1>8, OpenReadStep
<1>9. ASSUME NEW x \in reader, CloseRead(x) PROVE IInv'
  BY <1>9, CloseReadStep
<1>10. CASE StepBack
  BY <1>10, StepBackStep
<1>11. CASE UNCHANGED vars
  BY <1>11, StutterStep
<1>12. ASSUME NEW h \in Handlers, NEW a \in Asks, BeginReversal(h, a) PROVE IInv'
  BY <1>12, BeginReversalStep
<1> QED BY <1>1, <1>2, <1>3, <1>4, <1>5, <1>6, <1>7, <1>8, <1>9, <1>10, <1>11, <1>12 DEF Next

(* The locks, the sequences and the plans of open transactions fit the     *)
(* table after every step, for any number of handlers, items and asks and  *)
(* any rollback (write_service.py:771-1242).                               *)
THEOREM Invariance == Spec => []IInv
<1>1. Init => IInv
  BY InitIInv
<1>2. IInv /\ [Next]_vars => IInv'
  BY NextIInv
<1> QED BY <1>1, <1>2, PTL DEF Spec

(* Every variable keeps its type: no plan or row holds an instant, an item *)
(* or an id outside its domain (write_service.py:771-1242).                *)
THEOREM TypeCorrect == Spec => []TypeOK
<1>1. IInv => TypeOK
  BY DEF IInv
<1> QED BY <1>1, Invariance, PTL

(* A request key names one event, and the answer to a first call or to a   *)
(* retry is of the event that did what was asked                           *)
(* (write_service.py:812-833).                                             *)
THEOREM AnswersRight == Spec => []AnswersAreTrue
<1>1. IInv => AnswersAreTrue
  BY DEF IInv
<1> QED BY <1>1, Invariance, PTL

\* Only a commit answers "done".
LEMMA CommitStores ==
  ASSUME IInv, [Next]_vars, NEW h \in Handlers, Commits(h)
  PROVE  Store(h)
<1>1. TypeOK /\ tx \in [Handlers -> Txs] /\ TxInv(h)
  BY DEF IInv, TypeOK
<1>2. tx[h].reply # "done" /\ tx'[h].reply = "done"
  BY DEF Commits
<1>3. ASSUME NEW g \in Handlers, NEW what, NEW n, Reply(g, what, n)
      PROVE  h = g /\ what = "done"
  BY <1>1, <1>2, <1>3 DEF Reply, Ended
<1>4. ASSUME NEW g \in Handlers, NEW x, tx' = [tx EXCEPT ![g] = x], x.reply # "done"
      PROVE  FALSE
  BY <1>1, <1>2, <1>4
<1>5. ASSUME NEW g \in Handlers, NEW a \in Asks, Begin(g, a) PROVE FALSE
  <2> DEFINE x == [pc |-> IF ~ Known(a) THEN "done" ELSE IF IsWrite(a) THEN "key" ELSE "locks",
                   ask |-> a,
                   pending |-> IF Known(a) THEN {u \in a.updates : Current(u.item) # {}} ELSE {},
                   undo |-> NoUndo, held |-> {}, seen |-> {}, plan |-> NoPlan,
                   reply |-> IF Known(a) THEN "none" ELSE "notFound", answer |-> 0]
  <2>1. tx' = [tx EXCEPT ![g] = x]
    BY <1>5 DEF Begin
  <2>2. x.reply # "done"
    OBVIOUS
  <2> HIDE DEF x
  <2> QED BY <1>4, <2>1, <2>2
<1>6. ASSUME NEW g \in Handlers, LockRequest(g) PROVE FALSE
  BY <1>1, <1>2, <1>6 DEF LockRequest, Txs
<1>7. ASSUME NEW g \in Handlers, NEW i \in Items, LockItem(g, i) PROVE FALSE
  BY <1>1, <1>2, <1>7 DEF LockItem, Txs
<1>8. ASSUME NEW g \in Handlers, Decide(g) PROVE FALSE
  <2> DEFINE x(kept) ==
        [pc |-> "build", ask |-> tx[g].ask, pending |-> kept,
         undo |-> tx[g].undo, held |-> tx[g].held,
         seen |-> {r \in rows : IsCurrent(r) /\ \E e \in tx[g].ask.edits : r.item = e.item},
         plan |-> NoPlan, reply |-> "none", answer |-> 0]
  <2>0. \/ \E v \in Prior(tx[g].ask) : Reply(g, "replayed", v.id)
        \/ Verdict(tx[g].ask) # "ok" /\ Reply(g, Verdict(tx[g].ask), 0)
        \/ \E kept : tx' = [tx EXCEPT ![g] = x(kept)]
    BY <1>8 DEF Decide
  <2>a. \A kept : x(kept).reply = "none"
    OBVIOUS
  <2> HIDE DEF x
  <2>1. \/ \E v \in Prior(tx[g].ask) : Reply(g, "replayed", v.id)
        \/ Verdict(tx[g].ask) # "ok" /\ Reply(g, Verdict(tx[g].ask), 0)
        \/ \E y : tx' = [tx EXCEPT ![g] = y] /\ y.reply = "none"
    BY <2>0, <2>a
  <2>2. Verdict(tx[g].ask) # "done"
    BY VerdictFacts
  <2> QED BY <1>3, <1>4, <2>1, <2>2
<1>9. ASSUME NEW g \in Handlers, Build(g) PROVE FALSE
  <2> DEFINE x(plan) == [pc |-> "store", ask |-> tx[g].ask, pending |-> {},
                         undo |-> tx[g].undo, held |-> tx[g].held, seen |-> {}, plan |-> plan, reply |-> "none", answer |-> 0]
  <2>0. \/ Reply(g, "temporal", 0) \/ Reply(g, "authorityLost", 0)
        \/ Reply(g, "versionConflict", 0)
        \/ \E plan : tx' = [tx EXCEPT ![g] = x(plan)]
    BY <1>9 DEF Build, Planned
  <2>a. \A plan : x(plan).reply = "none"
    OBVIOUS
  <2> HIDE DEF x
  <2>1. \/ Reply(g, "temporal", 0) \/ Reply(g, "authorityLost", 0)
        \/ Reply(g, "versionConflict", 0)
        \/ \E y : tx' = [tx EXCEPT ![g] = y] /\ y.reply = "none"
    BY <2>0, <2>a
  <2> QED BY <1>3, <1>4, <2>1
<1>10. ASSUME NEW g \in Handlers, Store(g) PROVE Store(h)
  <2>1. \E what, n : Reply(g, what, n)
    BY <1>10 DEF Store
  <2> QED BY <1>3, <1>10, <2>1
<1>11. ASSUME NEW g \in Handlers, Rollback(g) PROVE FALSE
  BY <1>3, <1>11 DEF Rollback
<1>12. ASSUME tx' = tx PROVE FALSE
  BY <1>2, <1>12
<1>13. ASSUME NEW r \in rows, OpenRead(r) PROVE FALSE
  BY <1>12, <1>13 DEF OpenRead
<1>14. ASSUME NEW x \in reader, CloseRead(x) PROVE FALSE
  BY <1>12, <1>14 DEF CloseRead
<1>15. CASE StepBack
  BY <1>12, <1>15 DEF StepBack
<1>16. CASE UNCHANGED vars
  BY <1>12, <1>16 DEF vars
<1>17. ASSUME NEW g \in Handlers, NEW a \in Asks, BeginReversal(g, a) PROVE FALSE
  <2> DEFINE x(pc, undo, reply) ==
               [pc |-> pc, ask |-> a, pending |-> {}, undo |-> undo, held |-> {},
                seen |-> {}, plan |-> NoPlan, reply |-> reply, answer |-> 0]
  <2>1. \/ tx' = [tx EXCEPT ![g] = x("done", NoUndo, "notFound")]
        \/ tx' = [tx EXCEPT ![g] = x("done", NoUndo, "versionConflict")]
        \/ \E undo : tx' = [tx EXCEPT ![g] = x("locks", undo, "none")]
    BY <1>17 DEF BeginReversal
  <2>2. /\ x("done", NoUndo, "notFound").reply = "notFound"
        /\ x("done", NoUndo, "versionConflict").reply = "versionConflict"
        /\ \A undo : x("locks", undo, "none").reply = "none"
    OBVIOUS
  <2> HIDE DEF x
  <2>3. \E y : tx' = [tx EXCEPT ![g] = y] /\ y.reply # "done"
    BY <2>1, <2>2
  <2> QED BY <1>4, <2>3
<1> QED BY <1>17, <1>5, <1>6, <1>7, <1>8, <1>9, <1>10, <1>11, <1>13, <1>14, <1>15, <1>16 DEF Next

\* So it was decided, and the heads are those of the decision.
LEMMA CommitDecided ==
  ASSUME IInv, [Next]_vars, NEW h \in Handlers, Commits(h)
  PROVE  DecidedInv(h)
<1>1. Store(h) /\ TxInv(h)
  BY CommitStores DEF IInv
<1> QED BY <1>1 DEF Store, TxInv

(* What a transaction commits was decided on the heads its author named,   *)
(* though it waits three times between the comparison and the commit       *)
(* (write_service.py:841-866).                                             *)
THEOREM HeadsNamed == Spec => CommitsOnTheHeadNamed
<1>1. IInv /\ [Next]_vars =>
        \A h \in Handlers : Commits(h) =>
          \A e \in tx[h].ask.edits \cup tx[h].ask.closes :
            e.item # New => IsHead(e.expected, Current(e.item))
  BY CommitDecided DEF DecidedInv, Named
<1> DEFINE A == \A h \in Handlers : Commits(h) =>
                  \A e \in tx[h].ask.edits \cup tx[h].ask.closes :
                    e.item # New => IsHead(e.expected, Current(e.item))
<1>2. IInv /\ [Next]_vars => A
  BY <1>1
<1>3. CommitsOnTheHeadNamed <=> [][A]_vars
  BY DEF CommitsOnTheHeadNamed
<1> HIDE DEF A
<1> QED BY <1>2, <1>3, Invariance, PTL DEF Spec

-----------------------------------------------------------------------------
(* The intervals and the clock readings.                                   *)

\* The copies of version m that its standing version may be.
Later(m) == {c \in Copies(m) : m < c /\ c =< nextVersion}

\* The version that stands for m, where f says which one stands for later ones.
Ahead(f, m) ==
  IF \E r \in rows : r.vid = m /\ IsCurrent(r) THEN m
  ELSE IF Later(m) = {} THEN None
  ELSE f[CHOOSE c \in Later(m) : \A d \in Later(m) : d =< c]

\* Standing as a function that is given by its own values at later versions.
LEMMA StandingForm ==
  ASSUME NEW n
  PROVE Standing(n) = (CHOOSE f : f = [m \in 0 .. nextVersion |-> Ahead(f, m)])[n]
BY DEF Standing, Ahead, Later

\* The largest of the later copies, if there are any.
LEMMA LaterFacts ==
  ASSUME TypeOK, NEW m
  PROVE  /\ Later(m) \in SUBSET {c \in 0 .. nextVersion : m < c}
         /\ Later(m) # {} =>
              (CHOOSE c \in Later(m) : \A d \in Later(m) : d =< c) \in Later(m)
<1>1. nextVersion \in Nat /\ events \in SUBSET Events
  BY DEF TypeOK
<1>2. ASSUME NEW c \in Later(m) PROVE c \in 0 .. nextVersion /\ m < c
  <2>1. m < c /\ c =< nextVersion /\ c \in Copies(m)
    BY DEF Later
  <2>2. PICK v \in events : \E e \in v.plan.added : c = e.vid
    BY <2>1 DEF Copies
  <2>d. PICK d \in v.plan.added : c = d.vid
    BY <2>2
  <2>3. d \in PlannedRows
    BY <1>1, <2>d DEF Events, Plans
  <2>4. c \in Nat
    BY <2>d, <2>3 DEF PlannedRows
  <2> QED BY <1>1, <2>1, <2>4
<1>3. ASSUME Later(m) # {}
      PROVE  (CHOOSE c \in Later(m) : \A d \in Later(m) : d =< c) \in Later(m)
  <2>1. Later(m) \in SUBSET Nat /\ Later(m) \in SUBSET (0 .. nextVersion)
    BY <1>2
  <2>2. IsFiniteSet(0 .. nextVersion)
    BY <1>1, FS_Interval
  <2>3. IsFiniteSet(Later(m))
    BY <2>1, <2>2, FS_Subset
  <2>4. \E c \in Later(m) : \A d \in Later(m) : d =< c
    BY <1>3, <2>1, <2>3, LargestNatural
  <2> QED BY <2>4
<1> QED BY <1>2, <1>3

\* Later versions decide about earlier ones, so every version has one that
\* stands for it.
LEMMA LiveExists ==
  ASSUME TypeOK
  PROVE  \E f : f = [m \in 0 .. nextVersion |-> Ahead(f, m)]
<1> DEFINE N == nextVersion
           T == {k \in 0 .. N + 1 : \E f : \A m \in k .. N : f[m] = Ahead(f, m)}
<1>0. N \in Nat
  BY DEF TypeOK
<1>1. T \in SUBSET Nat /\ T # {}
  <2>1. \A m \in N + 1 .. N : FALSE
    BY <1>0
  <2>2. N + 1 \in T
    BY <1>0, <2>1
  <2> QED BY <1>0, <2>2
<1>2. PICK k \in T : \A j \in T : k <= j
  <2> HIDE DEF T
  <2> QED BY <1>1, LeastNatural
<1>3. k \in Nat /\ k <= N + 1
  BY <1>0
<1>4. PICK f : \A m \in k .. N : f[m] = Ahead(f, m)
  OBVIOUS
<1>5. ASSUME NEW g, NEW m \in 0 .. N, \A c \in m + 1 .. N : g[c] = f[c]
      PROVE  Ahead(g, m) = Ahead(f, m)
  <2>1. CASE Later(m) = {}
    BY <2>1 DEF Ahead
  <2>2. CASE Later(m) # {}
    <3> DEFINE next == CHOOSE c \in Later(m) : \A d \in Later(m) : d =< c
    <3>1. next \in 0 .. N /\ m < next
      BY <2>2, LaterFacts
    <3> HIDE DEF next
    <3>2. next \in m + 1 .. N
      BY <1>0, <3>1
    <3>3. g[next] = f[next]
      BY <1>5, <3>2
    <3> QED BY <2>2, <3>3 DEF Ahead, next
  <2> QED BY <2>1, <2>2
<1>6. CASE k = 0
  <2> DEFINE g == [m \in 0 .. N |-> f[m]]
  <2>1. \A m \in 0 .. N : g[m] = Ahead(g, m)
    <3> SUFFICES ASSUME NEW m \in 0 .. N PROVE g[m] = Ahead(g, m)
      OBVIOUS
    <3>1. \A c \in m + 1 .. N : g[c] = f[c]
      BY <1>0
    <3>2. g[m] = f[m]
      OBVIOUS
    <3> HIDE DEF g
    <3>3. Ahead(g, m) = Ahead(f, m)
      BY <1>5, <3>1
    <3> QED BY <1>4, <1>6, <3>2, <3>3
  <2>2. g = [m \in 0 .. N |-> Ahead(g, m)]
    <3>1. g = [m \in 0 .. N |-> g[m]]
      OBVIOUS
    <3> HIDE DEF g
    <3> QED BY <2>1, <3>1
  <2> HIDE DEF g
  <2> QED BY <2>2
<1>7. CASE k # 0
  <2> DEFINE j == k - 1
             first == Ahead(f, j)
             g == [m \in 0 .. N |-> IF m = j THEN first ELSE f[m]]
  <2>0. j \in Nat /\ j <= N /\ ~ (k <= j) /\ j \in 0 .. N + 1
    BY <1>0, <1>3, <1>7
  <2>1. ASSUME NEW m \in j .. N PROVE g[m] = Ahead(g, m)
    <3>0. m \in 0 .. N
      BY <1>0, <2>0
    <3>1. \A c \in m + 1 .. N : g[c] = f[c]
      BY <1>0, <2>0
    <3>2. g[m] = IF m = j THEN Ahead(f, j) ELSE f[m]
      BY <3>0
    <3>3. m # j => m \in k .. N
      BY <1>0, <1>3, <2>0
    <3> HIDE DEF g, j
    <3>4. Ahead(g, m) = Ahead(f, m)
      BY <1>5, <3>0, <3>1
    <3> QED BY <1>4, <3>2, <3>3, <3>4
  <2>2. j \in T
    <3> HIDE DEF g, j
    <3> QED BY <2>0, <2>1
  <2> QED BY <1>2, <2>0, <2>2
<1> QED BY <1>6, <1>7

\* Which version stands for another: itself while it is current, else the one
\* that stands for its last copy, if it has copies.
LEMMA StandingIs ==
  ASSUME TypeOK
  PROVE  \A m \in 0 .. nextVersion :
           /\ (\E r \in rows : r.vid = m /\ IsCurrent(r)) => Standing(m) = m
           /\ ~ (\E r \in rows : r.vid = m /\ IsCurrent(r)) =>
                \/ Standing(m) = None
                \/ \E c \in Later(m) : Standing(m) = Standing(c)
<1> DEFINE live == CHOOSE f : f = [m \in 0 .. nextVersion |-> Ahead(f, m)]
<1>1. \A n : Standing(n) = live[n]
  BY StandingForm
<1>2. live = [m \in 0 .. nextVersion |-> Ahead(live, m)]
  BY LiveExists
<1> HIDE DEF live
<1> SUFFICES ASSUME NEW m \in 0 .. nextVersion
             PROVE  /\ (\E r \in rows : r.vid = m /\ IsCurrent(r)) => live[m] = m
                    /\ ~ (\E r \in rows : r.vid = m /\ IsCurrent(r)) =>
                         \/ live[m] = None
                         \/ \E c \in Later(m) : live[m] = live[c]
  BY <1>1
<1>3. live[m] = Ahead(live, m)
  BY <1>2
<1>4. CASE Later(m) = {}
  BY <1>3, <1>4 DEF Ahead
<1>5. CASE Later(m) # {}
  <2> DEFINE next == CHOOSE c \in Later(m) : \A d \in Later(m) : d =< c
  <2>1. next \in Later(m)
    BY <1>5, LaterFacts
  <2>2. Ahead(live, m) = IF \E r \in rows : r.vid = m /\ IsCurrent(r) THEN m ELSE live[next]
    BY <1>5 DEF Ahead
  <2> HIDE DEF next
  <2> QED BY <1>3, <2>1, <2>2
<1> QED BY <1>4, <1>5

-----------------------------------------------------------------------------
\* How intervals survive what the others do.

\* What becomes of a row: its interval stays, its end is set once.
Lasts(r, s) == r.vid = s.vid /\ SameSpan(r, s) /\ r.rec = s.rec /\ (IsCurrent(r) \/ r.sup = s.sup)

RowsLast == \A r \in rows : \E s \in rows' : Lasts(r, s)

\* The rows that a plan closed are the same afterwards.
LEMMA ClosedStay ==
  ASSUME RowsLast, RowsFit', NEW p, \A n \in p.closed : \E r \in rows : r.vid = n
  PROVE  /\ \A r \in rows : r.vid \in p.closed => \E s \in rows' : r.vid = s.vid /\ SameSpan(r, s)
         /\ \A s \in rows' : s.vid \in p.closed => \E r \in rows : r.vid = s.vid /\ SameSpan(r, s)
         /\ \A i, t : Covered(ClosedBy(p), i, t)' <=> Covered(ClosedBy(p), i, t)
<1>1. \A r \in rows : \E s \in rows' : r.vid = s.vid /\ SameSpan(r, s)
  BY DEF RowsLast, Lasts
<1>2. ASSUME NEW s \in rows', s.vid \in p.closed
      PROVE  \E r \in rows : r.vid = s.vid /\ SameSpan(r, s)
  <2>1. PICK r \in rows : r.vid = s.vid
    BY <1>2
  <2>2. PICK q \in rows' : r.vid = q.vid /\ SameSpan(r, q)
    BY <1>1
  <2>3. q = s
    BY <2>1, <2>2 DEF RowsFit
  <2> QED BY <2>1, <2>2, <2>3
<1>3. ASSUME NEW i, NEW t PROVE Covered(ClosedBy(p), i, t)' <=> Covered(ClosedBy(p), i, t)
  BY <1>1, <1>2 DEF Covered, ClosedBy, SameSpan
<1> QED BY <1>1, <1>2, <1>3

\* So a record keeps what it kept.
LEMMA KeepsStays ==
  ASSUME RowsLast, RowsFit', NEW v, \A n \in v.plan.closed : \E r \in rows : r.vid = n, Keeps(v)
  PROVE  Keeps(v)'
<1> DEFINE p == v.plan
<1>1. /\ \A s \in rows' : s.vid \in p.closed => \E r \in rows : r.vid = s.vid /\ SameSpan(r, s)
      /\ \A i, t : Covered(ClosedBy(p), i, t)' <=> Covered(ClosedBy(p), i, t)
  BY ClosedStay
<1>2. \A i : Updated(v, i)' => Updated(v, i)
  BY <1>1 DEF Updated, SameSpan
<1>3. ASSUME NEW i \in Items, NEW t \in Instants
      PROVE  /\ Covered(ClosedBy(p), i, t)' => Covered(p.added, i, t) \/ Closed(v.ask, i, t)
             /\ Updated(v, i)' =>
                  /\ Covered(p.added, i, t) => Covered(ClosedBy(p), i, t)'
                  /\ Mended(p, i) /\ Covered(ClosedBy(p), i, t)' => Covered(p.added, i, t)
  BY <1>1, <1>2 DEF Keeps
<1>4. v.ask.reverts # {} => \A d \in p.added : \E r \in rows' : r.vid = d.base /\ SameSpan(r, d)
  <2> SUFFICES ASSUME v.ask.reverts # {}, NEW d \in p.added
               PROVE  \E r \in rows' : r.vid = d.base /\ SameSpan(r, d)
    OBVIOUS
  <2>1. PICK r \in rows : r.vid = d.base /\ SameSpan(r, d)
    BY DEF Keeps
  <2> QED BY <2>1 DEF RowsLast, Lasts, SameSpan
<1> QED BY <1>3, <1>4 DEF Keeps

\* The same of the record that a handler's transaction is.
LEMMA KeepsOfTx ==
  ASSUME NEW h \in Handlers, NEW x, tx'[h] = x, Keeps(x)'
  PROVE  Keeps(tx[h])'
BY DEF Keeps, Covered, ClosedBy, Updated, Mended, Closed

\* The events of before still fit the rows.
LEMMA EventStays ==
  ASSUME TypeOK, RowsLast, RowsFit', NEW v \in Events, EventFits(v)
  PROVE  EventFits(v)'
<1>1. v.plan.at # Forever
  BY Numbers DEF Events, Plans
<1>2. \A n \in v.plan.closed : \E r \in rows' : r.vid = n /\ r.sup = v.plan.at
  BY <1>1 DEF EventFits, RowsLast, Lasts, IsCurrent
<1>3. \A d \in v.plan.added : \E r \in rows' : r.vid = d.vid /\ SameSpan(r, d)
  BY DEF EventFits, RowsLast, Lasts, SameSpan
<1>4. Keeps(v)'
  BY KeepsStays DEF EventFits
<1> QED BY <1>2, <1>3, <1>4 DEF EventFits

Fits(h) == AskFits(h) /\ SeenFits(h) /\ PlanFits(h)

\* What h holds stays as it is, and what is new is not h's.
RowsKeep(h) ==
  /\ \A r \in rows : \E s \in rows' : Lasts(r, s) /\ (r.item \in tx[h].held => r.sup = s.sup)
  /\ \A s \in rows' :
       \/ \E r \in rows : Lasts(r, s) /\ (r.item \in tx[h].held => r.sup = s.sup)
       \/ /\ Exists(s.item) => s.item \notin tx[h].held
          /\ tx[h].pc = "store" => \A d \in tx[h].plan.added : s.item # d.item

\* New events are not of the request whose key h holds.
EventsKeep(h) ==
  /\ events \subseteq events'
  /\ \A v \in events' \ events :
       v.kind # "access" /\ tx[h].pc \in {"build", "store"} /\ IsWrite(tx[h].ask)
       => v.ask.key # tx[h].ask.key

\* A handler that does not move keeps its part.
LEMMA FitStays ==
  ASSUME TypeOK, TypeOK', RowsFit', NEW h \in Handlers, TxInv(h), Fits(h), tx'[h] = tx[h],
         RowsKeep(h), EventsKeep(h), setBacks' = 0 => setBacks = 0
  PROVE  Fits(h)'
<1>1. PICK x : x = tx[h]
  OBVIOUS
<1>2. x = tx[h] /\ x = tx'[h] /\ x \in Txs /\ RowsLast
  BY <1>1 DEF RowsKeep, RowsLast, TypeOK
<1>3. AskFits(h)'
  <2> SUFFICES ASSUME x.pc \in Working
               PROVE  /\ x.ask \in Asks
                      /\ x.pending \subseteq x.ask.updates
                      /\ IF x.ask.reverts = {} THEN x.undo = NoUndo
                         ELSE \E v \in events' : /\ v.kind = "write" /\ v.plan = x.undo.plan
                                                 /\ Updated(v, x.undo.item)'
                      /\ x.pc \in {"build", "store"} /\ IsWrite(x.ask) => Prior(x.ask)' = {}
    BY <1>2 DEF AskFits, Updated, Prior
  <2>1. /\ x.ask \in Asks
        /\ x.pending \subseteq x.ask.updates
        /\ IF x.ask.reverts = {} THEN x.undo = NoUndo
           ELSE \E v \in events : /\ v.kind = "write" /\ v.plan = x.undo.plan
                                  /\ Updated(v, x.undo.item)
        /\ x.pc \in {"build", "store"} /\ IsWrite(x.ask) => Prior(x.ask) = {}
    BY <1>2 DEF Fits, AskFits
  <2>2. \A v, i : Updated(v, i) => Updated(v, i)'
    BY <1>2 DEF Updated, RowsLast, Lasts, SameSpan
  <2>3. x.pc \in {"build", "store"} /\ IsWrite(x.ask) => Prior(x.ask)' = {}
    BY <1>2, <2>1 DEF EventsKeep, Prior
  <2> QED BY <2>1, <2>2, <2>3 DEF EventsKeep
<1>4. ASSUME x.pc = "build" PROVE SeenFits(h)'
  <2>1. /\ DecidedInv(h) /\ \A s \in x.seen : s.item \in x.held
    BY <1>2, <1>4 DEF TxInv
  <2>2. ASSUME NEW u \in x.pending PROVE \E r \in rows' : r.vid = u.expected /\ r.to = Forever
    <3>1. PICK r \in rows : r.vid = u.expected /\ r.to = Forever
      BY <1>2, <1>4 DEF Fits, SeenFits
    <3> QED BY <1>2, <3>1 DEF RowsLast, Lasts, SameSpan
  <2>3. ASSUME NEW s \in x.seen PROVE \E r \in rows' : Alike(r, s)
    <3>1. PICK r \in rows : Alike(r, s)
      BY <1>2, <1>4 DEF Fits, SeenFits
    <3>2. r.item \in x.held
      BY <2>1, <3>1 DEF Alike, SameSpan
    <3>3. PICK q \in rows' : Lasts(r, q) /\ r.sup = q.sup
      BY <1>2, <3>2 DEF RowsKeep
    <3> QED BY <3>1, <3>3 DEF Alike, Lasts, SameSpan
  <2>4. ASSUME NEW e \in x.ask.edits, NEW q \in Current(e.item)'
        PROVE  \E s \in x.seen : Alike(q, s)
    <3>1. q \in rows' /\ q.item = e.item /\ q.sup = Forever
      BY DEF Current, IsCurrent
    <3>2. e.item \in Items
      BY <3>1 DEF TypeOK, Rows
    <3>3. e.item \in x.held /\ Exists(e.item)
      BY <1>2, <2>1, <3>2 DEF DecidedInv, Wanted
    <3>4. PICK r \in rows : Lasts(r, q) /\ (r.item \in x.held => r.sup = q.sup)
      BY <1>2, <3>1, <3>3 DEF RowsKeep
    <3>5. r.sup = Forever /\ r \in Current(e.item)
      BY <3>1, <3>3, <3>4 DEF Lasts, SameSpan, Current, IsCurrent
    <3>6. PICK s \in x.seen : Alike(r, s)
      BY <1>2, <1>4, <3>5 DEF Fits, SeenFits
    <3> QED BY <3>1, <3>4, <3>5, <3>6 DEF Alike, Lasts, SameSpan
  <2> QED BY <1>2, <1>4, <2>2, <2>3, <2>4 DEF SeenFits, Fits
<1>5. ASSUME x.pc = "store" PROVE PlanFits(h)'
  <2> DEFINE p == x.plan
  <2>1. /\ \A n \in p.closed : \E r \in rows : r.vid = n
        /\ \A r \in rows : r.vid \in p.closed => r.item \in x.held
        /\ \A d \in p.added : Exists(d.item) => d.item \in x.held
    BY <1>2, <1>5 DEF TxInv, PlanInv
  <2>2. /\ \A n \in p.closed : \E r \in rows : r.vid = n /\ IsCurrent(r) /\ r.rec < p.at
        /\ \A d \in p.added : d.from < d.to
        /\ \A d, e \in p.added :
             d.vid = e.vid \/ (d.item = e.item /\ Overlaps(d.from, d.to, e.from, e.to)) => d = e
        /\ \A d \in p.added, r \in rows : r.item = d.item =>
             /\ IsCurrent(r) /\ r.vid \notin p.closed => ~ Overlaps(r.from, r.to, d.from, d.to)
             /\ setBacks = 0 => IsCurrent(r) \/ r.sup =< p.at
        /\ Keeps(x)
    <3>1. PlanFits(h)
      BY DEF Fits
    <3>2. Keeps(x)
      BY <1>2, <1>5, <3>1 DEF PlanFits
    <3> QED BY <1>2, <1>5, <3>1, <3>2 DEF PlanFits
  <2>3. ASSUME NEW n \in p.closed PROVE \E r \in rows' : r.vid = n /\ IsCurrent(r) /\ r.rec < p.at
    <3>1. PICK r \in rows : r.vid = n /\ IsCurrent(r) /\ r.rec < p.at
      BY <2>2
    <3>2. r.item \in x.held
      BY <2>1, <3>1
    <3>3. PICK q \in rows' : Lasts(r, q) /\ r.sup = q.sup
      BY <1>2, <3>2 DEF RowsKeep
    <3> QED BY <3>1, <3>3 DEF Lasts, IsCurrent
  <2>4. ASSUME NEW d \in p.added, NEW q \in rows', q.item = d.item
        PROVE  /\ IsCurrent(q) /\ q.vid \notin p.closed => ~ Overlaps(q.from, q.to, d.from, d.to)
               /\ setBacks' = 0 => IsCurrent(q) \/ q.sup =< p.at
    <3>1. PICK r \in rows : Lasts(r, q) /\ (r.item \in x.held => r.sup = q.sup)
      BY <1>2, <1>5, <2>4 DEF RowsKeep
    <3>2. r.item = d.item /\ r.sup = q.sup
      BY <2>1, <2>4, <3>1 DEF Lasts, SameSpan, Exists
    <3> QED BY <2>2, <3>1, <3>2 DEF Lasts, SameSpan, IsCurrent
  <2>5. Keeps(tx[h])'
    <3>1. Keeps(x)'
      BY <1>2, <2>1, <2>2, KeepsStays
    <3> QED BY <1>2, <3>1, KeepsOfTx
  <2> HIDE DEF p
  <2>6. tx'[h].plan = p
    BY <1>2 DEF p
  <2> QED BY <2>2, <2>3, <2>4, <2>5, <2>6 DEF PlanFits, IsCurrent
<1>6. x.pc # "build" => SeenFits(h)'
  BY <1>2 DEF SeenFits
<1>7. x.pc # "store" => PlanFits(h)'
  BY <1>2 DEF PlanFits
<1> QED BY <1>3, <1>4, <1>5, <1>6, <1>7 DEF Fits

-----------------------------------------------------------------------------
\* The steps that leave the rows as they are.

\* Rows that stay are kept by everyone.
LEMMA RowsSame ==
  ASSUME rows' = rows
  PROVE  RowsLast /\ \A h \in Handlers : RowsKeep(h)
BY DEF RowsLast, RowsKeep, Lasts, SameSpan

\* The transactions stay, the rows last, and only readers' events are new.
LEMMA NoneMovesFit ==
  ASSUME IInv, IInv', FitInv, tx' = tx, RowsFit', RowsLast,
         \A h \in Handlers : RowsKeep(h),
         events \subseteq events', \A v \in events' \ events : v.kind = "access",
         setBacks' = 0 => setBacks = 0, ClockFits'
  PROVE  FitInv'
<1>1. TypeOK /\ TypeOK'
  BY DEF IInv
<1>2. ASSUME NEW h \in Handlers PROVE (AskFits(h) /\ SeenFits(h) /\ PlanFits(h))'
  <2>1. TxInv(h) /\ Fits(h) /\ RowsKeep(h) /\ tx'[h] = tx[h]
    BY DEF IInv, FitInv, Fits
  <2>2. EventsKeep(h)
    BY DEF EventsKeep
  <2> QED BY <1>1, <2>1, <2>2, FitStays DEF Fits
<1>3. ASSUME NEW v \in events', v.kind # "access" PROVE EventFits(v)'
  <2>1. v \in events /\ v \in Events /\ EventFits(v)
    BY <1>1, <1>3 DEF FitInv, TypeOK
  <2> QED BY <1>1, <2>1, EventStays
<1>4. ASSUME NEW g \in Handlers, NEW h \in Handlers, g # h PROVE KeysApart(g, h)'
  BY <1>4 DEF FitInv, KeysApart
<1>5. NothingLeftToConstraints'
  BY DEF FitInv, NothingLeftToConstraints
<1> QED BY <1>2, <1>3, <1>4, <1>5 DEF FitInv

\* A step of h that leaves the rows and the events alone.
LEMMA OneMovesFit ==
  ASSUME IInv, IInv', FitInv, NEW h \in Handlers, \A g \in Handlers \ {h} : tx'[g] = tx[g],
         rows' = rows, events' = events, setBacks' = setBacks, clock <= clock',
         Fits(h)', \A g \in Handlers \ {h} : KeysApart(g, h)',
         setBacks = 0 => /\ tx'[h].pc = "store" => tx'[h].plan.at <= clock'
                         /\ tx'[h].reply \notin {"internal", "raced"}
  PROVE  FitInv'
<1>1. TypeOK /\ TypeOK'
  BY DEF IInv
<1>2. ASSUME NEW g \in Handlers PROVE (AskFits(g) /\ SeenFits(g) /\ PlanFits(g))'
  <2>1. CASE g = h
    BY <2>1 DEF Fits
  <2>2. CASE g # h
    <3>1. TxInv(g) /\ Fits(g) /\ RowsKeep(g) /\ tx'[g] = tx[g] /\ RowsFit'
      BY <2>2, RowsSame DEF IInv, FitInv, Fits, RowsFit
    <3>2. EventsKeep(g)
      BY DEF EventsKeep
    <3> QED BY <1>1, <3>1, <3>2, FitStays DEF Fits
  <2> QED BY <2>1, <2>2
<1>3. RowsFit' /\ RowsLast
  BY RowsSame DEF FitInv, RowsFit
<1>4. ASSUME NEW v \in events', v.kind # "access" PROVE EventFits(v)'
  <2>1. v \in events /\ v \in Events /\ EventFits(v)
    BY <1>1, <1>4 DEF FitInv, TypeOK
  <2> QED BY <1>1, <1>3, <2>1, EventStays
<1>5. ASSUME NEW g \in Handlers, NEW k \in Handlers, g # k PROVE KeysApart(g, k)'
  <2>1. CASE g = h
    <3>1. KeysApart(k, g)'
      BY <1>5, <2>1
    <3> QED BY <3>1 DEF KeysApart
  <2>2. CASE k = h
    BY <1>5, <2>2
  <2>3. CASE g # h /\ k # h
    <3>1. KeysApart(g, k) /\ tx'[g] = tx[g] /\ tx'[k] = tx[k]
      BY <1>5, <2>3 DEF FitInv
    <3> QED BY <3>1 DEF KeysApart
  <2> QED BY <2>1, <2>2, <2>3
<1>6. ClockFits'
  <2> SUFFICES ASSUME setBacks' = 0
               PROVE  /\ \A r \in rows' : r.rec =< clock' /\ (IsCurrent(r) \/ r.sup =< clock')
                      /\ \A v \in events' : v.kind # "access" => v.plan.at =< clock'
                      /\ \A g \in Handlers : tx'[g].pc = "store" => tx'[g].plan.at =< clock'
    BY DEF ClockFits, IsCurrent
  <2>1. clock \in Nat /\ clock' \in Nat /\ ClockFits
    BY <1>1 DEF TypeOK, FitInv
  <2>2. \A r \in rows : r.rec \in Nat /\ r.sup \in Nat
    BY <1>1, Numbers DEF TypeOK, Rows
  <2>3. \A v \in events : v.plan.at \in Nat
    BY <1>1, Numbers DEF TypeOK, Events, Plans
  <2>4. \A g \in Handlers : tx[g].plan.at \in Nat
    BY <1>1, Numbers DEF TypeOK, Txs, Plans
  <2>5. ASSUME NEW g \in Handlers, tx'[g].pc = "store" PROVE tx'[g].plan.at =< clock'
    <3>1. CASE g = h
      BY <2>5, <3>1
    <3>2. CASE g # h
      BY <2>1, <2>4, <2>5, <3>2 DEF ClockFits
    <3> QED BY <3>1, <3>2
  <2> QED BY <2>1, <2>2, <2>3, <2>5 DEF ClockFits
<1>7. NothingLeftToConstraints'
  BY DEF FitInv, NothingLeftToConstraints
<1> QED BY <1>2, <1>3, <1>4, <1>5, <1>6, <1>7 DEF FitInv

\* A transaction that is refused or gives up has nothing left to fit.
LEMMA RefusedFit ==
  ASSUME IInv, IInv', FitInv, NEW h \in Handlers, NEW what, NEW n, Reply(h, what, n),
         setBacks = 0 => what \notin {"internal", "raced"}, clock <= clock',
         rows' = rows, events' = events, setBacks' = setBacks
  PROVE  FitInv'
<1>1. tx \in [Handlers -> Txs]
  BY DEF IInv, TypeOK
<1>2. /\ tx'[h] = Ended(h, what, n) /\ \A g \in Handlers \ {h} : tx'[g] = tx[g]
  BY <1>1, TxUpdate DEF Reply
<1>3. tx'[h].pc = "done" /\ tx'[h].reply = what
  BY <1>2 DEF Ended
<1>4. Fits(h)'
  BY <1>3 DEF Fits, AskFits, SeenFits, PlanFits, Working, Locking
<1>5. \A g \in Handlers \ {h} : KeysApart(g, h)'
  BY <1>3 DEF KeysApart, Locking
<1> QED BY <1>2, <1>3, <1>4, <1>5, OneMovesFit

\* A rollback leaves the table and the others as they were.
LEMMA RollbackFit ==
  ASSUME IInv, IInv', FitInv, NEW h \in Handlers, Rollback(h)
  PROVE  FitInv'
<1>1. /\ Reply(h, "aborted", 0) /\ clock \in Nat
      /\ rows' = rows /\ events' = events /\ clock' = clock /\ setBacks' = setBacks
  BY DEF Rollback, IInv, TypeOK
<1> QED BY <1>1, RefusedFit

\* A transaction that begins has no plan yet, and its updates are of its ask.
LEMMA BeginFit ==
  ASSUME IInv, IInv', FitInv, NEW h \in Handlers, NEW a \in Asks, Begin(h, a)
  PROVE  FitInv'
<1> DEFINE x == [pc |-> IF ~ Known(a) THEN "done" ELSE IF IsWrite(a) THEN "key" ELSE "locks",
                 ask |-> a,
                 pending |-> IF Known(a) THEN {u \in a.updates : Current(u.item) # {}} ELSE {},
                 undo |-> NoUndo, held |-> {}, seen |-> {}, plan |-> NoPlan,
                 reply |-> IF Known(a) THEN "none" ELSE "notFound", answer |-> 0]
<1>1. tx' = [tx EXCEPT ![h] = x] /\ UNCHANGED <<rows, events, clock, sequences, reader, setBacks>>
      /\ a.reverts = {}
  BY DEF Begin
<1>2. /\ x.pc \in {"done", "key", "locks"}
      /\ x.pc = "locks" => ~ IsWrite(a)
      /\ x.ask = a /\ x.undo = NoUndo /\ x.reply \in {"none", "notFound"}
      /\ x.pending \subseteq a.updates
  OBVIOUS
<1> HIDE DEF x
<1>3. tx \in [Handlers -> Txs] /\ clock \in Nat
  BY DEF IInv, TypeOK
<1>4. tx'[h] = x /\ \A g \in Handlers \ {h} : tx'[g] = tx[g]
  BY <1>1, <1>3, TxUpdate
<1>5. Fits(h)'
  BY <1>1, <1>2, <1>4 DEF Fits, AskFits, SeenFits, PlanFits
<1>6. \A g \in Handlers \ {h} : KeysApart(g, h)'
  BY <1>2, <1>4 DEF KeysApart, Locking
<1> QED BY <1>1, <1>2, <1>3, <1>4, <1>5, <1>6, OneMovesFit

\* A reversal begins with a committed write that updated its item.
LEMMA BeginReversalFit ==
  ASSUME IInv, IInv', FitInv, NEW h \in Handlers, NEW a \in Asks, BeginReversal(h, a)
  PROVE  FitInv'
<1> DEFINE x(pc, undo, reply) ==
             [pc |-> pc, ask |-> a, pending |-> {}, undo |-> undo, held |-> {},
              seen |-> {}, plan |-> NoPlan, reply |-> reply, answer |-> 0]
<1>1. tx \in [Handlers -> Txs] /\ clock \in Nat /\ a.reverts # {} /\ ~ IsWrite(a)
      /\ UNCHANGED <<rows, events, clock, sequences, reader, setBacks>>
  BY DEF IInv, TypeOK, BeginReversal, IsWrite
<1>2. PICK u \in a.reverts :
        \/ tx' = [tx EXCEPT ![h] = x("done", NoUndo, "notFound")]
        \/ tx' = [tx EXCEPT ![h] = x("done", NoUndo, "versionConflict")]
        \/ \E v \in events :
             /\ v.kind = "write" /\ Updated(v, u.item)
             /\ tx' = [tx EXCEPT ![h] =
                  x("locks", [item |-> u.item, locks |-> Linked(v, u.item), plan |-> v.plan],
                    "none")]
  BY DEF BeginReversal
<1>3. ASSUME NEW y, tx' = [tx EXCEPT ![h] = y], y.reply \notin {"internal", "raced"},
             y.ask = a, y.pending = {},
             \/ y.pc = "done"
             \/ y.pc = "locks" /\ \E v \in events : /\ v.kind = "write" /\ v.plan = y.undo.plan
                                                    /\ Updated(v, y.undo.item)
      PROVE  FitInv'
  <2>1. tx'[h] = y /\ \A g \in Handlers \ {h} : tx'[g] = tx[g]
    BY <1>1, <1>3, TxUpdate
  <2>2. Fits(h)'
    <3>1. CASE y.pc = "done"
      BY <2>1, <3>1 DEF Fits, AskFits, SeenFits, PlanFits, Working, Locking
    <3>2. CASE y.pc # "done"
      <4>1. PICK v \in events : /\ v.kind = "write" /\ v.plan = y.undo.plan
                                /\ Updated(v, y.undo.item)
        BY <1>3, <3>2
      <4>2. Updated(v, tx[h].undo.item)' <=> Updated(v, y.undo.item)
        BY <1>1, <2>1 DEF Updated
      <4> QED BY <1>1, <1>3, <2>1, <3>2, <4>1, <4>2 DEF Fits, AskFits, SeenFits, PlanFits
    <3> QED BY <3>1, <3>2
  <2>3. \A g \in Handlers \ {h} : KeysApart(g, h)'
    BY <1>1, <1>3, <2>1 DEF KeysApart, Locking
  <2> QED BY <1>1, <1>3, <2>1, <2>2, <2>3, OneMovesFit
<1>4. CASE tx' = [tx EXCEPT ![h] = x("done", NoUndo, "notFound")]
  <2> DEFINE y == x("done", NoUndo, "notFound")
  <2>1. y.reply = "notFound" /\ y.ask = a /\ y.pending = {} /\ y.pc = "done"
    OBVIOUS
  <2>2. tx' = [tx EXCEPT ![h] = y]
    BY <1>4
  <2> HIDE DEF y
  <2> QED BY <1>3, <2>1, <2>2
<1>5. CASE tx' = [tx EXCEPT ![h] = x("done", NoUndo, "versionConflict")]
  <2> DEFINE y == x("done", NoUndo, "versionConflict")
  <2>1. y.reply = "versionConflict" /\ y.ask = a /\ y.pending = {} /\ y.pc = "done"
    OBVIOUS
  <2>2. tx' = [tx EXCEPT ![h] = y]
    BY <1>5
  <2> HIDE DEF y
  <2> QED BY <1>3, <2>1, <2>2
<1>6. ASSUME NEW v \in events, v.kind = "write", Updated(v, u.item),
             tx' = [tx EXCEPT ![h] =
               x("locks", [item |-> u.item, locks |-> Linked(v, u.item), plan |-> v.plan], "none")]
      PROVE  FitInv'
  <2> DEFINE y == x("locks", [item |-> u.item, locks |-> Linked(v, u.item), plan |-> v.plan], "none")
  <2>1. /\ y.reply = "none" /\ y.ask = a /\ y.pending = {} /\ y.pc = "locks"
        /\ y.undo.item = u.item /\ y.undo.plan = v.plan
    OBVIOUS
  <2>2. tx' = [tx EXCEPT ![h] = y]
    BY <1>6
  <2> HIDE DEF y
  <2> QED BY <1>3, <1>6, <2>1, <2>2
<1> HIDE DEF x
<1> QED BY <1>2, <1>4, <1>5, <1>6

\* The key of a write that goes on is its own among the open writes.
LEMMA LockRequestFit ==
  ASSUME IInv, IInv', FitInv, NEW h \in Handlers, LockRequest(h)
  PROVE  FitInv'
<1> DEFINE x == [tx[h] EXCEPT !.pc = "locks"]
<1>1. /\ tx \in [Handlers -> Txs] /\ tx[h] \in Txs /\ clock \in Nat
      /\ tx[h].pc = "key" /\ tx' = [tx EXCEPT ![h] = x]
      /\ \A g \in Handlers :
           tx[g].pc \in Locking /\ IsWrite(tx[g].ask) => tx[g].ask.key # tx[h].ask.key
      /\ UNCHANGED <<rows, events, clock, sequences, reader, setBacks>>
  BY DEF LockRequest, IInv, TypeOK
<1>2. /\ x.pc = "locks" /\ x.ask = tx[h].ask /\ x.pending = tx[h].pending
      /\ x.undo = tx[h].undo /\ x.reply = tx[h].reply
  BY <1>1 DEF Txs
<1> HIDE DEF x
<1>3. tx'[h] = x /\ \A g \in Handlers \ {h} : tx'[g] = tx[g]
  BY <1>1, TxUpdate
<1>4. Fits(h)'
  <2>1. /\ x.ask \in Asks /\ x.pending \subseteq x.ask.updates
        /\ IF x.ask.reverts = {} THEN x.undo = NoUndo
           ELSE \E v \in events : /\ v.kind = "write" /\ v.plan = x.undo.plan
                                  /\ Updated(v, x.undo.item)
    BY <1>1, <1>2 DEF FitInv, AskFits, Working
  <2>2. \A v, i : Updated(v, i)' <=> Updated(v, i)
    BY <1>1 DEF Updated
  <2>3. \A v : Updated(v, tx[h].undo.item)' <=> Updated(v, x.undo.item)
    BY <1>1, <1>3 DEF Updated
  <2> QED BY <1>1, <1>2, <1>3, <2>1, <2>3 DEF Fits, AskFits, SeenFits, PlanFits
<1>5. \A g \in Handlers \ {h} : KeysApart(g, h)'
  BY <1>1, <1>2, <1>3 DEF KeysApart
<1>6. setBacks = 0 => tx'[h].reply \notin {"internal", "raced"}
  BY <1>2, <1>3 DEF FitInv, NothingLeftToConstraints
<1> QED BY <1>1, <1>2, <1>3, <1>4, <1>5, <1>6, OneMovesFit

\* A lock more changes nothing that was read.
LEMMA LockItemFit ==
  ASSUME IInv, IInv', FitInv, NEW h \in Handlers, NEW i \in Items, LockItem(h, i)
  PROVE  FitInv'
<1> DEFINE x == [tx[h] EXCEPT !.held = @ \cup {i}]
<1>1. /\ tx \in [Handlers -> Txs] /\ tx[h] \in Txs /\ clock \in Nat
      /\ tx[h].pc = "locks" /\ tx' = [tx EXCEPT ![h] = x]
      /\ UNCHANGED <<rows, events, clock, sequences, reader, setBacks>>
  BY DEF LockItem, IInv, TypeOK
<1>2. /\ x.pc = "locks" /\ x.ask = tx[h].ask /\ x.pending = tx[h].pending
      /\ x.undo = tx[h].undo /\ x.reply = tx[h].reply
  BY <1>1 DEF Txs
<1> HIDE DEF x
<1>3. tx'[h] = x /\ \A g \in Handlers \ {h} : tx'[g] = tx[g]
  BY <1>1, TxUpdate
<1>4. Fits(h)'
  <2>1. /\ x.ask \in Asks /\ x.pending \subseteq x.ask.updates
        /\ IF x.ask.reverts = {} THEN x.undo = NoUndo
           ELSE \E v \in events : /\ v.kind = "write" /\ v.plan = x.undo.plan
                                  /\ Updated(v, x.undo.item)
    BY <1>1, <1>2 DEF FitInv, AskFits, Working, Locking
  <2>2. \A v : Updated(v, tx[h].undo.item)' <=> Updated(v, x.undo.item)
    BY <1>1, <1>3 DEF Updated
  <2> QED BY <1>1, <1>2, <1>3, <2>1, <2>2 DEF Fits, AskFits, SeenFits, PlanFits
<1>5. ASSUME NEW g \in Handlers \ {h} PROVE KeysApart(g, h)'
  <2>1. KeysApart(g, h) /\ tx'[g] = tx[g]
    BY <1>3 DEF FitInv
  <2> QED BY <1>1, <1>2, <1>3, <2>1 DEF KeysApart, Locking
<1>6. setBacks = 0 => tx'[h].reply \notin {"internal", "raced"}
  BY <1>2, <1>3 DEF FitInv, NothingLeftToConstraints
<1> QED BY <1>1, <1>2, <1>3, <1>4, <1>5, <1>6, OneMovesFit

\* A write goes on only with a key that no event has.
LEMMA VerdictKeeps ==
  ASSUME NEW a
  PROVE  /\ Verdict(a) \notin {"internal", "raced"}
         /\ Verdict(a) = "ok" /\ IsWrite(a) => Prior(a) = {}
BY DEF Verdict

\* What the decision reads under its locks fits the table at that moment.
LEMMA DecideFit ==
  ASSUME IInv, IInv', FitInv, NEW h \in Handlers, Decide(h)
  PROVE  FitInv'
<1> DEFINE a == tx[h].ask
           pending == tx[h].pending
<1>1. /\ tx \in [Handlers -> Txs] /\ tx[h] \in Txs /\ clock \in Nat
      /\ tx[h].pc = "locks"
      /\ UNCHANGED <<rows, events, sequences, reader, setBacks>>
  BY DEF Decide, IInv, TypeOK
<1>2. CASE /\ Verdict(a) = "replayed" /\ clock' = clock
           /\ \E v \in Prior(a) : Reply(h, "replayed", v.id)
  BY <1>1, <1>2, RefusedFit
<1>3. CASE Verdict(a) \notin {"ok", "replayed"} /\ clock' = clock /\ Reply(h, Verdict(a), 0)
  BY <1>1, <1>3, VerdictKeeps, RefusedFit
<1>4. ASSUME Verdict(a) = "ok", clock' = IF pending = {} THEN clock ELSE clock + 1,
             NEW kept \in SUBSET {u \in pending : Sound(u, a, pending, clock + 1)},
             tx' = [tx EXCEPT ![h] =
               [pc |-> "build", ask |-> a, pending |-> kept,
                undo |-> tx[h].undo, held |-> tx[h].held,
                seen |-> {r \in rows : IsCurrent(r) /\ \E e \in a.edits : r.item = e.item},
                plan |-> NoPlan, reply |-> "none", answer |-> 0]]
      PROVE  FitInv'
  <2>1. PICK seen : seen = {r \in rows : IsCurrent(r) /\ \E e \in a.edits : r.item = e.item}
    OBVIOUS
  <2>2. PICK x : x = [pc |-> "build", ask |-> a, pending |-> kept,
                      undo |-> tx[h].undo, held |-> tx[h].held, seen |-> seen, plan |-> NoPlan,
                      reply |-> "none", answer |-> 0]
    OBVIOUS
  <2>3. /\ x.pc = "build" /\ x.ask = a /\ x.pending = kept /\ x.undo = tx[h].undo
        /\ x.seen = seen /\ x.reply = "none"
    BY <2>2
  <2>4. tx' = [tx EXCEPT ![h] = x]
    BY <1>4, <2>1, <2>2
  <2>5. tx'[h] = x /\ \A g \in Handlers \ {h} : tx'[g] = tx[g]
    BY <1>1, <2>4, TxUpdate
  <2>6. AskFits(h)'
    <3>1. /\ a \in Asks /\ pending \subseteq a.updates
          /\ IF a.reverts = {} THEN x.undo = NoUndo
             ELSE \E v \in events : /\ v.kind = "write" /\ v.plan = x.undo.plan
                                    /\ Updated(v, x.undo.item)
      BY <1>1, <2>3 DEF FitInv, AskFits, Working, Locking
    <3>2. \A v : Updated(v, tx[h].undo.item)' <=> Updated(v, x.undo.item)
      BY <1>1, <2>5 DEF Updated
    <3>3. IsWrite(a) => Prior(tx[h].ask)' = {}
      BY <1>1, <1>4, <2>3, <2>5, VerdictKeeps DEF Prior
    <3> QED BY <1>1, <1>4, <2>3, <2>5, <3>1, <3>2, <3>3 DEF AskFits
  <2>7. SeenFits(h)'
    <3>1. ASSUME NEW u \in kept
          PROVE  /\ \A e \in a.edits : e.item # u.item
                 /\ \A w \in kept : w.item = u.item => w = u
                 /\ \E r \in rows' : r.vid = u.expected /\ r.to = Forever
      <4>1. Sound(u, a, pending, clock + 1)
        BY <1>4
      <4> QED BY <1>1, <1>4, <4>1 DEF Sound, ValidAt, Current
    <3>2. \A s, t \in seen : s.vid = t.vid => s = t
      BY <2>1 DEF FitInv, RowsFit
    <3>3. \A s \in seen : IsCurrent(s) /\ \E r \in rows' : Alike(r, s)
      BY <1>1, <2>1 DEF Alike, SameSpan
    <3>4. \A e \in a.edits : \A r \in Current(e.item)' : \E s \in seen : Alike(r, s)
      BY <1>1, <2>1 DEF Alike, SameSpan, Current, IsCurrent
    <3> QED BY <2>3, <2>5, <3>1, <3>2, <3>3, <3>4 DEF SeenFits, IsCurrent
  <2>8. PlanFits(h)'
    BY <2>3, <2>5 DEF PlanFits
  <2>9. ASSUME NEW g \in Handlers \ {h} PROVE KeysApart(g, h)'
    <3>1. KeysApart(g, h) /\ tx'[g] = tx[g]
      BY <2>5 DEF FitInv
    <3> QED BY <1>1, <2>3, <2>5, <3>1 DEF KeysApart, Locking
  <2>10. clock <= clock'
    BY <1>1, <1>4
  <2> QED BY <1>1, <2>3, <2>5, <2>6, <2>7, <2>8, <2>9, <2>10, OneMovesFit DEF Fits
<1>5. \/ /\ Verdict(a) = "replayed" /\ clock' = clock
         /\ \E v \in Prior(a) : Reply(h, "replayed", v.id)
      \/ Verdict(a) \notin {"ok", "replayed"} /\ clock' = clock /\ Reply(h, Verdict(a), 0)
      \/ /\ Verdict(a) = "ok"
         /\ clock' = IF pending = {} THEN clock ELSE clock + 1
         /\ \E kept \in SUBSET {u \in pending : Sound(u, a, pending, clock + 1)} :
                tx' = [tx EXCEPT ![h] =
                  [pc |-> "build", ask |-> a, pending |-> kept,
                   undo |-> tx[h].undo, held |-> tx[h].held,
                   seen |-> {r \in rows : IsCurrent(r) /\ \E e \in a.edits : r.item = e.item},
                   plan |-> NoPlan, reply |-> "none", answer |-> 0]]
  BY DEF Decide
<1> QED BY <1>2, <1>3, <1>4, <1>5

\* A reader moves the clock forward only.
LEMMA OpenReadFit ==
  ASSUME IInv, IInv', FitInv, NEW r \in rows, OpenRead(r)
  PROVE  FitInv'
<1>1. TypeOK /\ clock' = clock + 1 /\ UNCHANGED <<rows, events, tx, setBacks>>
  BY DEF IInv, OpenRead
<1>2. RowsFit' /\ RowsLast /\ \A h \in Handlers : RowsKeep(h)
  BY <1>1, RowsSame DEF FitInv, RowsFit
<1>3. ClockFits'
  <2>1. /\ clock \in Nat /\ clock' \in Nat /\ clock <= clock'
        /\ \A s \in rows : s.rec \in Nat /\ s.sup \in Nat
    <3>1. rows \in SUBSET Rows /\ clock \in Nat
      BY <1>1 DEF TypeOK
    <3>2. \A s \in rows : s.rec \in Nat /\ s.sup \in Nat
      BY <3>1, Numbers DEF Rows
    <3> QED BY <1>1, <3>1, <3>2
  <2>2. \A v \in events : v.plan.at \in Nat
    BY <1>1, Numbers DEF TypeOK, Events, Plans
  <2>3. \A g \in Handlers : tx[g].plan.at \in Nat
    BY <1>1, Numbers DEF TypeOK, Txs, Plans
  <2> QED BY <1>1, <2>1, <2>2, <2>3 DEF FitInv, ClockFits, IsCurrent
<1> QED BY <1>1, <1>2, <1>3, NoneMovesFit

\* A clock set back ends what depends on the clock, and only that.
LEMMA StepBackFit ==
  ASSUME IInv, IInv', FitInv, StepBack
  PROVE  FitInv'
<1>1. /\ setBacks' # 0 /\ UNCHANGED <<rows, events, sequences, tx, reader>>
  <2>1. setBacks \in 0 .. StepBacks /\ StepBacks \in Nat
    BY BitemporalAssumption DEF IInv, TypeOK
  <2> QED BY <2>1 DEF StepBack
<1>2. RowsFit' /\ RowsLast /\ \A h \in Handlers : RowsKeep(h)
  BY <1>1, RowsSame DEF FitInv, RowsFit
<1>3. ClockFits'
  BY <1>1 DEF ClockFits
<1> QED BY <1>1, <1>2, <1>3, NoneMovesFit

\* A step that changes nothing.
LEMMA StutterFit ==
  ASSUME IInv, IInv', FitInv, UNCHANGED vars
  PROVE  FitInv'
<1>1. UNCHANGED <<rows, events, clock, tx, setBacks>>
  BY DEF vars
<1>2. RowsFit' /\ RowsLast /\ \A h \in Handlers : RowsKeep(h)
  BY <1>1, RowsSame DEF FitInv, RowsFit
<1>3. ClockFits'
  BY <1>1 DEF FitInv, ClockFits, IsCurrent
<1> QED BY <1>1, <1>2, <1>3, NoneMovesFit

\* A reader's touch changes no interval and no instant of a row.
LEMMA CloseReadFit ==
  ASSUME IInv, IInv', FitInv, NEW x \in reader, CloseRead(x)
  PROVE  FitInv'
<1> DEFINE f == [r \in rows |-> IF r.vid \in {x.vid} /\ r.access < x.at THEN [r EXCEPT !.access = x.at] ELSE r]
<1>1. /\ TypeOK /\ rows \in SUBSET Rows
      /\ rows' = {f[r] : r \in rows} /\ UNCHANGED <<clock, sequences, tx, setBacks>>
      /\ events \subseteq events' /\ \A v \in events' \ events : v.kind = "access"
  BY DEF IInv, TypeOK, CloseRead, Touched
<1>2. ASSUME NEW r \in rows
      PROVE  /\ f[r] \in rows' /\ Lasts(r, f[r]) /\ r.sup = f[r].sup
             /\ (IsCurrent(r) <=> IsCurrent(f[r]))
  <2>1. r \in Rows /\ f[r] \in {r, [r EXCEPT !.access = x.at]} /\ f[r] \in rows'
    BY <1>1
  <2> HIDE DEF f
  <2> QED BY <2>1 DEF Rows, Lasts, SameSpan, IsCurrent
<1> HIDE DEF f
<1>3. RowsFit'
  <2>1. ASSUME NEW r \in rows', NEW s \in rows'
        PROVE  r.vid = s.vid => r = s
    BY <1>1, <1>2 DEF FitInv, RowsFit, Lasts
  <2>2. \A r \in rows' : r.from < r.to /\ r.rec < r.sup
    BY <1>1, <1>2 DEF FitInv, RowsFit, Allowed, Lasts, SameSpan
  <2>3. ASSUME NEW r \in rows', NEW s \in rows', r # s PROVE ~ Collides(r, s)
    <3>1. PICK p \in rows : r = f[p]
      BY <1>1
    <3>2. PICK q \in rows : s = f[q]
      BY <1>1
    <3>3. ~ Collides(p, q)
      BY <2>3, <3>1, <3>2 DEF FitInv, RowsFit, Allowed
    <3> QED BY <1>2, <3>1, <3>2, <3>3 DEF Collides, Lasts, SameSpan
  <2> QED BY <2>1, <2>2, <2>3 DEF RowsFit, Allowed
<1>4. RowsLast /\ \A h \in Handlers : RowsKeep(h)
  <2>1. RowsLast
    BY <1>2 DEF RowsLast
  <2>2. ASSUME NEW h \in Handlers PROVE RowsKeep(h)
    BY <1>1, <1>2 DEF RowsKeep
  <2> QED BY <2>1, <2>2
<1>5. ClockFits'
  <2>1. \A s \in rows' : \E r \in rows : r.rec = s.rec /\ r.sup = s.sup
    BY <1>1, <1>2 DEF Lasts
  <2> QED BY <1>1, <2>1 DEF FitInv, ClockFits, IsCurrent
<1> QED BY <1>1, <1>3, <1>4, <1>5, NoneMovesFit

-----------------------------------------------------------------------------
\* The commit.

\* What becomes of the rows: they stay, or they end at the plan's instant; the
\* rows of the plan are open, from its instant on.
LEMMA AppliedForms ==
  ASSUME TypeOK, NEW p \in Plans
  PROVE  /\ \A s \in Applied(p, rows) :
              \/ s \in rows /\ s \notin Closing(p, rows)
              \/ \E r \in Closing(p, rows) :
                   r.vid = s.vid /\ SameSpan(r, s) /\ r.rec = s.rec /\ s.sup = p.at
              \/ \E d \in p.added :
                   d.vid = s.vid /\ SameSpan(d, s) /\ s.rec = p.at /\ s.sup = Forever
         /\ \A r \in rows \ Closing(p, rows) : r \in Applied(p, rows)
         /\ \A r \in Closing(p, rows) : [r EXCEPT !.sup = p.at] \in Applied(p, rows)
         /\ \A r \in Closing(p, rows) : \E s \in Applied(p, rows) :
              r.vid = s.vid /\ SameSpan(r, s) /\ r.rec = s.rec /\ s.sup = p.at
         /\ \A d \in p.added : \E s \in Applied(p, rows) :
              d.vid = s.vid /\ SameSpan(d, s) /\ s.rec = p.at /\ s.sup = Forever
<1> DEFINE ended(r) == [r EXCEPT !.sup = p.at]
           new(d) == Written(d, p.at, rows)
<1>1. rows \in SUBSET Rows /\ Closing(p, rows) \subseteq rows
  BY DEF TypeOK, Closing
<1>2. Applied(p, rows) = (rows \ Closing(p, rows)) \cup {ended(r) : r \in Closing(p, rows)}
                         \cup {new(d) : d \in p.added}
  BY DEF Applied
<1>3. ASSUME NEW r \in Closing(p, rows)
      PROVE  /\ r.vid = ended(r).vid /\ SameSpan(r, ended(r)) /\ r.rec = ended(r).rec
             /\ ended(r).sup = p.at
  <2>1. r \in Rows
    BY <1>1
  <2> QED BY <2>1 DEF Rows, SameSpan
<1>4. ASSUME NEW d \in p.added
      PROVE  /\ d.vid = new(d).vid /\ SameSpan(d, new(d)) /\ new(d).rec = p.at
             /\ new(d).sup = Forever
  BY DEF Written, SameSpan
<1>5. \A r \in Closing(p, rows) : [r EXCEPT !.sup = p.at] \in Applied(p, rows)
  BY <1>2
<1> HIDE DEF ended, new
<1> QED BY <1>1, <1>2, <1>3, <1>4, <1>5

\* With a clock that only goes forward, the table allows what is planned.
LEMMA PlanAllowed ==
  ASSUME TypeOK, RowsFit, NEW h \in Handlers, tx[h].pc = "store", PlanFits(h), setBacks = 0,
         NEW p \in Plans, p = tx[h].plan
  PROVE  AllFound(p, rows) /\ Allowed(Applied(p, rows))
<1>1. /\ \A n \in p.closed : \E r \in rows : r.vid = n /\ IsCurrent(r) /\ r.rec < p.at
      /\ \A d, e \in p.added :
           (d.item = e.item /\ Overlaps(d.from, d.to, e.from, e.to)) => d = e
      /\ \A d \in p.added, r \in rows : r.item = d.item =>
           /\ IsCurrent(r) /\ r.vid \notin p.closed => ~ Overlaps(r.from, r.to, d.from, d.to)
           /\ IsCurrent(r) \/ r.sup =< p.at
  BY DEF PlanFits
<1>2. AllFound(p, rows)
  BY <1>1 DEF AllFound, Closing
<1>3. p.at \in Nat /\ Forever \in Nat /\ p.at < Forever
  BY Numbers DEF Plans, Instants
<1>a. rows \in SUBSET Rows
  BY DEF TypeOK
<1>4. \A r \in rows : r.rec \in Nat /\ r.sup \in Nat /\ r.rec < r.sup /\ r.from \in Nat /\ r.to \in Nat
  BY <1>a, Numbers DEF Rows, RowsFit, Allowed
<1>5. \A r \in Closing(p, rows) : r \in rows /\ r.rec < p.at /\ r.sup = Forever
  BY <1>1 DEF Closing, RowsFit, IsCurrent
<1>6. ASSUME NEW s \in Applied(p, rows) PROVE s.rec < s.sup
  BY <1>3, <1>4, <1>5, AppliedForms
<1> DEFINE Of(r, s) == /\ r \in rows /\ r.vid = s.vid /\ SameSpan(r, s) /\ r.rec = s.rec
                       /\ s.sup <= r.sup /\ s.sup \in Nat
                       /\ \/ s = r /\ r \notin Closing(p, rows)
                          \/ r \in Closing(p, rows) /\ s.sup = p.at /\ s = [r EXCEPT !.sup = p.at]
           For(d, s) == /\ d \in p.added /\ SameSpan(d, s) /\ s.rec = p.at /\ s.sup = Forever
                        /\ s = Written(d, p.at, rows)
<1>7. ASSUME NEW s \in Applied(p, rows)
      PROVE  (\E r \in rows : Of(r, s)) \/ (\E d \in p.added : For(d, s))
  <2>1. CASE s \in rows \ Closing(p, rows)
    <3>1. s.sup \in Nat /\ s.sup <= s.sup
      BY <1>4, <2>1
    <3> QED BY <2>1, <3>1 DEF SameSpan
  <2>2. ASSUME NEW r \in Closing(p, rows), s = [r EXCEPT !.sup = p.at] PROVE Of(r, s)
    <3>1. r \in Rows /\ r \in rows /\ r.sup = Forever
      BY <1>a, <1>5
    <3>2. s.sup = p.at /\ r.vid = s.vid /\ SameSpan(r, s) /\ r.rec = s.rec
      BY <2>2, <3>1 DEF Rows, SameSpan
    <3>3. s.sup <= r.sup /\ s.sup \in Nat
      BY <1>3, <3>1, <3>2
    <3> QED BY <2>2, <3>1, <3>2, <3>3
  <2>3. ASSUME NEW d \in p.added, s = Written(d, p.at, rows) PROVE For(d, s)
    BY <2>3 DEF Written, SameSpan
  <2>4. Applied(p, rows) = (rows \ Closing(p, rows))
                           \cup {[r EXCEPT !.sup = p.at] : r \in Closing(p, rows)}
                           \cup {Written(d, p.at, rows) : d \in p.added}
    BY DEF Applied
  <2>5. \/ s \in rows \ Closing(p, rows)
        \/ \E r \in Closing(p, rows) : s = [r EXCEPT !.sup = p.at]
        \/ \E d \in p.added : s = Written(d, p.at, rows)
    BY <2>4
  <2>6. \A r \in Closing(p, rows) : r \in rows
    BY <1>5
  <2> HIDE DEF Of, For
  <2> QED BY <2>1, <2>2, <2>3, <2>5, <2>6
<1>8. ASSUME NEW r \in rows, NEW s, Of(r, s), NEW d \in p.added, NEW n, For(d, n)
      PROVE  ~ Collides(s, n) /\ ~ Collides(n, s)
  <2> SUFFICES ASSUME s.item = n.item PROVE ~ Collides(s, n) /\ ~ Collides(n, s)
    BY DEF Collides
  <2>1. r.item = d.item
    BY <1>8 DEF SameSpan
  <2>2. CASE s.sup = p.at
    BY <1>3, <1>8, <2>2 DEF Collides, Overlaps
  <2>3. CASE s = r /\ r \notin Closing(p, rows)
    <3>1. CASE IsCurrent(r)
      <4>1. ~ Overlaps(r.from, r.to, d.from, d.to)
        BY <1>1, <2>1, <2>3, <3>1 DEF Closing
      <4> QED BY <1>8, <2>3, <4>1 DEF Collides, SameSpan, Overlaps
    <3>2. CASE ~ IsCurrent(r)
      <4>1. r.sup <= p.at
        BY <1>1, <2>1, <3>2
      <4> QED BY <1>3, <1>4, <1>8, <2>3, <4>1 DEF Collides, Overlaps
    <3> QED BY <3>1, <3>2
  <2> QED BY <1>8, <2>2, <2>3
<1>9. ASSUME NEW r \in rows, NEW s, Of(r, s), NEW q \in rows, NEW n, Of(q, n), s # n
      PROVE  ~ Collides(s, n)
  <2>1. CASE r = q
    BY <1>9, <2>1
  <2>2. CASE r # q
    <3>1. ~ Collides(r, q)
      BY <2>2 DEF RowsFit, Allowed
    <3> QED BY <1>4, <1>9, <3>1 DEF Collides, SameSpan, Overlaps
  <2> QED BY <2>1, <2>2
<1>10. ASSUME NEW d \in p.added, NEW s, For(d, s), NEW e \in p.added, NEW n, For(e, n), s # n
      PROVE  ~ Collides(s, n)
  <2>1. d # e
    BY <1>10
  <2>2. ~ (d.item = e.item /\ Overlaps(d.from, d.to, e.from, e.to))
    BY <1>1, <2>1
  <2> QED BY <1>10, <2>2 DEF Collides, SameSpan
<1> HIDE DEF Of, For
<1>11. \A s, n \in Applied(p, rows) : s # n => ~ Collides(s, n)
  BY <1>7, <1>8, <1>9, <1>10
<1> QED BY <1>2, <1>6, <1>11 DEF Allowed

\* Applying a plan gives every version id one row.
LEMMA AppliedDistinct ==
  ASSUME TypeOK, NEW p \in Plans, \A r, s \in rows : r.vid = s.vid => r = s,
         \A d, e \in p.added : d.vid = e.vid => d = e,
         \A d \in p.added : \A r \in rows : r.vid # d.vid
  PROVE  \A s, n \in Applied(p, rows) : s.vid = n.vid => s = n
<1> DEFINE ended(r) == [r EXCEPT !.sup = p.at]
           new(d) == Written(d, p.at, rows)
<1>1. rows \in SUBSET Rows /\ \A r \in Closing(p, rows) : r \in rows
  BY DEF TypeOK, Closing
<1>2. Applied(p, rows) = (rows \ Closing(p, rows)) \cup {ended(r) : r \in Closing(p, rows)}
                         \cup {new(d) : d \in p.added}
  BY DEF Applied
<1>3. \A r \in Closing(p, rows) : ended(r).vid = r.vid
  BY <1>1 DEF Rows
<1>4. \A d \in p.added : new(d).vid = d.vid
  BY DEF Written
<1> HIDE DEF ended, new
<1>5. ASSUME NEW s \in Applied(p, rows)
      PROVE  \/ s \in rows /\ s \notin Closing(p, rows)
             \/ \E r \in Closing(p, rows) : s = ended(r) /\ r \in rows /\ r.vid = s.vid
             \/ \E d \in p.added : s = new(d) /\ d.vid = s.vid
  BY <1>1, <1>2, <1>3, <1>4
<1> SUFFICES ASSUME NEW s \in Applied(p, rows), NEW n \in Applied(p, rows), s.vid = n.vid
             PROVE  s = n
  OBVIOUS
<1>6. CASE s \in rows /\ s \notin Closing(p, rows)
  BY <1>5, <1>6
<1>7. CASE \E r \in Closing(p, rows) : s = ended(r) /\ r \in rows /\ r.vid = s.vid
  BY <1>5, <1>7
<1>8. CASE \E d \in p.added : s = new(d) /\ d.vid = s.vid
  BY <1>5, <1>8
<1> QED BY <1>5, <1>6, <1>7, <1>8

\* A commit leaves every row where it holds, and closes or adds nothing of an
\* item that another transaction has locked or plans for.
LEMMA StoreKeeps ==
  ASSUME IInv, FitInv, NEW h \in Handlers, tx[h].pc = "store", rows' = Applied(tx[h].plan, rows)
  PROVE  /\ RowsLast
         /\ \A g \in Handlers \ {h} : RowsKeep(g)
<1>1. PICK x : x = tx[h]
  OBVIOUS
<1>2. PICK p : p = x.plan
  OBVIOUS
<1>3. TypeOK /\ p \in Plans /\ TxInv(h) /\ x.pc = "store"
  BY <1>1, <1>2 DEF IInv, TypeOK, Txs
<1>4. /\ \A r \in rows : r.vid \in p.closed => r.item \in x.held
      /\ \A d \in p.added : Exists(d.item) => d.item \in x.held
  BY <1>1, <1>2, <1>3 DEF TxInv, PlanInv
<1>5. PICK R : R = rows'
  OBVIOUS
<1>6. /\ \A s \in R :
            \/ s \in rows /\ s \notin Closing(p, rows)
            \/ \E r \in Closing(p, rows) :
                 r.vid = s.vid /\ SameSpan(r, s) /\ r.rec = s.rec /\ s.sup = p.at
            \/ \E d \in p.added :
                 d.vid = s.vid /\ SameSpan(d, s) /\ s.rec = p.at /\ s.sup = Forever
      /\ \A r \in rows \ Closing(p, rows) : r \in R
      /\ \A r \in Closing(p, rows) : \E s \in R :
            r.vid = s.vid /\ SameSpan(r, s) /\ r.rec = s.rec /\ s.sup = p.at
  BY <1>1, <1>2, <1>3, <1>5, AppliedForms
<1>7. \A r \in Closing(p, rows) : r \in rows /\ r.vid \in p.closed /\ IsCurrent(r)
  BY DEF Closing
<1>8. ASSUME NEW s \in R
      PROVE  \/ \E r \in rows : Lasts(r, s) /\ (r \notin Closing(p, rows) => s = r)
             \/ \E d \in p.added : SameSpan(d, s)
  <2>1. CASE s \in rows /\ s \notin Closing(p, rows)
    BY <2>1 DEF Lasts, SameSpan
  <2>2. ASSUME NEW r \in Closing(p, rows), r.vid = s.vid, SameSpan(r, s), r.rec = s.rec
        PROVE  r \in rows /\ Lasts(r, s)
    BY <1>7, <2>2 DEF Lasts
  <2> QED BY <1>6, <2>1, <2>2
<1>9. ASSUME NEW r \in rows
      PROVE  \E s \in R : Lasts(r, s) /\ (r \notin Closing(p, rows) => s = r)
  <2>1. CASE r \notin Closing(p, rows)
    BY <1>6, <2>1 DEF Lasts, SameSpan
  <2>2. CASE r \in Closing(p, rows)
    BY <1>6, <1>7, <2>2 DEF Lasts
  <2> QED BY <2>1, <2>2
<1>10. RowsLast
  BY <1>5, <1>9 DEF RowsLast
<1>11. ASSUME NEW g \in Handlers \ {h} PROVE RowsKeep(g)
  <2>1. PICK y : y = tx[g]
    OBVIOUS
  <2>2. /\ y.held \cap x.held = {}
        /\ y.pc = "store" => \A d \in y.plan.added, e \in p.added : d.item # e.item
    BY <1>1, <1>2, <1>3, <2>1 DEF IInv, ApartInv
  <2>3. ASSUME NEW r \in rows, r.item \in y.held PROVE r \notin Closing(p, rows)
    BY <1>4, <1>7, <2>2, <2>3
  <2>4. ASSUME NEW r \in rows
        PROVE  \E s \in R : Lasts(r, s) /\ (r.item \in y.held => r.sup = s.sup)
    BY <1>9, <2>3
  <2>5. ASSUME NEW s \in R
        PROVE  \/ \E r \in rows : Lasts(r, s) /\ (r.item \in y.held => r.sup = s.sup)
               \/ /\ Exists(s.item) => s.item \notin y.held
                  /\ y.pc = "store" => \A d \in y.plan.added : s.item # d.item
    <3>1. CASE \E r \in rows : Lasts(r, s) /\ (r \notin Closing(p, rows) => s = r)
      BY <2>3, <3>1
    <3>2. ASSUME NEW d \in p.added, SameSpan(d, s)
          PROVE  /\ Exists(s.item) => s.item \notin y.held
                 /\ y.pc = "store" => \A e \in y.plan.added : s.item # e.item
      BY <1>4, <2>2, <3>2 DEF SameSpan
    <3> QED BY <1>8, <3>1, <3>2
  <2> QED BY <1>5, <2>1, <2>4, <2>5 DEF RowsKeep
<1> QED BY <1>10, <1>11

\* A commit: the rows of its plan fit in, and the others keep what they hold.
LEMMA StoreFit ==
  ASSUME IInv, IInv', FitInv, NEW h \in Handlers, Store(h)
  PROVE  FitInv'
<1>1. PICK x : x = tx[h]
  OBVIOUS
<1>2. PICK p : p = x.plan
  OBVIOUS
<1>3. PICK a : a = x.ask
  OBVIOUS
<1>4. /\ TypeOK /\ TypeOK' /\ TxInv(h) /\ Fits(h) /\ RowsFit /\ clock \in Nat
      /\ tx \in [Handlers -> Txs] /\ x = tx[h] /\ x \in Txs /\ p \in Plans
  BY <1>1, <1>2 DEF IInv, TypeOK, FitInv, Fits, Txs
<1>5. /\ x.pc = "store" /\ UNCHANGED <<clock, sequences, reader, setBacks>>
      /\ \/ /\ Outcome(a, p) # "done" /\ Reply(h, Outcome(a, p), 0)
            /\ UNCHANGED <<rows, events>>
         \/ /\ Outcome(a, p) = "done" /\ Reply(h, "done", p.event)
            /\ rows' = Applied(p, rows)
            /\ events' = events \cup
                 {[id |-> p.event, kind |-> Kind(a), ask |-> a, plan |-> p, touched |-> {}]}
  BY <1>1, <1>2, <1>3 DEF Store
<1>6. a \in Asks /\ (IsWrite(a) => Prior(a) = {})
  BY <1>1, <1>3, <1>4, <1>5 DEF Fits, AskFits, Working, Locking
<1>7. CASE Outcome(a, p) # "done" /\ Reply(h, Outcome(a, p), 0) /\ UNCHANGED <<rows, events>>
  <2>1. setBacks = 0 => AllFound(p, rows) /\ Allowed(Applied(p, rows))
    BY <1>1, <1>2, <1>4, <1>5, PlanAllowed DEF Fits
  <2>2. setBacks = 0 => Outcome(a, p) \notin {"internal", "raced"}
    BY <1>6, <2>1 DEF Outcome
  <2> QED BY <1>4, <1>5, <1>7, <2>2, RefusedFit
<1>8. CASE /\ Outcome(a, p) = "done" /\ Reply(h, "done", p.event)
           /\ rows' = Applied(p, rows)
           /\ events' = events \cup
                {[id |-> p.event, kind |-> Kind(a), ask |-> a, plan |-> p, touched |-> {}]}
  <2>1. PICK v : v = [id |-> p.event, kind |-> Kind(a), ask |-> a, plan |-> p, touched |-> {}]
    OBVIOUS
  <2>2. /\ events' = events \cup {v} /\ v.kind = Kind(a) /\ v.ask = a /\ v.plan = p
        /\ v.kind # "access"
    BY <1>8, <2>1 DEF Kind
  <2>3. AllFound(p, rows) /\ Allowed(rows')
    BY <1>8 DEF Outcome
  <2>4. /\ \A n \in p.closed : \E r \in rows : r.vid = n /\ IsCurrent(r) /\ r.rec < p.at
        /\ \A d \in p.added : d.from < d.to
        /\ \A d, e \in p.added : d.vid = e.vid => d = e
        /\ Keeps(x)
    <3>1. PlanFits(h)
      BY <1>4 DEF Fits
    <3>2. Keeps(x)
      BY <1>1, <1>5, <3>1 DEF PlanFits
    <3> QED BY <1>1, <1>2, <1>5, <3>1, <3>2 DEF PlanFits
  <2>5. /\ \A r \in rows : r.vid \in p.closed => r.item \in x.held
        /\ \A d \in p.added : \A r \in rows : r.vid # d.vid
        /\ \A d \in p.added : Exists(d.item) => d.item \in x.held
    BY <1>1, <1>2, <1>4, <1>5 DEF TxInv, PlanInv
  <2>6. PICK R : R = rows'
    OBVIOUS
  <2>7. /\ \A s \in R :
              \/ s \in rows /\ s \notin Closing(p, rows)
              \/ \E r \in Closing(p, rows) :
                   r.vid = s.vid /\ SameSpan(r, s) /\ r.rec = s.rec /\ s.sup = p.at
              \/ \E d \in p.added :
                   d.vid = s.vid /\ SameSpan(d, s) /\ s.rec = p.at /\ s.sup = Forever
        /\ \A r \in rows \ Closing(p, rows) : r \in R
        /\ \A r \in Closing(p, rows) : \E s \in R :
              r.vid = s.vid /\ SameSpan(r, s) /\ r.rec = s.rec /\ s.sup = p.at
        /\ \A d \in p.added : \E s \in R :
              d.vid = s.vid /\ SameSpan(d, s) /\ s.rec = p.at /\ s.sup = Forever
    BY <1>4, <1>8, <2>6, AppliedForms
  <2>8. \A r \in Closing(p, rows) : r \in rows /\ r.vid \in p.closed /\ IsCurrent(r)
    BY DEF Closing
  <2>9. ASSUME NEW s \in R
        PROVE  \/ \E r \in rows : /\ Lasts(r, s)
                                  /\ r \notin Closing(p, rows) => s = r
                                  /\ r \in Closing(p, rows) => s.sup = p.at
               \/ \E d \in p.added :
                    d.vid = s.vid /\ SameSpan(d, s) /\ s.rec = p.at /\ s.sup = Forever
    <3>1. CASE s \in rows /\ s \notin Closing(p, rows)
      BY <3>1 DEF Lasts, SameSpan
    <3>2. ASSUME NEW r \in Closing(p, rows),
                 r.vid = s.vid /\ SameSpan(r, s) /\ r.rec = s.rec /\ s.sup = p.at
          PROVE  /\ r \in rows /\ Lasts(r, s)
                 /\ r \notin Closing(p, rows) => s = r
                 /\ r \in Closing(p, rows) => s.sup = p.at
      BY <2>8, <3>2 DEF Lasts
    <3> QED BY <2>7, <3>1, <3>2
  <2>11. RowsFit'
    <3>1. \A s, n \in R : s.vid = n.vid => s = n
      BY <1>4, <1>8, <2>4, <2>5, <2>6, AppliedDistinct DEF RowsFit
    <3>2. \A s \in R : s.from < s.to
      BY <1>4, <2>4, <2>9 DEF RowsFit, Lasts, SameSpan
    <3> QED BY <2>3, <2>6, <3>1, <3>2 DEF RowsFit, Allowed, Collides, Overlaps
  <2>12. RowsLast /\ \A g \in Handlers \ {h} : RowsKeep(g)
    BY <1>1, <1>2, <1>5, <1>8, StoreKeeps
  <2>13. /\ tx'[h] = Ended(h, "done", p.event)
         /\ \A g \in Handlers \ {h} : tx'[g] = tx[g]
    BY <1>4, <1>8, TxUpdate DEF Reply
  <2>14. tx'[h].pc = "done" /\ tx'[h].reply = "done"
    BY <2>13 DEF Ended
  <2>15. ASSUME NEW g \in Handlers \ {h} PROVE Fits(g)'
    <3>1. TxInv(g) /\ Fits(g) /\ tx'[g] = tx[g] /\ ApartInv(g, h) /\ KeysApart(g, h)
      BY <2>13 DEF IInv, FitInv, Fits
    <3>2. PICK y : y = tx[g]
      OBVIOUS
    <3>8. EventsKeep(g)
      <4> SUFFICES ASSUME y.pc \in {"build", "store"}, IsWrite(y.ask) PROVE a.key # y.ask.key
        BY <2>2, <3>2 DEF EventsKeep
      <4>1. y.ask \in Asks
        BY <3>1, <3>2 DEF Fits, AskFits, Working, Locking
      <4>2. CASE IsWrite(a)
        BY <1>1, <1>3, <1>5, <3>1, <3>2, <4>2 DEF KeysApart, Locking
      <4>3. CASE ~ IsWrite(a)
        <5>1. Kind(a) # Kind(y.ask)
          BY <4>3 DEF Kind
        <5> QED BY <1>6, <4>1, <5>1, BitemporalAssumption
      <4> QED BY <4>2, <4>3
    <3> QED BY <1>4, <2>11, <2>12, <3>1, <3>8, <1>5, FitStays
  <2>16. ASSUME NEW g \in Handlers PROVE (AskFits(g) /\ SeenFits(g) /\ PlanFits(g))'
    <3>1. CASE g = h
      BY <2>14, <3>1 DEF AskFits, SeenFits, PlanFits, Working, Locking
    <3>2. CASE g # h
      BY <2>15, <3>2 DEF Fits
    <3> QED BY <3>1, <3>2
  <2>17. EventFits(v)'
    <3>1. \A n \in p.closed : \E s \in R : s.vid = n /\ s.sup = p.at
      <4> SUFFICES ASSUME NEW n \in p.closed PROVE \E s \in R : s.vid = n /\ s.sup = p.at
        OBVIOUS
      <4>1. PICK r \in rows : r.vid = n /\ IsCurrent(r)
        BY <2>4
      <4>2. r \in Closing(p, rows)
        BY <4>1 DEF Closing
      <4> QED BY <2>7, <4>1, <4>2
    <3>2. \A d \in p.added : \E s \in R : s.vid = d.vid /\ SameSpan(s, d)
      BY <2>7 DEF SameSpan
    <3>3. Keeps(x)'
      BY <1>2, <2>4, <2>11, <2>12, KeepsStays
    <3>4. Keeps(v)'
      BY <1>2, <1>3, <2>2, <3>3 DEF Keeps, Covered, ClosedBy, Updated, Mended, Closed
    <3> QED BY <1>6, <2>2, <2>6, <3>1, <3>2, <3>4 DEF EventFits
  <2>18. ASSUME NEW w \in events', w.kind # "access" PROVE EventFits(w)'
    <3>1. CASE w = v
      BY <2>17, <3>1 DEF EventFits, Keeps, Covered, ClosedBy, Updated, Mended, Closed
    <3>2. CASE w # v
      <4>1. w \in events /\ w \in Events /\ EventFits(w)
        BY <1>4, <2>2, <2>18, <3>2 DEF FitInv, TypeOK
      <4> QED BY <1>4, <2>11, <2>12, <4>1, EventStays
    <3> QED BY <3>1, <3>2
  <2>19. ASSUME NEW g \in Handlers, NEW k \in Handlers, g # k PROVE KeysApart(g, k)'
    <3>1. KeysApart(g, k)
      BY <2>19 DEF FitInv
    <3> QED BY <2>13, <2>14, <2>19, <3>1 DEF KeysApart, Locking
  <2>20. ClockFits'
    <3> SUFFICES ASSUME setBacks = 0
                 PROVE  /\ \A s \in R : s.rec =< clock /\ (s.sup = Forever \/ s.sup =< clock)
                        /\ \A w \in events' : w.kind # "access" => w.plan.at =< clock
                        /\ \A g \in Handlers : tx'[g].pc = "store" => tx'[g].plan.at =< clock
      BY <1>5, <2>6 DEF ClockFits, IsCurrent
    <3>1. ClockFits /\ p.at <= clock
      BY <1>1, <1>2, <1>5 DEF FitInv, ClockFits
    <3>2. \A s \in R : s.rec =< clock /\ (s.sup = Forever \/ s.sup =< clock)
      BY <2>9, <3>1 DEF ClockFits, Lasts, IsCurrent
    <3>3. \A w \in events' : w.kind # "access" => w.plan.at =< clock
      BY <2>2, <3>1 DEF ClockFits
    <3>4. \A g \in Handlers : tx'[g].pc = "store" => tx'[g].plan.at =< clock
      BY <2>13, <2>14, <3>1 DEF ClockFits
    <3> QED BY <3>2, <3>3, <3>4
  <2>21. NothingLeftToConstraints'
    BY <1>5, <2>13, <2>14 DEF FitInv, NothingLeftToConstraints
  <2> QED BY <2>11, <2>16, <2>18, <2>19, <2>20, <2>21 DEF FitInv
<1> QED BY <1>5, <1>7, <1>8

-----------------------------------------------------------------------------
\* The drafts of a plan.

\* Drafts that leave each other room, at most one of an item without a base.
Roomy(D) ==
  /\ \A d \in D : d.from < d.to
  /\ \A d, e \in D :
       /\ d.item = e.item
       /\ Overlaps(d.from, d.to, e.from, e.to) \/ (d.base = None /\ e.base = None)
       => d = e

\* The order of such drafts is strict and total.
LEMMA PrecedesOrder ==
  ASSUME NEW D \in SUBSET Drafted, Roomy(D)
  PROVE  /\ \A d \in D : ~ Precedes(d, d)
         /\ \A d, e, f \in D : Precedes(d, e) /\ Precedes(e, f) => Precedes(d, f)
         /\ \A d, e \in D : d = e \/ Precedes(d, e) \/ Precedes(e, d)
<1>1. \A d \in D : d.item \in Nat /\ d.base \in Nat /\ d.from \in Nat /\ d.to \in Nat
  BY Numbers DEF Drafted
<1>2. \A d \in D : ~ Precedes(d, d)
  BY <1>1 DEF Precedes
<1>3. ASSUME NEW d \in D, NEW e \in D, NEW f \in D, Precedes(d, e), Precedes(e, f)
      PROVE  Precedes(d, f)
  BY <1>1, <1>3 DEF Precedes
<1>4. ASSUME NEW d \in D, NEW e \in D, ~ Precedes(d, e), ~ Precedes(e, d)
      PROVE  d = e
  <2>1. d.item = e.item
    BY <1>1, <1>4 DEF Precedes
  <2>2. d.base = None <=> e.base = None
    BY <1>1, <1>4, <2>1 DEF Precedes
  <2>3. CASE d.base = None
    BY <2>1, <2>2, <2>3 DEF Roomy
  <2>4. CASE d.base # None
    <3>1. d.base = e.base /\ d.from = e.from
      BY <1>1, <1>4, <2>1, <2>2, <2>4 DEF Precedes
    <3>2. Overlaps(d.from, d.to, e.from, e.to)
      BY <3>1 DEF Roomy, Overlaps
    <3> QED BY <2>1, <3>2 DEF Roomy
  <2> QED BY <2>3, <2>4
<1> QED BY <1>2, <1>3, <1>4

\* So every draft gets an id of its own.
LEMMA NumberedApart ==
  ASSUME TypeOK, NEW D \in SUBSET Drafted, IsFiniteSet(D), Roomy(D)
  PROVE  /\ \A n \in Numbered(D) : \E d \in D : SameSpan(n, d) /\ n.base = d.base
         /\ \A d \in D : \E n \in Numbered(D) : SameSpan(n, d) /\ n.base = d.base
         /\ \A n \in Numbered(D) : n.from < n.to
         /\ \A m, n \in Numbered(D) :
              m.vid = n.vid \/ (m.item = n.item /\ Overlaps(m.from, m.to, n.from, n.to)) => m = n
<1> DEFINE before(d) == {e \in D : Precedes(e, d)}
           number(d) == [vid |-> VersionId(d, D), item |-> d.item, from |-> d.from,
                         to |-> d.to, base |-> d.base, live |-> d.live, access |-> d.access]
<1>1. Numbered(D) = {number(d) : d \in D}
  BY DEF Numbered
<1>2. \A d \in D : SameSpan(number(d), d) /\ number(d).base = d.base /\ number(d).vid = VersionId(d, D)
  BY DEF SameSpan
<1>3. ASSUME NEW d \in D
      PROVE  /\ VersionId(d, D) = nextVersion + Cardinality(before(d))
             /\ IsFiniteSet(before(d)) /\ Cardinality(before(d)) \in Nat
  <2>1. before(d) \in SUBSET D
    OBVIOUS
  <2>2. VersionId(d, D) = nextVersion + Cardinality(before(d))
    BY DEF VersionId
  <2> HIDE DEF before
  <2> QED BY <2>1, <2>2, FS_Subset, FS_CardinalityType
<1>4. ASSUME NEW d \in D, NEW e \in D, Precedes(d, e)
      PROVE  VersionId(d, D) # VersionId(e, D)
  <2>1. before(d) \in SUBSET before(e) /\ d \in before(e) /\ d \notin before(d)
    BY <1>4, PrecedesOrder
  <2>2. nextVersion \in Nat
    BY DEF TypeOK
  <2> HIDE DEF before
  <2>3. Cardinality(before(d)) # Cardinality(before(e))
    BY <1>3, <2>1, FS_Subset
  <2> QED BY <1>3, <2>2, <2>3
<1>5. ASSUME NEW d \in D, NEW e \in D,
             VersionId(d, D) = VersionId(e, D)
             \/ (d.item = e.item /\ Overlaps(d.from, d.to, e.from, e.to))
      PROVE  d = e
  <2>1. CASE VersionId(d, D) = VersionId(e, D)
    BY <1>4, <2>1, PrecedesOrder
  <2>2. CASE d.item = e.item /\ Overlaps(d.from, d.to, e.from, e.to)
    BY <2>2 DEF Roomy
  <2> QED BY <1>5, <2>1, <2>2
<1> HIDE DEF number, before
<1>6. \A n \in Numbered(D) : n.from < n.to
  BY <1>1, <1>2 DEF Roomy, SameSpan
<1>7. \A m, n \in Numbered(D) :
        m.vid = n.vid \/ (m.item = n.item /\ Overlaps(m.from, m.to, n.from, n.to)) => m = n
  BY <1>1, <1>2, <1>5 DEF SameSpan
<1> QED BY <1>1, <1>2, <1>6, <1>7

-----------------------------------------------------------------------------
\* What one change does to an item.

Shaped(c) == c.start <= c.end /\ c.end <= c.until /\ c.start < c.until

\* The rows that a change meets, none twice.
Met(c, H) ==
  /\ H \in SUBSET Rows
  /\ \A r \in H : r.from < r.to /\ Overlaps(r.from, r.to, c.start, c.until)
  /\ \A r, s \in H : Overlaps(r.from, r.to, s.from, s.to) => r = s

Parts(c, seen) == Survivors(c, seen) \cup Replacement(c)

\* The parts of a change leave each other room; each is what survives of a row
\* the change met, or its replacement; and an instant of such a row that no
\* part has is one the change closes.
LEMMA ChangeParts ==
  ASSUME NEW c \in Changed, Shaped(c), NEW seen, Met(c, Hits(c, seen))
  PROVE  /\ Roomy(Parts(c, seen))
         /\ \A d \in Parts(c, seen) :
              /\ d.item = c.item
              /\ \/ /\ d.base # None
                    /\ \E r \in Hits(c, seen) : r.from <= d.from /\ d.to <= r.to
                 \/ /\ d.base = None
                    /\ d.from = c.start /\ d.to = c.end /\ c.start < c.end
         /\ \A r \in Hits(c, seen), t \in Nat : r.from <= t /\ t < r.to =>
              \/ \E d \in Parts(c, seen) : d.from <= t /\ t < d.to
              \/ c.end <= t /\ t < c.until
<1> DEFINE H == Hits(c, seen)
           S(r) == SurvivingSegments(r.from, r.to, c.start, c.until)
           draft(r, s) == [item |-> c.item, from |-> s.from, to |-> s.to,
                           base |-> r.vid, live |-> c.live, access |-> r.access]
           new == [item |-> c.item, from |-> c.start, to |-> c.end, base |-> None,
                   live |-> FALSE, access |-> 0]
<1>1. /\ c.start \in Nat /\ c.end \in Nat /\ c.until \in Nat
      /\ c.start <= c.end /\ c.end <= c.until /\ c.start < c.until
  BY Numbers DEF Changed, Shaped
<1>2. \A r \in H : /\ r.from \in Nat /\ r.to \in Nat /\ r.vid \in Nat /\ r.vid # None
                   /\ r.from < r.to /\ Overlaps(r.from, r.to, c.start, c.until)
  <2>1. \A r \in H : r \in Rows
    BY DEF Met
  <2> QED BY <2>1, Numbers DEF Met, Rows, None
<1>3. ASSUME NEW d \in Parts(c, seen)
      PROVE  \/ \E r \in H : \E s \in S(r) : d = draft(r, s)
             \/ d = new /\ c.start < c.end
  BY DEF Parts, Survivors, Replacement
<1>4. ASSUME NEW r \in H, NEW s \in S(r)
      PROVE  /\ draft(r, s) \in Parts(c, seen)
             /\ s.from \in Nat /\ s.to \in Nat /\ s.from < s.to
             /\ r.from <= s.from /\ s.to <= r.to
             /\ \/ s = Segment(r.from, c.start) /\ s.from = r.from /\ s.to = c.start
                \/ s = Segment(c.until, r.to) /\ s.from = c.until /\ s.to = r.to
  <2>1. draft(r, s) \in Parts(c, seen)
    BY DEF Parts, Survivors
  <2>2. /\ s.from < s.to
        /\ \/ s = Segment(r.from, c.start) /\ s.from = r.from /\ s.to = c.start
           \/ s = Segment(c.until, r.to) /\ s.from = c.until /\ s.to = r.to
    BY DEF SurvivingSegments, Segment
  <2>3. r.from < c.until /\ c.start < r.to
    BY <1>2 DEF Overlaps
  <2> QED BY <1>1, <1>2, <2>1, <2>2, <2>3
<1>5. c.start < c.end => new \in Parts(c, seen)
  BY DEF Parts, Replacement
<1>6. /\ \A r, s : /\ draft(r, s).item = c.item /\ draft(r, s).from = s.from
                   /\ draft(r, s).to = s.to /\ draft(r, s).base = r.vid
      /\ new.item = c.item /\ new.from = c.start /\ new.to = c.end /\ new.base = None
  OBVIOUS
<1> HIDE DEF draft, new
<1>7. \A d \in Parts(c, seen) :
         /\ d.item = c.item
         /\ \/ /\ d.base # None
               /\ \E r \in H : r.from <= d.from /\ d.to <= r.to
            \/ /\ d.base = None
               /\ d.from = c.start /\ d.to = c.end /\ c.start < c.end
  BY <1>2, <1>3, <1>4, <1>6
<1>8. \A d \in Parts(c, seen) : d.from < d.to
  BY <1>3, <1>4, <1>6
<1>9. ASSUME NEW d \in Parts(c, seen), NEW e \in Parts(c, seen),
             Overlaps(d.from, d.to, e.from, e.to) \/ (d.base = None /\ e.base = None)
      PROVE  d = e
  <2>1. CASE d = new /\ e = new
    BY <2>1
  <2>2. ASSUME NEW r \in H, NEW s \in S(r), d = draft(r, s), e = new
        PROVE  FALSE
    BY <1>1, <1>2, <1>4, <1>6, <1>9, <2>2 DEF Overlaps
  <2>3. ASSUME NEW r \in H, NEW s \in S(r), e = draft(r, s), d = new
        PROVE  FALSE
    BY <1>1, <1>2, <1>4, <1>6, <1>9, <2>3 DEF Overlaps
  <2>4. ASSUME NEW r \in H, NEW s \in S(r), d = draft(r, s),
               NEW q \in H, NEW n \in S(q), e = draft(q, n)
        PROVE  d = e
    <3>1. s.from < n.to /\ n.from < s.to
      BY <1>2, <1>6, <1>9, <2>4 DEF Overlaps
    <3>2. r.from < q.to /\ q.from < r.to
      BY <1>2, <1>4, <3>1
    <3>3. r = q
      BY <3>2 DEF Overlaps, Met
    <3>4. s = n
      BY <1>1, <1>4, <3>1, <3>3
    <3> QED BY <2>4, <3>3, <3>4
  <2> QED BY <1>3, <2>1, <2>2, <2>3, <2>4
<1>10. Roomy(Parts(c, seen))
  BY <1>8, <1>9 DEF Roomy
<1>11. ASSUME NEW r \in H, NEW t \in Nat, r.from <= t, t < r.to, ~ (c.end <= t /\ t < c.until)
       PROVE  \E d \in Parts(c, seen) : d.from <= t /\ t < d.to
  <2>1. CASE c.start <= t /\ t < c.end
    BY <1>1, <1>5, <1>6, <2>1
  <2>2. CASE ~ (c.start <= t /\ t < c.until)
    <3>1. PICK s \in S(r) : s.from <= t /\ t < s.to
      BY <1>1, <1>2, <1>11, <2>2, SegmentsPartition
    <3> QED BY <1>4, <1>6, <3>1
  <2> QED BY <1>1, <1>11, <2>1, <2>2
<1> QED BY <1>7, <1>10, <1>11

-----------------------------------------------------------------------------
\* The changes of a build.

\* The names of the items that a write creates are new and different.
NewNames(h, name) ==
  LET created == {e \in tx[h].ask.edits : e.item = New}
  IN
  /\ \A e \in created : name[e] \in Items /\ nextItem <= name[e]
  /\ \A e, f \in created : e # f => name[e] # name[f]

\* Where a change comes from.
FromEdit(h, now, name, c, e) ==
  /\ e \in tx[h].ask.edits
  /\ c = EditChange(e, IF e.item = New THEN name[e] ELSE e.item, now)

FromUpdate(h, now, c, u, r) ==
  /\ u \in tx[h].pending /\ r \in rows /\ StillApplies(u, r, now)
  /\ c = UpdateChange(u, r, now)

FromClose(h, c, k) ==
  /\ k \in tx[h].ask.closes
  /\ c = Change(k.item, k.cut, k.cut, Forever, TRUE)

\* A change comes from an edit, an update or a close.
LEMMA ChangeOrigin ==
  ASSUME NEW h, NEW now, NEW name, NEW c \in Changes(h, now, name)
  PROVE  \/ \E e : FromEdit(h, now, name, c, e)
         \/ \E u, r : FromUpdate(h, now, c, u, r)
         \/ \E k : FromClose(h, c, k)
BY DEF Changes, FromEdit, FromUpdate, FromClose

\* What the parts of an ask leave for each other.
LEMMA AskApart ==
  ASSUME NEW a \in Asks
  PROVE  /\ \A e, f \in a.edits : e.item = f.item /\ e.item # New => e = f
         /\ \A u \in a.updates : u.carrier \in a.edits
         /\ a.closes # {} => a.edits = {} /\ a.updates = {} /\ a.reverts = {}
         /\ a.reverts # {} => a.edits = {} /\ a.updates = {} /\ a.closes = {}
         /\ \A c, d \in a.closes : c = d
<1>1. /\ \A e, f \in a.edits : e.item = f.item /\ e.item # New => e = f
      /\ \A u \in a.updates : u.carrier \in a.edits
      /\ IsWrite(a) \/ a.edits = {}
      /\ a.closes = {} \/ a.reverts = {}
      /\ \A c, d \in a.closes : c = d
  BY BitemporalAssumption
<1> QED BY <1>1 DEF IsWrite

\* The form of a change by an edit.
LEMMA EditForm ==
  ASSUME TypeOK, NEW h \in Handlers, NEW now \in Instants, NEW name, NewNames(h, name),
         NEW e \in tx[h].ask.edits, e \in Edits, InOrder(e, now), NEW c,
         FromEdit(h, now, name, c, e)
  PROVE  /\ Shaped(c) /\ ~ c.live
         /\ c.until = c.end \/ e.close
         /\ c.item = e.item \/ (e.item = New /\ c.item = name[e])
<1>1. /\ c.item = IF e.item = New THEN name[e] ELSE e.item
      /\ c.start = Start(e, now) /\ c.end = End(e, now) /\ c.live = FALSE
      /\ c.until = IF e.close THEN Forever ELSE End(e, now)
  BY DEF FromEdit, EditChange, Change
<1>2. End(e, now) \in Nat /\ End(e, now) <= Forever /\ Start(e, now) \in Nat
      /\ Start(e, now) < End(e, now) /\ Forever \in Nat
  <2>1. e.from \in Instants \cup {Unset} /\ e.to \in Ends
    BY DEF Edits
  <2> QED BY <2>1, Numbers DEF InOrder, End, Start, Ends, Instants
<1> QED BY <1>1, <1>2 DEF Shaped

\* The form of a change by an update.
LEMMA UpdateForm ==
  ASSUME TypeOK, NEW h \in Handlers, NEW now \in Instants, NEW u \in Updates, NEW r, NEW c,
         FromUpdate(h, now, c, u, r)
  PROVE  /\ Shaped(c) /\ c.live /\ c.item = u.item /\ c.until = Forever
         /\ c.end = IF u.op = "mend" THEN Forever ELSE c.start
         /\ r \in Current(u.item) /\ r.vid = u.expected
         /\ r.from <= c.start /\ c.start \in Instants
<1>1. /\ c.item = u.item /\ c.start = Cut(u, r, now) /\ c.live = TRUE /\ c.until = Forever
      /\ c.end = IF u.op = "mend" THEN Forever ELSE Cut(u, r, now)
      /\ r \in rows /\ StillApplies(u, r, now)
  BY DEF FromUpdate, UpdateChange, Change
<1>2. /\ r \in Current(u.item) /\ r.vid = u.expected /\ r.from <= now
  BY <1>1 DEF StillApplies, ValidAt
<1>3. r.from \in Nat /\ now \in Nat /\ Forever \in Nat
  <2>1. r \in Rows
    BY <1>1 DEF TypeOK
  <2> QED BY <2>1, Numbers DEF Rows
<1>4. u.carrier \in Edits
  BY DEF Updates
<1>5. Cut(u, r, now) \in Instants /\ r.from <= Cut(u, r, now)
  <2>1. Start(u.carrier, now) \in Instants
    BY <1>4 DEF Start, Edits
  <2>2. Start(u.carrier, now) \in Nat
    BY <2>1, Numbers
  <2>3. CASE r.from < Start(u.carrier, now) /\ Start(u.carrier, now) <= now
    BY <1>3, <2>1, <2>2, <2>3 DEF Cut
  <2>4. CASE ~ (r.from < Start(u.carrier, now) /\ Start(u.carrier, now) <= now)
    BY <1>2, <2>4 DEF Cut
  <2> QED BY <2>3, <2>4
<1>6. Cut(u, r, now) \in Nat /\ Cut(u, r, now) < Forever
  BY <1>5, Numbers DEF Instants
<1> QED BY <1>1, <1>2, <1>3, <1>5, <1>6 DEF Shaped

\* The form of a librarian's close.
LEMMA CloseForm ==
  ASSUME NEW h, NEW k \in Closes, NEW c, FromClose(h, c, k)
  PROVE  /\ Shaped(c) /\ c.live /\ c.item = k.item /\ c.until = Forever /\ c.end = k.cut
<1>1. /\ c.item = k.item /\ c.start = k.cut /\ c.end = k.cut /\ c.until = Forever /\ c.live = TRUE
  BY DEF FromClose, Change
<1>2. k.cut \in Nat /\ k.cut < Forever /\ Forever \in Nat
  BY Numbers DEF Closes, Instants
<1> QED BY <1>1, <1>2 DEF Shaped

\* What a build finds of its transaction.
Building(h, now, name) ==
  /\ TypeOK /\ RowsInv /\ RowsFit /\ TxInv(h) /\ Fits(h) /\ tx[h].pc = "build"
  /\ now \in Instants /\ NewNames(h, name)
  /\ \A e \in tx[h].ask.edits : InOrder(e, now)

\* What a build has is of its ask, and every item it wants is an old one.
LEMMA BuildingFacts ==
  ASSUME NEW h \in Handlers, NEW now, NEW name, Building(h, now, name)
  PROVE  /\ tx[h].ask \in Asks /\ tx[h].pending \subseteq tx[h].ask.updates
         /\ tx[h].ask.edits \in SUBSET Edits /\ tx[h].ask.updates \in SUBSET Updates
         /\ tx[h].ask.closes \in SUBSET Closes
         /\ \A e \in tx[h].ask.edits : e.item = New \/ e.item < nextItem
         /\ \A u \in tx[h].pending : u.item < nextItem
         /\ \A r \in rows : r.item < nextItem
         /\ nextItem \in Nat
<1>1. tx[h].ask \in Asks /\ tx[h].pending \subseteq tx[h].ask.updates
  BY DEF Building, Fits, AskFits, Working, Locking
<1>2. /\ tx[h].ask.edits \in SUBSET Edits /\ tx[h].ask.updates \in SUBSET Updates
      /\ tx[h].ask.closes \in SUBSET Closes
  BY <1>1, AskParts
<1>3. \A i \in Items : Exists(i) => i < nextItem
  <2>1. /\ Given \in Nat /\ Given < nextItem /\ \A r \in rows : r.item < nextItem
        /\ nextItem \in Nat
    BY Numbers DEF Building, RowsInv, TypeOK
  <2>2. \A i \in Cards : i \in Nat /\ i <= Given
    BY Numbers
  <2> QED BY <2>1, <2>2 DEF Exists
<1>4. DecidedInv(h) /\ nextItem \in Nat /\ \A r \in rows : r.item < nextItem
  BY DEF Building, TxInv, RowsInv, TypeOK
<1>5. ASSUME NEW e \in tx[h].ask.edits, e.item # New PROVE e.item < nextItem
  <2>1. e.item \in Items
    BY <1>2, <1>5 DEF Edits
  <2>2. e.item \in Wanted(h)
    BY <2>1 DEF Wanted
  <2> QED BY <1>3, <1>4, <2>1, <2>2 DEF DecidedInv
<1>6. ASSUME NEW u \in tx[h].pending PROVE u.item < nextItem
  <2>1. u.item \in Items
    BY <1>1, <1>2 DEF Updates
  <2>2. u.item \in Wanted(h)
    BY <2>1 DEF Wanted
  <2> QED BY <1>3, <1>4, <2>1, <2>2 DEF DecidedInv
<1> QED BY <1>1, <1>2, <1>4, <1>5, <1>6

\* One change of an item.
LEMMA ChangesApart ==
  ASSUME NEW h \in Handlers, NEW now, NEW name, Building(h, now, name),
         NEW c \in Changes(h, now, name), NEW d \in Changes(h, now, name), c.item = d.item
  PROVE  c = d
<1>1. /\ TypeOK /\ now \in Instants /\ NewNames(h, name)
      /\ \A e \in tx[h].ask.edits : InOrder(e, now)
      /\ \A r, s \in rows : r.vid = s.vid => r = s
  BY DEF Building, RowsFit
<1>2. /\ tx[h].ask \in Asks /\ tx[h].pending \subseteq tx[h].ask.updates
      /\ tx[h].ask.edits \in SUBSET Edits /\ tx[h].ask.updates \in SUBSET Updates
      /\ tx[h].ask.closes \in SUBSET Closes
      /\ \A e \in tx[h].ask.edits : e.item = New \/ e.item < nextItem
      /\ \A u \in tx[h].pending : u.item < nextItem
      /\ nextItem \in Nat
  BY BuildingFacts
<1>3. /\ \A e, f \in tx[h].ask.edits : e.item = f.item /\ e.item # New => e = f
      /\ tx[h].ask.closes # {} => tx[h].ask.edits = {} /\ tx[h].ask.updates = {}
      /\ \A k, l \in tx[h].ask.closes : k = l
  BY <1>2, AskApart
<1>4. /\ \A u \in tx[h].pending : \A e \in tx[h].ask.edits : e.item # u.item
      /\ \A u, w \in tx[h].pending : w.item = u.item => w = u
  BY DEF Building, Fits, SeenFits
<1>5. ASSUME NEW x, NEW e, FromEdit(h, now, name, x, e)
      PROVE  /\ e \in tx[h].ask.edits
             /\ (x.item = e.item /\ e.item # New) \/ (e.item = New /\ x.item = name[e])
             /\ x.item \in Items
  <2>1. e \in tx[h].ask.edits /\ e \in Edits
    BY <1>2, <1>5 DEF FromEdit
  <2>2. x.item = IF e.item = New THEN name[e] ELSE e.item
    BY <1>5 DEF FromEdit, EditChange, Change
  <2> QED BY <1>1, <2>1, <2>2 DEF Edits, NewNames
<1>6. ASSUME NEW x, NEW u, NEW r, FromUpdate(h, now, x, u, r)
      PROVE  u \in tx[h].pending /\ x.item = u.item /\ r \in rows /\ r.vid = u.expected
  BY <1>1, <1>2, <1>6, UpdateForm DEF FromUpdate
<1>7. ASSUME NEW x, NEW k, FromClose(h, x, k) PROVE k \in tx[h].ask.closes
  BY <1>7 DEF FromClose
<1>8. \A e \in tx[h].ask.edits : e.item = New => name[e] \in Nat /\ nextItem <= name[e]
  BY <1>1, Numbers DEF NewNames
<1>9. ASSUME NEW x, NEW y, NEW e, NEW f, FromEdit(h, now, name, x, e),
             FromEdit(h, now, name, y, f), x.item = y.item
      PROVE  x = y
  <2>1. e = f
    <3>1. e.item \in Nat /\ f.item \in Nat
      BY <1>2, <1>5, <1>9, Numbers DEF Edits, New
    <3> QED BY <1>1, <1>2, <1>3, <1>5, <1>8, <1>9, <3>1 DEF NewNames
  <2> QED BY <1>9, <2>1 DEF FromEdit
<1>10. ASSUME NEW x, NEW y, NEW e, NEW u, NEW r, FromEdit(h, now, name, x, e),
              FromUpdate(h, now, y, u, r), x.item = y.item
       PROVE  FALSE
  <2>1. e.item \in Nat /\ u.item \in Nat
    BY <1>2, <1>5, <1>6, <1>10, Numbers DEF Edits, New, Updates
  <2> QED BY <1>2, <1>4, <1>5, <1>6, <1>8, <1>10, <2>1
<1>11. ASSUME NEW x, NEW y, NEW u, NEW r, NEW w, NEW s, FromUpdate(h, now, x, u, r),
              FromUpdate(h, now, y, w, s), x.item = y.item
       PROVE  x = y
  <2>1. u = w /\ r = s
    BY <1>1, <1>4, <1>6, <1>11
  <2> QED BY <1>11, <2>1 DEF FromUpdate
<1>12. ASSUME NEW x, NEW y, NEW k, NEW l, FromClose(h, x, k), FromClose(h, y, l)
       PROVE  x = y
  BY <1>3, <1>7, <1>12 DEF FromClose
<1>13. ASSUME NEW x, NEW k, FromClose(h, x, k)
       PROVE  /\ \A y, e : ~ FromEdit(h, now, name, y, e)
              /\ \A y, u, r : ~ FromUpdate(h, now, y, u, r)
  BY <1>2, <1>3, <1>7, <1>13 DEF FromEdit, FromUpdate
<1>14. /\ \/ \E e : FromEdit(h, now, name, c, e)
          \/ \E u, r : FromUpdate(h, now, c, u, r)
          \/ \E k : FromClose(h, c, k)
       /\ \/ \E e : FromEdit(h, now, name, d, e)
          \/ \E u, r : FromUpdate(h, now, d, u, r)
          \/ \E k : FromClose(h, d, k)
  BY ChangeOrigin
<1> QED BY <1>9, <1>10, <1>11, <1>12, <1>13, <1>14

-----------------------------------------------------------------------------
\* What the changes of a build meet.

\* Two current versions of an item leave each other room.
LEMMA CurrentApart ==
  ASSUME TypeOK, RowsFit, NEW i, NEW r \in Current(i), NEW s \in Current(i),
         Overlaps(r.from, r.to, s.from, s.to)
  PROVE  r = s
<1>1. r \in rows /\ s \in rows /\ r \in Rows /\ s \in Rows /\ r.item = s.item
      /\ r.sup = Forever /\ s.sup = Forever
  BY DEF Current, IsCurrent, TypeOK
<1>2. r.rec \in Nat /\ s.rec \in Nat /\ r.rec < Forever /\ s.rec < Forever /\ Forever \in Nat
  BY <1>1, Numbers DEF Rows, Instants
<1> QED BY <1>1, <1>2 DEF RowsFit, Allowed, Collides, Overlaps

\* A change meets every current version of its item that it overlaps, as the
\* decision has seen it.
LEMMA HitsMet ==
  ASSUME NEW h \in Handlers, NEW now, NEW name, Building(h, now, name),
         NEW c \in Changes(h, now, name)
  PROVE  /\ Shaped(c) /\ Met(c, Hits(c, tx[h].seen))
         /\ \A s \in Hits(c, tx[h].seen) :
              \E r \in rows : Alike(r, s) /\ IsCurrent(r) /\ r.item = c.item
         /\ \A r \in Current(c.item) : Overlaps(r.from, r.to, c.start, c.until) =>
              \E s \in Hits(c, tx[h].seen) : Alike(r, s)
<1> DEFINE seen == tx[h].seen
           H == Hits(c, seen)
<1>1. /\ TypeOK /\ now \in Instants /\ NewNames(h, name) /\ RowsFit
      /\ \A e \in tx[h].ask.edits : InOrder(e, now)
      /\ seen \in SUBSET Rows /\ rows \in SUBSET Rows
  BY DEF Building, TypeOK, Txs
<1>2. /\ tx[h].ask \in Asks /\ tx[h].pending \subseteq tx[h].ask.updates
      /\ tx[h].ask.edits \in SUBSET Edits /\ tx[h].ask.updates \in SUBSET Updates
      /\ tx[h].ask.closes \in SUBSET Closes
      /\ \A r \in rows : r.item < nextItem
      /\ nextItem \in Nat
  BY BuildingFacts
<1>3. /\ \A s, t \in seen : s.vid = t.vid => s = t
      /\ \A s \in seen : IsCurrent(s) /\ \E r \in rows : Alike(r, s)
      /\ \A e \in tx[h].ask.edits : \A r \in Current(e.item) : \E s \in seen : Alike(r, s)
  BY DEF Building, Fits, SeenFits
<1>4. /\ Shaped(c)
      /\ c.live \/ \E e \in tx[h].ask.edits : c.item = e.item \/ (e.item = New /\ c.item = name[e])
  <2>1. ASSUME NEW e, FromEdit(h, now, name, c, e)
        PROVE  /\ Shaped(c)
               /\ \E f \in tx[h].ask.edits : c.item = f.item \/ (f.item = New /\ c.item = name[f])
    <3>1. e \in tx[h].ask.edits /\ e \in Edits
      BY <1>2, <2>1 DEF FromEdit
    <3> QED BY <1>1, <2>1, <3>1, EditForm
  <2>2. ASSUME NEW u, NEW r, FromUpdate(h, now, c, u, r) PROVE Shaped(c) /\ c.live
    <3>1. u \in Updates
      BY <1>2, <2>2 DEF FromUpdate
    <3> QED BY <1>1, <2>2, <3>1, UpdateForm
  <2>3. ASSUME NEW k, FromClose(h, c, k) PROVE Shaped(c) /\ c.live
    <3>1. k \in Closes
      BY <1>2, <2>3 DEF FromClose
    <3> QED BY <2>3, <3>1, CloseForm
  <2> QED BY <2>1, <2>2, <2>3, ChangeOrigin
<1>5. ASSUME NEW s \in H PROVE s.item = c.item /\ Overlaps(s.from, s.to, c.start, c.until)
  BY DEF Hits
<1>6. CASE c.live
  <2>1. H = {r \in Current(c.item) : r.item = c.item /\ Overlaps(r.from, r.to, c.start, c.until)}
    BY <1>6 DEF Hits
  <2>2. \A r \in Current(c.item) : r \in rows /\ r.item = c.item /\ IsCurrent(r) /\ r \in Rows
    BY <1>1 DEF Current
  <2>3. \A r, s \in H : Overlaps(r.from, r.to, s.from, s.to) => r = s
    BY <1>1, <2>1, CurrentApart
  <2>4. Met(c, H)
    BY <1>1, <1>5, <2>1, <2>2, <2>3 DEF Met, RowsFit
  <2> QED BY <1>4, <2>1, <2>2, <2>4 DEF Alike, SameSpan
<1>7. CASE ~ c.live
  <2>1. H = {s \in seen : s.item = c.item /\ Overlaps(s.from, s.to, c.start, c.until)}
    BY <1>7 DEF Hits
  <2>2. ASSUME NEW s \in H
        PROVE  \E r \in rows : Alike(r, s) /\ IsCurrent(r) /\ r.item = c.item
    BY <1>3, <1>5, <2>1 DEF Alike, SameSpan, IsCurrent
  <2>3. ASSUME NEW r \in H, NEW s \in H, Overlaps(r.from, r.to, s.from, s.to)
        PROVE  r = s
    <3>1. PICK p \in rows : Alike(p, r) /\ IsCurrent(p) /\ p.item = c.item
      BY <2>2
    <3>2. PICK q \in rows : Alike(q, s) /\ IsCurrent(q) /\ q.item = c.item
      BY <2>2
    <3>3. p = q
      BY <1>1, <2>3, <3>1, <3>2, CurrentApart DEF Alike, SameSpan, Current
    <3> QED BY <1>3, <2>1, <3>1, <3>2, <3>3 DEF Alike
  <2>4. Met(c, H)
    <3>1. \A s \in H : s.from < s.to
      BY <2>2 DEF Alike, SameSpan, Building, RowsFit
    <3> QED BY <1>1, <1>5, <2>1, <2>3, <3>1 DEF Met
  <2>5. ASSUME NEW r \in Current(c.item), Overlaps(r.from, r.to, c.start, c.until)
        PROVE  \E s \in H : Alike(r, s)
    <3>1. PICK e \in tx[h].ask.edits : c.item = e.item \/ (e.item = New /\ c.item = name[e])
      BY <1>4, <1>7
    <3>2. CASE c.item = e.item
      <4>1. PICK s \in seen : Alike(r, s)
        BY <1>3, <3>2
      <4>2. s \in H
        BY <2>1, <2>5, <4>1 DEF Alike, SameSpan, Current
      <4> QED BY <4>1, <4>2
    <3>3. CASE e.item = New /\ c.item = name[e]
      <4>1. name[e] \in Nat /\ nextItem <= name[e]
        BY <1>1, <3>3, Numbers DEF NewNames
      <4>2. r \in rows /\ r.item = name[e]
        BY <3>3 DEF Current
      <4> QED BY <1>2, <4>1, <4>2
    <3> QED BY <3>1, <3>2, <3>3
  <2> QED BY <1>4, <2>2, <2>4, <2>5
<1> QED BY <1>6, <1>7

\* What falls out of an item that a change met is what its ask closes.
LEMMA FallsOutClosed ==
  ASSUME NEW h \in Handlers, NEW now, NEW name, Building(h, now, name),
         NEW c \in Changes(h, now, name), NEW t \in Nat, c.end <= t, t < c.until,
         NEW r \in rows, r.item = c.item
  PROVE  Closed(tx[h].ask, c.item, t)
<1>1. /\ TypeOK /\ now \in Instants /\ NewNames(h, name) /\ RowsFit
      /\ \A e \in tx[h].ask.edits : InOrder(e, now)
  BY DEF Building
<1>2. /\ tx[h].ask \in Asks /\ tx[h].pending \subseteq tx[h].ask.updates
      /\ tx[h].ask.edits \in SUBSET Edits /\ tx[h].ask.updates \in SUBSET Updates
      /\ tx[h].ask.closes \in SUBSET Closes
      /\ \A s \in rows : s.item < nextItem
      /\ nextItem \in Nat
  BY BuildingFacts
<1>3. ASSUME NEW e, FromEdit(h, now, name, c, e) PROVE Closed(tx[h].ask, c.item, t)
  <2>1. e \in tx[h].ask.edits /\ e \in Edits
    BY <1>2, <1>3 DEF FromEdit
  <2>2. (c.until = c.end \/ e.close) /\ (c.item = e.item \/ (e.item = New /\ c.item = name[e]))
    BY <1>1, <1>3, <2>1, EditForm
  <2>3. e.close
    <3>1. c.until # c.end
      <4>1. c \in Changed
        BY <1>1, ChangesFacts DEF Building, NewNames
      <4>2. c.until \in Nat /\ c.end \in Nat
        BY <4>1, Numbers DEF Changed
      <4> QED BY <4>2
    <3> QED BY <2>2, <3>1
  <2>4. ~ (e.item = New /\ c.item = name[e])
    <3> SUFFICES ASSUME e.item = New, c.item = name[e] PROVE FALSE
      OBVIOUS
    <3>1. name[e] \in Nat /\ nextItem <= name[e]
      BY <1>1, <2>1, Numbers DEF NewNames
    <3> QED BY <1>2, <3>1
  <2> QED BY <2>1, <2>2, <2>3, <2>4 DEF Closed
<1>4. ASSUME NEW u, NEW s, FromUpdate(h, now, c, u, s) PROVE Closed(tx[h].ask, c.item, t)
  <2>1. u \in Updates /\ u \in tx[h].ask.updates
    BY <1>2, <1>4 DEF FromUpdate
  <2>2. c.item = u.item /\ c.until = Forever /\ c.end = IF u.op = "mend" THEN Forever ELSE c.start
    BY <1>1, <1>4, <2>1, UpdateForm
  <2>3. u.op = "end"
    BY <2>1, <2>2, Numbers DEF Updates
  <2> QED BY <2>1, <2>2, <2>3 DEF Closed
<1>5. ASSUME NEW k, FromClose(h, c, k) PROVE Closed(tx[h].ask, c.item, t)
  <2>1. k \in Closes /\ k \in tx[h].ask.closes
    BY <1>2, <1>5 DEF FromClose
  <2>2. c.item = k.item /\ c.end = k.cut
    BY <1>5, <2>1, CloseForm
  <2> QED BY <2>1, <2>2 DEF Closed
<1> QED BY <1>3, <1>4, <1>5, ChangeOrigin

\* An update stays within the version it was for: it is open, and the change
\* starts in it.
LEMMA UpdateWithin ==
  ASSUME NEW h \in Handlers, NEW now, NEW name, Building(h, now, name),
         NEW c \in Changes(h, now, name),
         \E u \in tx[h].ask.updates : u.item = c.item,
         \A e \in tx[h].ask.edits : e.item # c.item,
         NEW s \in Hits(c, tx[h].seen)
  PROVE  /\ s.to = Forever /\ s.from <= c.start /\ c.until = Forever
         /\ c.start < c.end => c.end = Forever
         /\ \A q \in Hits(c, tx[h].seen) : q = s
<1>1. /\ TypeOK /\ now \in Instants /\ NewNames(h, name) /\ RowsFit
      /\ \A e \in tx[h].ask.edits : InOrder(e, now)
  BY DEF Building
<1>2. /\ tx[h].ask \in Asks /\ tx[h].pending \subseteq tx[h].ask.updates
      /\ tx[h].ask.edits \in SUBSET Edits /\ tx[h].ask.updates \in SUBSET Updates
      /\ tx[h].ask.closes \in SUBSET Closes
      /\ \A r \in rows : r.item < nextItem
      /\ nextItem \in Nat
  BY BuildingFacts
<1>3. PICK p \in rows : Alike(p, s) /\ IsCurrent(p) /\ p.item = c.item
  BY HitsMet
<1>4. ASSUME NEW e, FromEdit(h, now, name, c, e) PROVE FALSE
  <2>1. e \in tx[h].ask.edits /\ e \in Edits
    BY <1>2, <1>4 DEF FromEdit
  <2>2. e.item = New /\ c.item = name[e]
    BY <1>1, <1>4, <2>1, EditForm
  <2>3. name[e] \in Nat /\ nextItem <= name[e]
    BY <1>1, <2>1, <2>2, Numbers DEF NewNames
  <2> QED BY <1>2, <1>3, <2>2, <2>3
<1>5. ASSUME NEW k, FromClose(h, c, k) PROVE FALSE
  <2>1. k \in tx[h].ask.closes
    BY <1>5 DEF FromClose
  <2> QED BY <1>2, <2>1, AskApart
<1>6. PICK u : \E r : FromUpdate(h, now, c, u, r)
  BY <1>4, <1>5, ChangeOrigin
<1>7. PICK r : FromUpdate(h, now, c, u, r)
  BY <1>6
<1>8. u \in Updates /\ u \in tx[h].pending /\ r \in rows
  BY <1>2, <1>7 DEF FromUpdate
<1>9. /\ Shaped(c) /\ c.live /\ c.item = u.item /\ c.until = Forever
      /\ c.end = IF u.op = "mend" THEN Forever ELSE c.start
      /\ r \in Current(u.item) /\ r.vid = u.expected
      /\ r.from <= c.start /\ c.start \in Instants
  BY <1>1, <1>7, <1>8, UpdateForm
<1>10. r.to = Forever
  <2>1. PICK q \in rows : q.vid = u.expected /\ q.to = Forever
    BY <1>8 DEF Building, Fits, SeenFits
  <2> QED BY <1>1, <1>8, <1>9, <2>1 DEF RowsFit
<1>11. ASSUME NEW q \in Hits(c, tx[h].seen) PROVE q = r
  <2>1. q \in Current(c.item) /\ Overlaps(q.from, q.to, c.start, Forever)
    BY <1>9, <1>11 DEF Hits
  <2>2. q \in Rows /\ r \in Rows /\ c.start \in Nat
    BY <1>1, <1>8, <1>9, <2>1, Numbers DEF TypeOK, Current
  <2>3. q.from \in Nat /\ q.to \in Nat /\ r.from \in Nat /\ Forever \in Nat
    BY <2>2, Numbers DEF Rows
  <2>4. Overlaps(q.from, q.to, r.from, r.to)
    BY <1>9, <1>10, <2>1, <2>2, <2>3 DEF Overlaps
  <2> QED BY <1>1, <1>9, <2>1, <2>4, CurrentApart
<1>12. c.start < c.end => c.end = Forever
  <2>1. c.start \in Nat /\ ~ (c.start < c.start)
    BY <1>9, Numbers
  <2> QED BY <1>9, <2>1
<1> QED BY <1>9, <1>10, <1>11, <1>12

-----------------------------------------------------------------------------
\* What a write or a close plans.

\* A plan's rows, its closed rows and its instant, and what they leave room for.
PlanParts(D, H) ==
  /\ D \in SUBSET Drafted /\ IsFiniteSet(D) /\ Roomy(D)
  /\ \A s \in H : \E r \in rows : Alike(r, s) /\ IsCurrent(r)
  /\ \A d \in D, r \in rows :
       r.item = d.item /\ IsCurrent(r) /\ (\A s \in H : s.vid # r.vid)
       => ~ Overlaps(r.from, r.to, d.from, d.to)

\* The drafts of all changes.
LEMMA WriteParts ==
  ASSUME NEW h \in Handlers, NEW now, NEW name, Building(h, now, name),
         NEW D, D = Drafts(Changes(h, now, name), tx[h].seen),
         NEW H, H = UNION {Hits(c, tx[h].seen) : c \in Changes(h, now, name)}
  PROVE  PlanParts(D, H)
<1> DEFINE C == Changes(h, now, name)
           seen == tx[h].seen
<1>1. /\ TypeOK /\ RowsInv /\ TxInv(h) /\ RowsFit /\ tx[h].pc = "build"
      /\ C \in SUBSET Changed /\ IsFiniteSet(C)
      /\ \A c \in C : c.live => c.item \in Wanted(h)
  BY ChangesFacts DEF Building, NewNames
<1>2. D \in SUBSET Drafted /\ IsFiniteSet(D)
  BY <1>1, DraftsFacts
<1>3. \A d : d \in D <=> \E c \in C : d \in Parts(c, seen)
  BY DEF Drafts, Parts
<1>4. ASSUME NEW c \in C
      PROVE  /\ Shaped(c) /\ Met(c, Hits(c, seen))
             /\ \A s \in Hits(c, seen) :
                  \E r \in rows : Alike(r, s) /\ IsCurrent(r) /\ r.item = c.item
             /\ \A r \in Current(c.item) : Overlaps(r.from, r.to, c.start, c.until) =>
                  \E s \in Hits(c, seen) : Alike(r, s)
  BY HitsMet
<1>5. ASSUME NEW c \in C
      PROVE  /\ Roomy(Parts(c, seen))
             /\ \A d \in Parts(c, seen) :
                  /\ d.item = c.item
                  /\ \/ /\ d.base # None
                        /\ \E r \in Hits(c, seen) : r.from <= d.from /\ d.to <= r.to
                     \/ /\ d.base = None
                        /\ d.from = c.start /\ d.to = c.end /\ c.start < c.end
  BY <1>1, <1>4, ChangeParts
<1>6. \A c, d \in C : c.item = d.item => c = d
  BY ChangesApart
<1>7. Roomy(D)
  BY <1>3, <1>5, <1>6 DEF Roomy
<1>8. ASSUME NEW s \in H PROVE \E r \in rows : Alike(r, s) /\ IsCurrent(r)
  BY <1>4
<1>9. ASSUME NEW d \in D, NEW r \in rows, r.item = d.item, IsCurrent(r), \A s \in H : s.vid # r.vid
      PROVE  ~ Overlaps(r.from, r.to, d.from, d.to)
  <2>1. PICK c \in C : d \in Parts(c, seen)
    BY <1>3
  <2>2. r \in Current(c.item) /\ \A s \in Hits(c, seen) : s \in H
    BY <1>5, <1>9, <2>1 DEF Current
  <2>3. ~ Overlaps(r.from, r.to, c.start, c.until)
    BY <1>4, <1>9, <2>2 DEF Alike
  <2>4. /\ r.from \in Nat /\ r.to \in Nat /\ d.from \in Nat /\ d.to \in Nat
        /\ c.start \in Nat /\ c.end \in Nat /\ c.until \in Nat
    <3>1. r \in Rows /\ d \in Drafted /\ c \in Changed
      BY <1>1, <1>2 DEF TypeOK
    <3> QED BY <3>1, Numbers DEF Rows, Drafted, Changed
  <2>5. CASE d.from = c.start /\ d.to = c.end
    BY <1>4, <2>3, <2>4, <2>5 DEF Overlaps, Shaped
  <2>6. ASSUME NEW s \in Hits(c, seen), s.from <= d.from, d.to <= s.to
        PROVE  ~ Overlaps(r.from, r.to, d.from, d.to)
    <3>1. PICK q \in rows : Alike(q, s) /\ IsCurrent(q) /\ q.item = c.item
      BY <1>4
    <3>2. q # r /\ q \in Current(c.item)
      BY <1>9, <2>2, <3>1 DEF Alike, Current
    <3>3. ~ Overlaps(r.from, r.to, q.from, q.to)
      BY <1>1, <2>2, <3>2, CurrentApart
    <3>4. q.from = s.from /\ q.to = s.to /\ q.from \in Nat /\ q.to \in Nat
      <4>1. q \in Rows
        BY <1>1 DEF TypeOK
      <4> QED BY <3>1, <4>1, Numbers DEF Rows, Alike, SameSpan
    <3> QED BY <2>4, <2>6, <3>3, <3>4 DEF Overlaps
  <2> QED BY <1>5, <2>1, <2>5, <2>6
<1> QED BY <1>2, <1>7, <1>8, <1>9 DEF PlanParts

\* The rows of a plan cover what its drafts cover.
LEMMA NumberedCover ==
  ASSUME TypeOK, NEW D \in SUBSET Drafted, IsFiniteSet(D), Roomy(D), NEW i, NEW t
  PROVE  Covered(Numbered(D), i, t) <=> Covered(D, i, t)
<1>1. /\ \A n \in Numbered(D) : \E d \in D : SameSpan(n, d)
      /\ \A d \in D : \E n \in Numbered(D) : SameSpan(n, d)
  BY NumberedApart
<1> QED BY <1>1 DEF Covered, SameSpan

\* Valid time is kept by a write and by a close, but for what they close.
LEMMA WriteKeeps ==
  ASSUME NEW h \in Handlers, NEW now, NEW name, Building(h, now, name),
         NEW D, D = Drafts(Changes(h, now, name), tx[h].seen),
         NEW H, H = UNION {Hits(c, tx[h].seen) : c \in Changes(h, now, name)},
         NEW x, x.ask = tx[h].ask, x.plan.closed = {r.vid : r \in H},
         x.plan.added = Numbered(D), x.ask.reverts = {}
  PROVE  Keeps(x)
<1> DEFINE C == Changes(h, now, name)
           seen == tx[h].seen
<1>1. /\ TypeOK /\ RowsInv /\ TxInv(h) /\ RowsFit /\ tx[h].pc = "build" /\ C \in SUBSET Changed
      /\ PlanParts(D, H)
  BY WriteParts, ChangesFacts DEF Building, NewNames
<1>2. \A d : d \in D <=> \E c \in C : d \in Parts(c, seen)
  BY DEF Drafts, Parts
<1>3. ASSUME NEW c \in C
      PROVE  /\ Shaped(c) /\ Met(c, Hits(c, seen))
             /\ \A s \in Hits(c, seen) :
                  \E r \in rows : Alike(r, s) /\ IsCurrent(r) /\ r.item = c.item
  BY HitsMet
<1>4. ASSUME NEW c \in C
      PROVE  /\ \A d \in Parts(c, seen) :
                  /\ d.item = c.item
                  /\ \/ /\ d.base # None
                        /\ \E r \in Hits(c, seen) : r.from <= d.from /\ d.to <= r.to
                     \/ /\ d.base = None
                        /\ d.from = c.start /\ d.to = c.end /\ c.start < c.end
             /\ \A r \in Hits(c, seen), t \in Nat : r.from <= t /\ t < r.to =>
                  \/ \E d \in Parts(c, seen) : d.from <= t /\ t < d.to
                  \/ c.end <= t /\ t < c.until
  BY <1>1, <1>3, ChangeParts
<1>5. \A i, t : Covered(x.plan.added, i, t) <=> Covered(D, i, t)
  BY <1>1, NumberedCover DEF PlanParts
<1>6. ASSUME NEW i, NEW t, Covered(ClosedBy(x.plan), i, t)
      PROVE  \E c \in C : \E s \in Hits(c, seen) :
               c.item = i /\ s.from <= t /\ t < s.to /\ \E r \in rows : r.item = c.item
  <2>1. PICK r \in rows : r.vid \in x.plan.closed /\ r.item = i /\ r.from <= t /\ t < r.to
    BY <1>6 DEF Covered, ClosedBy
  <2>2. PICK c \in C : \E s \in Hits(c, seen) : s.vid = r.vid
    BY <2>1
  <2>3. PICK s \in Hits(c, seen) : s.vid = r.vid
    BY <2>2
  <2>4. PICK q \in rows : Alike(q, s) /\ IsCurrent(q) /\ q.item = c.item
    BY <1>3
  <2>5. q = r
    BY <1>1, <2>3, <2>4 DEF RowsFit, Alike
  <2> QED BY <2>1, <2>3, <2>4, <2>5 DEF Alike, SameSpan
<1>7. ASSUME NEW i \in Items, NEW t \in Instants, Covered(ClosedBy(x.plan), i, t)
      PROVE  Covered(x.plan.added, i, t) \/ Closed(x.ask, i, t)
  <2>0. t \in Nat
    BY Numbers
  <2>1. PICK c \in C : \E s \in Hits(c, seen) :
               c.item = i /\ s.from <= t /\ t < s.to /\ \E r \in rows : r.item = c.item
    BY <1>6, <1>7
  <2>2. CASE \E d \in Parts(c, seen) : d.from <= t /\ t < d.to
    BY <1>2, <1>4, <1>5, <2>1, <2>2 DEF Covered
  <2>3. CASE c.end <= t /\ t < c.until
    BY <2>0, <2>1, <2>3, FallsOutClosed
  <2> QED BY <1>4, <2>0, <2>1, <2>2, <2>3
<1>8. ASSUME NEW i \in Items, NEW t \in Instants, Updated(x, i)
      PROVE  /\ Covered(x.plan.added, i, t) => Covered(ClosedBy(x.plan), i, t)
             /\ Mended(x.plan, i) /\ Covered(ClosedBy(x.plan), i, t) => Covered(x.plan.added, i, t)
  <2>0. t \in Nat /\ t < Forever
    BY Numbers DEF Instants
  <2>1. /\ \E u \in tx[h].ask.updates : u.item = i
        /\ \A e \in tx[h].ask.edits : e.item # i
        /\ \E r \in rows : r.item = i /\ r.vid \in x.plan.closed
    BY <1>8 DEF Updated
  <2>2. PICK r \in rows : r.item = i /\ r.vid \in x.plan.closed
    BY <2>1
  <2>3. PICK c \in C : \E s \in Hits(c, seen) : s.vid = r.vid
    BY <2>2
  <2>4. PICK s \in Hits(c, seen) : s.vid = r.vid
    BY <2>3
  <2>5. PICK q \in rows : Alike(q, s) /\ IsCurrent(q) /\ q.item = c.item
    BY <1>3
  <2>6. q = r /\ c.item = i
    BY <1>1, <2>2, <2>4, <2>5 DEF RowsFit, Alike
  <2>7. /\ s.to = Forever /\ s.from <= c.start /\ c.until = Forever
        /\ c.start < c.end => c.end = Forever
        /\ \A n \in Hits(c, seen) : n = s
    BY <2>1, <2>4, <2>6, UpdateWithin
  <2>8. /\ r.from = s.from /\ r.to = Forever /\ r.from \in Nat
        /\ c.start \in Nat /\ c.end \in Nat /\ c.end <= Forever
    <3>1. r \in Rows /\ c \in Changed
      BY <1>1 DEF TypeOK
    <3>2. c.end \in Ends /\ c.start \in Nat /\ r.from \in Nat
      BY <3>1, Numbers DEF Changed, Rows
    <3>3. c.end \in Nat /\ c.end <= Forever
      BY <3>2, Numbers DEF Ends
    <3>4. r.from = s.from /\ r.to = s.to
      BY <2>5, <2>6 DEF Alike, SameSpan
    <3> QED BY <2>7, <3>2, <3>3, <3>4
  <2>9. ASSUME Covered(D, i, t) PROVE Covered(ClosedBy(x.plan), i, t)
    <3>1. PICK d \in D : d.item = i /\ d.from <= t /\ t < d.to
      BY <2>9 DEF Covered
    <3>2. PICK k \in C : d \in Parts(k, seen)
      BY <1>2
    <3>3. k = c
      BY <1>4, <2>6, <3>1, <3>2, ChangesApart
    <3>4. d.from \in Nat /\ d.to \in Nat
      <4>1. d \in Drafted
        BY <1>1 DEF PlanParts
      <4> QED BY <4>1, Numbers DEF Drafted
    <3>5. r.from <= t /\ t < r.to
      BY <1>4, <2>0, <2>7, <2>8, <3>1, <3>2, <3>3, <3>4
    <3> QED BY <2>2, <3>5 DEF Covered, ClosedBy
  <2>10. ASSUME Mended(x.plan, i), Covered(ClosedBy(x.plan), i, t) PROVE Covered(D, i, t)
    <3>1. PICK n \in Numbered(D) : n.item = i /\ n.base = None
      BY <2>10 DEF Mended
    <3>2. PICK d \in D : SameSpan(n, d) /\ n.base = d.base
      BY <1>1, NumberedApart DEF PlanParts
    <3>3. PICK k \in C : d \in Parts(k, seen)
      BY <1>2
    <3>4. k = c
      BY <1>4, <2>6, <3>1, <3>2, <3>3, ChangesApart DEF SameSpan
    <3>5. c.start < c.end
      BY <1>4, <3>1, <3>2, <3>3, <3>4
    <3>6. PICK m \in C : \E o \in Hits(m, seen) : m.item = i /\ o.from <= t /\ t < o.to
      BY <1>6, <2>10
    <3>7. m = c
      BY <2>6, <3>6, ChangesApart
    <3>8. PICK o \in Hits(c, seen) : o.from <= t /\ t < o.to
      BY <3>6, <3>7
    <3>9. \E e \in Parts(c, seen) : e.from <= t /\ t < e.to
      BY <1>4, <2>0, <2>7, <2>8, <3>5, <3>8
    <3> QED BY <1>2, <1>4, <2>6, <3>9 DEF Covered
  <2> QED BY <1>5, <2>9, <2>10
<1> QED BY <1>7, <1>8 DEF Keeps

-----------------------------------------------------------------------------
\* What a reversal plans.

\* The version that stands for another has its interval.
LEMMA StandingSpan ==
  ASSUME TypeOK, RowsFit, \A v \in events : v.kind # "access" => EventFits(v),
         NEW r \in rows, r.vid <= nextVersion, NEW w \in rows, w.vid = Standing(r.vid)
  PROVE  SameSpan(r, w)
<1> DEFINE N == nextVersion
           Bad == {n \in 0 .. N : \E p, q \in rows :
                     p.vid = n /\ q.vid = Standing(n) /\ ~ SameSpan(p, q)}
<1>1. N \in Nat /\ rows \in SUBSET Rows /\ r.vid \in 0 .. N
  BY DEF TypeOK, Rows
<1>2. \A p, q \in rows : p.vid = q.vid => p = q
  BY DEF RowsFit
<1>3. ASSUME Bad # {} PROVE FALSE
  <2>1. Bad \in SUBSET Nat /\ IsFiniteSet(Bad)
    <3>1. IsFiniteSet(0 .. N) /\ Bad \in SUBSET (0 .. N)
      BY <1>1, FS_Interval
    <3> QED BY <1>1, <3>1, FS_Subset
  <2>2. PICK n \in Bad : \A k \in Bad : k <= n
    <3> HIDE DEF Bad
    <3> QED BY <1>3, <2>1, LargestNatural
  <2>3. PICK p \in rows : \E q \in rows : p.vid = n /\ q.vid = Standing(n) /\ ~ SameSpan(p, q)
    OBVIOUS
  <2>4. PICK q \in rows : p.vid = n /\ q.vid = Standing(n) /\ ~ SameSpan(p, q)
    BY <2>3
  <2>5. n \in 0 .. N /\ q.vid # None /\ p # q
    BY <1>1, <2>4 DEF Rows, None, SameSpan
  <2>6. /\ (\E s \in rows : s.vid = n /\ IsCurrent(s)) => Standing(n) = n
        /\ ~ (\E s \in rows : s.vid = n /\ IsCurrent(s)) =>
             \/ Standing(n) = None
             \/ \E c \in Later(n) : Standing(n) = Standing(c)
    BY <2>5, StandingIs
  <2>7. PICK c \in Later(n) : Standing(n) = Standing(c)
    BY <1>2, <2>4, <2>5, <2>6
  <2>8. c \in 0 .. N /\ n < c
    BY LaterFacts
  <2>9. PICK v \in events : v.kind = "reversal" /\ \E d \in v.plan.added : d.base = n /\ c = d.vid
    BY <2>7 DEF Later, Copies
  <2>10. PICK d \in v.plan.added : d.base = n /\ c = d.vid
    BY <2>9
  <2>11. EventFits(v) /\ v.ask.reverts # {}
    <3>1. EventFits(v)
      BY <2>9
    <3> QED BY <2>9, <3>1 DEF EventFits, Kind, IsWrite
  <2>12. PICK s \in rows : s.vid = c /\ SameSpan(s, d)
    BY <2>10, <2>11 DEF EventFits
  <2>13. PICK o \in rows : o.vid = n /\ SameSpan(o, d)
    BY <2>10, <2>11 DEF EventFits, Keeps
  <2>14. o = p
    BY <1>2, <2>4, <2>13
  <2>15. ~ SameSpan(s, q) /\ q.vid = Standing(c)
    BY <2>4, <2>7, <2>12, <2>13, <2>14 DEF SameSpan
  <2>16. c \in Bad
    BY <2>8, <2>12, <2>15
  <2>17. c <= n
    <3> HIDE DEF Bad
    <3> QED BY <2>2, <2>16
  <2> QED BY <1>1, <2>5, <2>8, <2>17
<1>4. r.vid \notin Bad
  BY <1>3
<1> QED BY <1>1, <1>4

\* What a reversal finds: its ask changes nothing else, and the write it takes
\* back is committed.
Undoing(h, u, v) ==
  /\ u = tx[h].undo /\ tx[h].ask.reverts # {} /\ Undoable(u)
  /\ v \in events /\ v.kind = "write" /\ v.plan = u.plan /\ Updated(v, u.item)
  /\ \A w \in events : w.kind # "access" => EventFits(w)

\* What the update left of an interval is in the table, and a current version
\* with that interval stands for it.
LEMMA LeftStands ==
  ASSUME NEW h \in Handlers, TypeOK, RowsInv, RowsFit, NEW u, NEW v, Undoing(h, u, v),
         NEW d \in u.plan.added, d.item = u.item
  PROVE  /\ Mended(u.plan, u.item) => \E w \in Withdrawn(u) : w.vid = Standing(d.vid) /\ SameSpan(w, d)
         /\ ~ Mended(u.plan, u.item) => \E w \in Withdrawn(u) : w.vid = d.vid /\ SameSpan(w, d)
<1>1. d.vid \in Left(u)
  BY DEF Left
<1>2. EventFits(v) /\ v.plan = u.plan
  BY DEF Undoing
<1>3. PICK q \in rows : q.vid = d.vid /\ SameSpan(q, d)
  BY <1>2 DEF EventFits
<1>4. \A w \in Withdrawn(u) : w \in rows
  BY DEF Withdrawn, Current
<1>5. CASE Mended(u.plan, u.item)
  <2>1. Standing(d.vid) \in Standings(u)
    BY <1>1, <1>5 DEF Standings
  <2>2. PICK w \in Withdrawn(u) : w.vid = Standing(d.vid)
    BY <2>1 DEF Undoing, Undoable
  <2>3. q.vid <= nextVersion
    BY DEF RowsInv, TypeOK, Rows
  <2>4. SameSpan(q, w)
    BY <1>3, <1>4, <2>2, <2>3, StandingSpan DEF Undoing
  <2> QED BY <1>3, <1>5, <2>2, <2>4 DEF SameSpan
<1>6. CASE ~ Mended(u.plan, u.item)
  <2>1. d.vid \in Standings(u)
    BY <1>1, <1>6 DEF Standings
  <2>2. PICK w \in Withdrawn(u) : w.vid = d.vid
    BY <2>1 DEF Undoing, Undoable
  <2>3. w = q
    BY <1>3, <1>4, <2>2 DEF RowsFit
  <2> QED BY <1>3, <1>6, <2>2, <2>3
<1> QED BY <1>5, <1>6

\* What the reversal takes back, the update left.
LEMMA WithdrawnLeft ==
  ASSUME NEW h \in Handlers, TypeOK, RowsInv, RowsFit, NEW u, NEW v, Undoing(h, u, v),
         NEW w \in Withdrawn(u)
  PROVE  \E d \in u.plan.added : d.item = u.item /\ SameSpan(w, d)
<1>1. w \in rows /\ w.item = u.item /\ w.vid \in Standings(u)
  BY DEF Withdrawn, Current
<1>2. \A x \in Withdrawn(u) : x \in rows
  BY DEF Withdrawn, Current
<1>3. PICK d \in u.plan.added : /\ d.item = u.item
                                /\ w.vid = IF Mended(u.plan, u.item) THEN Standing(d.vid) ELSE d.vid
  BY <1>1 DEF Standings, Left
<1>4. PICK x \in Withdrawn(u) : x.vid = w.vid /\ SameSpan(x, d)
  BY <1>3, LeftStands
<1>5. x = w
  BY <1>1, <1>2, <1>4 DEF RowsFit
<1> QED BY <1>3, <1>4, <1>5

\* The drafts of a reversal.
LEMMA ReversalParts ==
  ASSUME NEW h \in Handlers, TypeOK, RowsInv, RowsFit, TxInv(h), tx[h].pc = "build",
         NEW u, NEW v, Undoing(h, u, v)
  PROVE  /\ PlanParts(Restored(u), Withdrawn(u))
         /\ \A d \in Restored(u) : \E r \in rows : r.vid = d.base /\ SameSpan(r, d)
         /\ \A i, t : Covered(Restored(u), i, t) <=> i = u.item /\ Covered(ClosedBy(u.plan), i, t)
<1> DEFINE old == {s \in rows : s.item = u.item /\ s.vid \in u.plan.closed}
           D == Restored(u)
           p == u.plan
<1>1. EventFits(v) /\ v.plan = p /\ Updated(v, u.item) /\ Undoable(u) /\ u = tx[h].undo /\ v \in Events
  BY DEF Undoing, TypeOK
<1>2. /\ \A d \in D : \E s \in old : SameSpan(s, d) /\ d.base = s.vid
      /\ \A s \in old : \E d \in D : SameSpan(s, d) /\ d.base = s.vid
      /\ \A d, e \in D : d.base = e.base /\ SameSpan(d, e) => d = e
  <2> DEFINE copy(s) == [item |-> s.item, from |-> s.from, to |-> s.to, base |-> s.vid,
                         live |-> TRUE, access |-> 0]
  <2>1. D = {copy(s) : s \in old}
    BY DEF Restored
  <2>2. \A s : SameSpan(s, copy(s)) /\ copy(s).base = s.vid
    BY DEF SameSpan
  <2>3. \A d \in D : d = [item |-> d.item, from |-> d.from, to |-> d.to, base |-> d.base,
                          live |-> TRUE, access |-> 0]
    BY <2>1
  <2> HIDE DEF copy
  <2>4. \A d, e \in D : d.base = e.base /\ SameSpan(d, e) => d = e
    BY <2>3 DEF SameSpan
  <2> QED BY <2>1, <2>2, <2>4
<1>3. ASSUME NEW s \in old
      PROVE  /\ s \in rows /\ s.item = u.item /\ s.vid \in p.closed
             /\ s.sup = p.at /\ s.rec < p.at /\ s.rec \in Nat /\ s.from < s.to
             /\ s.from \in Nat /\ s.to \in Nat /\ s.vid # None /\ s.from \in Instants
  <2>1. s \in rows /\ s.item = u.item /\ s.vid \in p.closed /\ s \in Rows
    BY DEF TypeOK
  <2>2. PICK r \in rows : r.vid = s.vid /\ r.sup = p.at
    BY <1>1, <2>1 DEF EventFits
  <2>3. s.sup = p.at
    BY <2>1, <2>2 DEF RowsFit
  <2>4. s.rec \in Nat /\ s.from \in Nat /\ s.to \in Nat /\ s.vid # None /\ s.from \in Instants
    BY <2>1, Numbers DEF Rows, None
  <2> QED BY <2>1, <2>3, <2>4 DEF RowsFit, Allowed
<1>4. ASSUME NEW r \in old, NEW s \in old, Overlaps(r.from, r.to, s.from, s.to) PROVE r = s
  BY <1>3, <1>4 DEF RowsFit, Allowed, Collides, Overlaps
<1>5. D \in SUBSET Drafted /\ IsFiniteSet(D)
  BY <1>1, UndoFacts
<1>6. \A d \in D : d.item = u.item /\ d.from < d.to /\ d.base # None
  BY <1>2, <1>3 DEF SameSpan
<1>7. ASSUME NEW d \in D, NEW e \in D, Overlaps(d.from, d.to, e.from, e.to) PROVE d = e
  <2>1. PICK r \in old : SameSpan(r, d) /\ d.base = r.vid
    BY <1>2
  <2>2. PICK s \in old : SameSpan(s, e) /\ e.base = s.vid
    BY <1>2
  <2>3. r = s
    BY <1>4, <1>7, <2>1, <2>2 DEF SameSpan
  <2> QED BY <1>2, <2>1, <2>2, <2>3 DEF SameSpan
<1>8. Roomy(D)
  BY <1>6, <1>7 DEF Roomy
<1>9. \A s \in Withdrawn(u) : s \in rows /\ IsCurrent(s) /\ s.item = u.item
  BY DEF Withdrawn, Current
<1>10. \A s \in Withdrawn(u) : \E r \in rows : Alike(r, s) /\ IsCurrent(r)
  BY <1>9 DEF Alike, SameSpan
<1>11. ASSUME NEW d \in D, NEW r \in rows, r.item = d.item, IsCurrent(r),
              \A s \in Withdrawn(u) : s.vid # r.vid
       PROVE  ~ Overlaps(r.from, r.to, d.from, d.to)
  <2>1. PICK s \in old : SameSpan(s, d)
    BY <1>2
  <2>2. r \in Current(u.item) \ Withdrawn(u) /\ r \in Rows
    BY <1>6, <1>11 DEF Current, TypeOK
  <2>3. /\ r.from \in Nat /\ r.to \in Nat /\ r.rec \in Nat /\ Forever \in Nat /\ r.sup = Forever
        /\ r.from \in Instants
    BY <1>11, <2>2, Numbers DEF Rows, IsCurrent
  <2>4. p.at \in Nat /\ p.at < Forever
    BY <1>1, Numbers DEF Events, Plans, Instants
  <2>5. CASE ~ Mended(p, u.item)
    <3>1. r.rec < p.at
      BY <1>1, <2>2, <2>5 DEF Undoable
    <3>2. r # s
      BY <1>3, <2>3, <2>4
    <3>3. ~ Collides(r, s)
      BY <1>3, <2>2, <3>2 DEF RowsFit, Allowed
    <3>4. Overlaps(r.rec, r.sup, s.rec, s.sup)
      BY <1>3, <2>3, <2>4, <3>1 DEF Overlaps
    <3> QED BY <1>3, <1>11, <2>1, <2>2, <3>3, <3>4 DEF Collides, SameSpan
  <2>6. CASE Mended(p, u.item)
    <3> SUFFICES ASSUME Overlaps(r.from, r.to, d.from, d.to) PROVE FALSE
      OBVIOUS
    <3>1. PICK t \in Instants : r.from <= t /\ t < r.to /\ s.from <= t /\ t < s.to
      <4>0. r.from < s.to /\ s.from < r.to /\ r.from < r.to /\ s.from < s.to
        BY <1>3, <1>11, <2>1 DEF Overlaps, SameSpan, RowsFit
      <4>1. CASE r.from <= s.from
        BY <1>3, <2>3, <4>0, <4>1
      <4>2. CASE s.from <= r.from
        BY <1>3, <2>3, <4>0, <4>2
      <4> QED BY <1>3, <2>3, <4>1, <4>2
    <3>2. u.item \in Items
      BY <1>3 DEF TypeOK, Rows
    <3>3. Covered(ClosedBy(p), u.item, t)
      BY <1>3, <3>1 DEF Covered, ClosedBy
    <3>4. Keeps(v) /\ Mended(v.plan, u.item) /\ Covered(ClosedBy(v.plan), u.item, t) /\ Updated(v, u.item)
      BY <1>1, <2>6, <3>3 DEF EventFits
    <3>5. Covered(v.plan.added, u.item, t)
      BY <3>2, <3>4 DEF Keeps
    <3>6. PICK e \in p.added : e.item = u.item /\ e.from <= t /\ t < e.to
      BY <1>1, <3>5 DEF Covered
    <3>7. PICK w \in Withdrawn(u) : SameSpan(w, e)
      BY <2>6, <3>6, LeftStands
    <3>8. w \in Current(u.item) /\ w.from <= t /\ t < w.to
      BY <3>6, <3>7 DEF Withdrawn, SameSpan
    <3>9. w.from \in Nat /\ w.to \in Nat /\ t \in Nat
      <4>1. w \in Rows
        BY <3>8 DEF Current, TypeOK
      <4> QED BY <4>1, Numbers DEF Rows
    <3>10. Overlaps(w.from, w.to, r.from, r.to)
      BY <2>3, <3>1, <3>8, <3>9 DEF Overlaps
    <3>11. w = r
      BY <2>2, <3>8, <3>10, CurrentApart
    <3> QED BY <1>11, <3>11
  <2> QED BY <2>5, <2>6
<1>12. PlanParts(D, Withdrawn(u))
  BY <1>5, <1>8, <1>10, <1>11 DEF PlanParts
<1>13. \A d \in D : \E r \in rows : r.vid = d.base /\ SameSpan(r, d)
  BY <1>2, <1>3
<1>14. ASSUME NEW i, NEW t
       PROVE  Covered(D, i, t) <=> i = u.item /\ Covered(ClosedBy(p), i, t)
  <2>1. Covered(D, i, t) <=> Covered(old, i, t)
    BY <1>2 DEF Covered, SameSpan
  <2>2. Covered(old, i, t) <=> i = u.item /\ Covered(ClosedBy(p), i, t)
    BY DEF Covered, ClosedBy
  <2> QED BY <2>1, <2>2
<1> QED BY <1>12, <1>13, <1>14

\* A reversal keeps valid time: where the update left something, there was
\* something before.
LEMMA ReversalKeeps ==
  ASSUME NEW h \in Handlers, TypeOK, RowsInv, RowsFit, TxInv(h), tx[h].pc = "build",
         NEW u, NEW v, Undoing(h, u, v), tx[h].ask \in Asks,
         NEW x, x.ask = tx[h].ask, x.plan.closed = {r.vid : r \in Withdrawn(u)},
         x.plan.added = Numbered(Restored(u))
  PROVE  Keeps(x)
<1> DEFINE D == Restored(u)
<1>1. /\ PlanParts(D, Withdrawn(u))
      /\ \A d \in D : \E r \in rows : r.vid = d.base /\ SameSpan(r, d)
      /\ \A i, t : Covered(D, i, t) <=> i = u.item /\ Covered(ClosedBy(u.plan), i, t)
  BY ReversalParts
<1>2. EventFits(v) /\ v.plan = u.plan /\ Updated(v, u.item)
  BY DEF Undoing
<1>3. \A i, t : Covered(x.plan.added, i, t) <=> Covered(D, i, t)
  BY <1>1, NumberedCover DEF PlanParts
<1>4. ASSUME NEW i \in Items, NEW t \in Instants, Covered(ClosedBy(x.plan), i, t)
      PROVE  Covered(x.plan.added, i, t)
  <2>1. PICK r \in rows : r.vid \in x.plan.closed /\ r.item = i /\ r.from <= t /\ t < r.to
    BY <1>4 DEF Covered, ClosedBy
  <2>2. PICK w \in Withdrawn(u) : w.vid = r.vid
    BY <2>1
  <2>3. w = r /\ r.item = u.item
    BY <2>1, <2>2 DEF RowsFit, Withdrawn, Current
  <2>4. PICK d \in u.plan.added : d.item = u.item /\ SameSpan(w, d)
    BY WithdrawnLeft
  <2>5. Covered(v.plan.added, u.item, t) /\ u.item \in Items
    BY <1>2, <1>4, <2>1, <2>3, <2>4 DEF Covered, SameSpan
  <2>6. Covered(ClosedBy(v.plan), u.item, t)
    BY <1>2, <2>5 DEF EventFits, Keeps
  <2> QED BY <1>1, <1>2, <1>3, <2>1, <2>3, <2>6
<1>5. \A i \in Items : ~ Updated(x, i)
  <2>1. tx[h].ask.updates = {}
    BY AskApart DEF Undoing
  <2> QED BY <2>1 DEF Updated
<1>6. ASSUME NEW n \in x.plan.added PROVE \E r \in rows : r.vid = n.base /\ SameSpan(r, n)
  <2>1. PICK d \in D : SameSpan(n, d) /\ n.base = d.base
    BY <1>1, NumberedApart DEF PlanParts
  <2> QED BY <1>1, <2>1 DEF SameSpan
<1> QED BY <1>4, <1>5, <1>6 DEF Keeps

\* What a build writes and what it closes.
DraftsOf(h, now, name) == Drafts(Changes(h, now, name), tx[h].seen) \cup Restored(tx[h].undo)

MetBy(h, now, name) ==
  Withdrawn(tx[h].undo) \cup UNION {Hits(c, tx[h].seen) : c \in Changes(h, now, name)}

Ids(S) == {r.vid : r \in S}

\* A build is of a write or a close, whose changes it plans, or of a reversal,
\* whose versions it restores.
LEMMA BuildForm ==
  ASSUME NEW h \in Handlers, NEW now, NEW name, Building(h, now, name),
         \A w \in events : w.kind # "access" => EventFits(w),
         tx[h].ask.reverts # {} => Undoable(tx[h].undo)
  PROVE  \/ /\ tx[h].ask.reverts = {}
            /\ DraftsOf(h, now, name) = Drafts(Changes(h, now, name), tx[h].seen)
            /\ MetBy(h, now, name) = UNION {Hits(c, tx[h].seen) : c \in Changes(h, now, name)}
         \/ /\ tx[h].ask.reverts # {} /\ tx[h].ask.updates = {}
            /\ DraftsOf(h, now, name) = Restored(tx[h].undo)
            /\ MetBy(h, now, name) = Withdrawn(tx[h].undo)
            /\ \E v : Undoing(h, tx[h].undo, v)
<1>1. /\ TypeOK /\ RowsInv /\ RowsFit /\ TxInv(h) /\ tx[h].pc = "build" /\ AskFits(h)
      /\ tx[h].ask \in Asks
  BY BuildingFacts DEF Building, Fits
<1>2. CASE tx[h].ask.reverts = {}
  <2>1. tx[h].undo = NoUndo
    BY <1>1, <1>2 DEF AskFits, Working, Locking
  <2>2. NoUndo.item = 0 /\ NoUndo.plan.closed = {}
    BY DEF NoUndo, NoPlan, New
  <2>3. Restored(tx[h].undo) = {}
    BY <2>1, <2>2 DEF Restored
  <2>4. Withdrawn(tx[h].undo) = {}
    <3>1. \A r \in rows : r.item # 0
      BY <1>1, Numbers DEF TypeOK, Rows
    <3> QED BY <2>1, <2>2, <3>1 DEF Withdrawn, Current
  <2> QED BY <1>2, <2>3, <2>4 DEF DraftsOf, MetBy
<1>3. CASE tx[h].ask.reverts # {}
  <2>1. PICK v \in events : /\ v.kind = "write" /\ v.plan = tx[h].undo.plan
                            /\ Updated(v, tx[h].undo.item)
    BY <1>1, <1>3 DEF AskFits, Working, Locking
  <2>2. Undoing(h, tx[h].undo, v)
    BY <1>3, <2>1 DEF Undoing
  <2>3. tx[h].ask.edits = {} /\ tx[h].ask.updates = {} /\ tx[h].ask.closes = {}
        /\ tx[h].pending = {}
    BY <1>1, <1>3, AskApart DEF AskFits, Working, Locking
  <2>4. Changes(h, now, name) = {}
    BY <2>3 DEF Changes
  <2>5. /\ DraftsOf(h, now, name) = Restored(tx[h].undo)
        /\ MetBy(h, now, name) = Withdrawn(tx[h].undo)
    BY <2>4 DEF Drafts, DraftsOf, MetBy
  <2> QED BY <1>3, <2>2, <2>3, <2>5
<1> QED BY <1>2, <1>3

\* What any build plans: drafts that have room, and that keep valid time.
LEMMA BuildParts ==
  ASSUME NEW h \in Handlers, NEW now, NEW name, Building(h, now, name),
         \A w \in events : w.kind # "access" => EventFits(w),
         tx[h].ask.reverts # {} => Undoable(tx[h].undo),
         NEW D, D = DraftsOf(h, now, name), NEW H, H = MetBy(h, now, name),
         NEW x, x.ask = tx[h].ask, x.plan.closed = Ids(H), x.plan.added = Numbered(D)
  PROVE  PlanParts(D, H) /\ Keeps(x)
<1>1. TypeOK /\ RowsInv /\ RowsFit /\ TxInv(h) /\ tx[h].pc = "build" /\ tx[h].ask \in Asks
  BY BuildingFacts DEF Building, Fits
<1>2. CASE tx[h].ask.reverts = {}
  <2>1. /\ D = Drafts(Changes(h, now, name), tx[h].seen)
        /\ H = UNION {Hits(c, tx[h].seen) : c \in Changes(h, now, name)}
    BY <1>2, BuildForm
  <2>2. PlanParts(D, H)
    BY <2>1, WriteParts
  <2> HIDE DEF Building
  <2>3. Keeps(x)
    BY <1>2, <2>1, WriteKeeps DEF Ids
  <2> QED BY <2>2, <2>3
<1>3. CASE tx[h].ask.reverts # {}
  <2>1. PICK u : u = tx[h].undo
    OBVIOUS
  <2>2. D = Restored(u) /\ H = Withdrawn(u) /\ \E v : Undoing(h, u, v)
    BY <1>3, <2>1, BuildForm
  <2>3. PICK v : Undoing(h, u, v)
    BY <2>2
  <2>4. PlanParts(D, H)
    BY <1>1, <2>2, <2>3, ReversalParts
  <2>5. Keeps(x)
    BY <1>1, <2>2, <2>3, ReversalKeeps DEF Ids
  <2> QED BY <2>4, <2>5
<1> QED BY <1>2, <1>3

\* What is planned fits: it has room, it keeps valid time, and its instant is
\* past every instant of what it supersedes.
LEMMA BuildFit ==
  ASSUME IInv, IInv', FitInv, NEW h \in Handlers, Build(h)
  PROVE  FitInv'
<1> DEFINE a == tx[h].ask
           now == clock + 1
           created == {e \in a.edits : e.item = New}
<1>1. /\ TypeOK /\ TypeOK' /\ tx \in [Handlers -> Txs] /\ tx[h] \in Txs /\ TxInv(h) /\ RowsInv
      /\ clock \in Nat /\ RowsFit /\ Fits(h) /\ ClockFits
      /\ \A w \in events : w.kind # "access" => EventFits(w)
  BY DEF IInv, TypeOK, FitInv, Fits
<1>2. /\ tx[h].pc = "build" /\ clock' = now /\ UNCHANGED <<rows, events, reader, setBacks>>
      /\ \/ Reply(h, "temporal", 0) \/ Reply(h, "authorityLost", 0)
            \/ Reply(h, "versionConflict", 0)
         \/ /\ \A e \in a.edits : InOrder(e, now)
            /\ a.reverts # {} => Undoable(tx[h].undo)
            /\ Planned(h, now)
  BY DEF Build
<1>3. now \in Nat /\ clock <= clock' /\ clock' \in Nat
  BY <1>1, <1>2
<1>4. CASE Reply(h, "temporal", 0) \/ Reply(h, "authorityLost", 0) \/ Reply(h, "versionConflict", 0)
  BY <1>2, <1>3, <1>4, RefusedFit
<1>5. CASE /\ \A e \in a.edits : InOrder(e, now)
           /\ a.reverts # {} => Undoable(tx[h].undo)
           /\ Planned(h, now)
  <2>1. PICK name \in [created -> nextItem .. nextItem + Cardinality(created) - 1] :
          LET u    == tx[h].undo
              C    == Changes(h, now, name)
              D    == Drafts(C, tx[h].seen) \cup Restored(u)
              hits == Withdrawn(u) \cup UNION {Hits(c, tx[h].seen) : c \in C}
          IN
          /\ \A e, f \in created : e # f => name[e] # name[f]
          /\ \A e \in created : name[e] \in Items
          /\ \E t \in Instants :
               /\ SelectT(t, now, {r.rec : r \in hits} \cup {u.plan.at})
               /\ tx' = [tx EXCEPT ![h] =
                    [pc |-> "store", ask |-> tx[h].ask, pending |-> {}, undo |-> u,
                     held |-> tx[h].held, seen |-> {},
                     plan |-> [event |-> NewEvent, at |-> t, closed |-> {r.vid : r \in hits},
                               added |-> Numbered(D)],
                     reply |-> "none", answer |-> 0]]
    BY <1>5 DEF Planned
  <2>2. PICK C : C = Changes(h, now, name)
    OBVIOUS
  <2>u. PICK u : u = tx[h].undo
    OBVIOUS
  <2>3. PICK D : D = Drafts(C, tx[h].seen) \cup Restored(u)
    OBVIOUS
  <2>4. PICK H : H = Withdrawn(u) \cup UNION {Hits(c, tx[h].seen) : c \in C}
    OBVIOUS
  <2>5. PICK t \in Instants :
          /\ SelectT(t, now, {r.rec : r \in H} \cup {u.plan.at})
          /\ tx' = [tx EXCEPT ![h] =
               [pc |-> "store", ask |-> tx[h].ask, pending |-> {}, undo |-> u,
                held |-> tx[h].held, seen |-> {},
                plan |-> [event |-> NewEvent, at |-> t, closed |-> {r.vid : r \in H},
                          added |-> Numbered(D)],
                reply |-> "none", answer |-> 0]]
    BY <2>1, <2>2, <2>u, <2>3, <2>4
  <2>6. PICK p : p = [event |-> NewEvent, at |-> t, closed |-> {r.vid : r \in H},
                      added |-> Numbered(D)]
    OBVIOUS
  <2>7. PICK x : x = [pc |-> "store", ask |-> tx[h].ask, pending |-> {}, undo |-> u,
                      held |-> tx[h].held, seen |-> {}, plan |-> p, reply |-> "none", answer |-> 0]
    OBVIOUS
  <2>8. tx' = [tx EXCEPT ![h] = x]
    BY <2>5, <2>6, <2>7
  <2>9. /\ x.pc = "store" /\ x.ask = a /\ x.pending = {} /\ x.plan = p /\ x.reply = "none"
        /\ x.undo = u /\ p.at = t /\ p.closed = {r.vid : r \in H} /\ p.added = Numbered(D)
    BY <2>6, <2>7
  <2>10. tx'[h] = x /\ \A g \in Handlers \ {h} : tx'[g] = tx[g]
    BY <1>1, <2>8, TxUpdate
  <2>11. now \in Instants
    BY <1>3, <2>5, Numbers DEF SelectT, Instants
  <2>12. NewNames(h, name)
    <3>1. nextItem \in Nat
      BY <1>1 DEF TypeOK
    <3>2. \A e \in created : nextItem <= name[e]
      BY <2>1, <3>1
    <3> QED BY <2>1, <3>2 DEF NewNames
  <2>13. Building(h, now, name)
    BY <1>1, <1>2, <1>5, <2>11, <2>12 DEF Building
  <2>14. PlanParts(D, H) /\ Keeps(x)
    <3>0. tx[h].ask.reverts # {} => Undoable(tx[h].undo)
      BY <1>5
    <3>1. /\ D = DraftsOf(h, now, name) /\ H = MetBy(h, now, name)
          /\ x.ask = tx[h].ask /\ x.plan.closed = Ids(H) /\ x.plan.added = Numbered(D)
      BY <2>2, <2>u, <2>3, <2>4, <2>9 DEF DraftsOf, MetBy, Ids
    <3>2. \A w \in events : w.kind # "access" => EventFits(w)
      BY <1>1
    <3>3. Building(h, now, name)
      BY <2>13
    <3> HIDE DEF now, a, created
    <3> QED BY <3>0, <3>1, <3>2, <3>3, BuildParts
  <2>15. /\ t \in Nat /\ now <= t
         /\ \A s \in H : s.rec + 1 =< t
         /\ t = now \/ (\E s \in H : t = s.rec + 1) \/ t = u.plan.at + 1
    BY <2>5, Numbers DEF SelectT
  <2>16. ASSUME NEW s \in H
         PROVE  \E r \in rows : Alike(r, s) /\ IsCurrent(r) /\ r.rec \in Nat /\ r.rec = s.rec
    <3>1. PICK r \in rows : Alike(r, s) /\ IsCurrent(r)
      BY <2>14 DEF PlanParts
    <3>2. r \in Rows
      BY <1>1 DEF TypeOK
    <3> QED BY <3>1, <3>2, Numbers DEF Rows, Alike
  <2>17. AskFits(h)'
    <3>1. AskFits(h)
      BY <1>1 DEF Fits
    <3>2. /\ a \in Asks
          /\ IF a.reverts = {} THEN u = NoUndo
             ELSE \E v \in events : /\ v.kind = "write" /\ v.plan = u.plan
                                    /\ Updated(v, u.item)
          /\ IsWrite(a) => Prior(a) = {}
      BY <1>2, <2>u, <3>1 DEF AskFits, Working, Locking
    <3>3. \A v : Updated(v, tx[h].undo.item)' <=> Updated(v, u.item)
      BY <1>2, <2>9, <2>10 DEF Updated
    <3>4. IsWrite(a) => Prior(tx[h].ask)' = {}
      BY <1>2, <2>9, <2>10, <3>2 DEF Prior
    <3> QED BY <1>2, <2>9, <2>10, <3>2, <3>3, <3>4 DEF AskFits
  <2>18. SeenFits(h)'
    BY <2>9, <2>10 DEF SeenFits
  <2>19. ASSUME NEW n \in p.closed
         PROVE  \E r \in rows : r.vid = n /\ IsCurrent(r) /\ r.rec < t
    <3>1. PICK s \in H : s.vid = n
      BY <2>9
    <3>2. PICK r \in rows : Alike(r, s) /\ IsCurrent(r) /\ r.rec \in Nat /\ r.rec = s.rec
      BY <2>16
    <3> QED BY <2>15, <3>1, <3>2 DEF Alike
  <2>20. /\ \A n \in p.added : \E d \in D : SameSpan(n, d)
         /\ \A n \in p.added : n.from < n.to
         /\ \A m, n \in p.added :
              m.vid = n.vid \/ (m.item = n.item /\ Overlaps(m.from, m.to, n.from, n.to)) => m = n
    BY <1>1, <2>9, <2>14, NumberedApart DEF PlanParts
  <2>21. ASSUME NEW n \in p.added, NEW r \in rows, r.item = n.item
         PROVE  /\ IsCurrent(r) /\ r.vid \notin p.closed => ~ Overlaps(r.from, r.to, n.from, n.to)
                /\ setBacks = 0 => IsCurrent(r) \/ r.sup =< t
    <3>1. PICK d \in D : SameSpan(n, d)
      BY <2>20
    <3>2. IsCurrent(r) /\ r.vid \notin p.closed => ~ Overlaps(r.from, r.to, n.from, n.to)
      BY <2>9, <2>14, <2>21, <3>1 DEF PlanParts, SameSpan
    <3>3. r.sup \in Nat
      <4>1. r \in Rows
        BY <1>1 DEF TypeOK
      <4> QED BY <4>1, Numbers DEF Rows
    <3>4. setBacks = 0 /\ ~ IsCurrent(r) => r.sup =< clock
      BY <1>1 DEF ClockFits
    <3> QED BY <1>1, <2>15, <3>2, <3>3, <3>4
  <2>22. Keeps(tx[h])'
    <3>1. RowsLast /\ RowsFit'
      BY <1>1, <1>2, RowsSame DEF RowsFit
    <3>2. \A n \in x.plan.closed : \E r \in rows : r.vid = n
      BY <2>9, <2>19
    <3>3. Keeps(x)'
      BY <2>14, <3>1, <3>2, KeepsStays
    <3> QED BY <2>10, <3>3, KeepsOfTx
  <2>23. PlanFits(h)'
    BY <1>2, <2>9, <2>10, <2>19, <2>20, <2>21, <2>22 DEF PlanFits, IsCurrent
  <2>24. ASSUME NEW g \in Handlers \ {h} PROVE KeysApart(g, h)'
    <3>1. KeysApart(g, h) /\ tx'[g] = tx[g]
      BY <2>10 DEF FitInv
    <3> QED BY <1>2, <2>9, <2>10, <3>1 DEF KeysApart, Locking
  <2>25. setBacks = 0 => t <= clock'
    <3> SUFFICES ASSUME setBacks = 0 PROVE t <= now
      BY <1>2
    <3>1. \A s \in H : s.rec \in Nat /\ s.rec <= clock
      BY <1>1, <2>16 DEF ClockFits
    <3>2. u.plan.at \in Nat /\ u.plan.at <= clock
      <4>1. u.plan \in Plans
        BY <1>1, <2>u DEF Txs
      <4>2. u.plan.at \in Nat
        BY <4>1, Numbers DEF Plans
      <4>3. CASE a.reverts = {}
        <5>1. u = NoUndo
          BY <1>1, <1>2, <2>u, <4>3 DEF Fits, AskFits, Working, Locking
        <5>2. u.plan.at = 0
          BY <5>1 DEF NoUndo, NoPlan
        <5> QED BY <1>1, <5>2
      <4>4. CASE a.reverts # {}
        <5>1. PICK v \in events : v.kind = "write" /\ v.plan = u.plan
          BY <1>1, <1>2, <2>u, <4>4 DEF Fits, AskFits, Working, Locking
        <5> QED BY <1>1, <4>2, <5>1 DEF ClockFits
      <4> QED BY <4>3, <4>4
    <3> QED BY <1>1, <2>15, <3>1, <3>2
  <2> QED BY <1>2, <1>3, <2>9, <2>10, <2>17, <2>18, <2>23, <2>24, <2>25, OneMovesFit DEF Fits
<1> QED BY <1>2, <1>4, <1>5

-----------------------------------------------------------------------------

\* The first table is one open version of each item.
LEMMA InitFit ==
  ASSUME Init
  PROVE  FitInv
<1>1. \A h \in Handlers : tx[h] = NoTx
  BY DEF Init
<1>2. /\ \A r, s \in rows : r.item = s.item \/ r.vid = s.vid => r = s
      /\ \A r \in rows : r.from = 0 /\ r.to = Forever /\ r.rec = 0 /\ r.sup = Forever
  BY DEF Init
<1>3. Forever \in Nat /\ 0 < Forever
  BY Numbers
<1>4. RowsFit
  BY <1>2, <1>3 DEF RowsFit, Allowed, Collides
<1>5. \A h \in Handlers : AskFits(h) /\ SeenFits(h) /\ PlanFits(h)
  BY <1>1 DEF AskFits, SeenFits, PlanFits, NoTx, Working, Locking
<1>6. \A g, h \in Handlers : KeysApart(g, h)
  BY <1>1 DEF KeysApart, NoTx, Locking
<1>7. ClockFits
  BY <1>1, <1>2 DEF Init, ClockFits, IsCurrent, NoTx
<1>8. NothingLeftToConstraints
  BY <1>1 DEF NothingLeftToConstraints, NoTx
<1> QED BY <1>4, <1>5, <1>6, <1>7, <1>8 DEF Init, FitInv

\* Every step keeps intervals, clock readings and plans fitting.
LEMMA NextFit ==
  ASSUME IInv, IInv', FitInv, [Next]_vars
  PROVE  FitInv'
<1>1. ASSUME NEW h \in Handlers, NEW a \in Asks, Begin(h, a) PROVE FitInv'
  BY <1>1, BeginFit
<1>2. ASSUME NEW h \in Handlers, NEW a \in Asks, BeginReversal(h, a) PROVE FitInv'
  BY <1>2, BeginReversalFit
<1>3. ASSUME NEW h \in Handlers, LockRequest(h) PROVE FitInv'
  BY <1>3, LockRequestFit
<1>4. ASSUME NEW h \in Handlers, NEW i \in Items, LockItem(h, i) PROVE FitInv'
  BY <1>4, LockItemFit
<1>5. ASSUME NEW h \in Handlers, Decide(h) PROVE FitInv'
  BY <1>5, DecideFit
<1>6. ASSUME NEW h \in Handlers, Build(h) PROVE FitInv'
  BY <1>6, BuildFit
<1>7. ASSUME NEW h \in Handlers, Store(h) PROVE FitInv'
  BY <1>7, StoreFit
<1>8. ASSUME NEW h \in Handlers, Rollback(h) PROVE FitInv'
  BY <1>8, RollbackFit
<1>9. ASSUME NEW r \in rows, OpenRead(r) PROVE FitInv'
  BY <1>9, OpenReadFit
<1>10. ASSUME NEW x \in reader, CloseRead(x) PROVE FitInv'
  BY <1>10, CloseReadFit
<1>11. CASE StepBack
  BY <1>11, StepBackFit
<1>12. CASE UNCHANGED vars
  BY <1>12, StutterFit
<1> QED BY <1>1, <1>2, <1>3, <1>4, <1>5, <1>6, <1>7, <1>8, <1>9, <1>10, <1>11, <1>12 DEF Next

(* The intervals, the clock readings and the plans of open transactions    *)
(* fit each other after every step, though a plan is stored long after it  *)
(* was made (temporal.py:67-138, write_service.py:868-1242).               *)
THEOREM FitInvariance == Spec => []FitInv
<1>1. Init => FitInv
  BY InitFit
<1>2. IInv /\ IInv' /\ FitInv /\ [Next]_vars => FitInv'
  BY NextFit
<1> QED BY <1>1, <1>2, Invariance, PTL DEF Spec

(* While the clock goes forward, the locks leave nothing for the           *)
(* constraints of memory_versions and events to catch: no transaction dies *)
(* of them, whatever the others do (write_service.py:1242).                *)
THEOREM ConstraintsIdle == Spec => []NothingLeftToConstraints
<1>1. FitInv => NothingLeftToConstraints
  BY DEF FitInv
<1> QED BY <1>1, FitInvariance, PTL

\* A commit closes versions only where it adds others or was asked to close.
LEMMA CommitLoses ==
  ASSUME IInv, FitInv, NEW h \in Handlers, Store(h), tx'[h].reply = "done",
         NEW i \in Items, NEW v \in Instants, ValidAt(Current(i), v) # {}
  PROVE  ValidAt(Current(i)', v) # {} \/ Closed(tx[h].ask, i, v)
<1>1. PICK p : p = tx[h].plan
  OBVIOUS
<1>2. TypeOK /\ p \in Plans /\ tx[h].pc = "store" /\ tx \in [Handlers -> Txs]
  BY <1>1 DEF IInv, TypeOK, Txs, Store
<1>3. rows' = Applied(p, rows)
  <2>1. CASE Reply(h, Outcome(tx[h].ask, p), 0) /\ Outcome(tx[h].ask, p) # "done"
    BY <1>2, <2>1 DEF Reply, Ended
  <2> QED BY <1>1, <2>1 DEF Store
<1>4. Keeps(tx[h])
  BY <1>2 DEF FitInv, PlanFits
<1>5. PICK r \in rows : r.item = i /\ IsCurrent(r) /\ r.from =< v /\ v < r.to
  BY DEF ValidAt, Current
<1>6. PICK R : R = rows'
  OBVIOUS
<1>7. /\ \A q \in rows \ Closing(p, rows) : q \in R
      /\ \A d \in p.added : \E s \in R :
           d.vid = s.vid /\ SameSpan(d, s) /\ s.rec = p.at /\ s.sup = Forever
  BY <1>2, <1>3, <1>6, AppliedForms
<1>8. ASSUME NEW s \in R, s.item = i, s.sup = Forever, s.from =< v, v < s.to
      PROVE  ValidAt(Current(i)', v) # {}
  BY <1>6, <1>8 DEF ValidAt, Current, IsCurrent
<1>9. CASE r \notin Closing(p, rows)
  BY <1>5, <1>7, <1>8, <1>9 DEF IsCurrent
<1>10. CASE r \in Closing(p, rows)
  <2>1. Covered(ClosedBy(tx[h].plan), i, v)
    BY <1>1, <1>5, <1>10 DEF Covered, ClosedBy, Closing
  <2>2. Covered(tx[h].plan.added, i, v) \/ Closed(tx[h].ask, i, v)
    BY <1>4, <2>1 DEF Keeps
  <2>3. ASSUME NEW d \in p.added, d.item = i, d.from =< v, v < d.to
        PROVE  ValidAt(Current(i)', v) # {}
    <3>1. PICK s \in R : SameSpan(d, s) /\ s.sup = Forever
      BY <1>7
    <3> QED BY <1>8, <2>3, <3>1 DEF SameSpan
  <2> QED BY <1>1, <2>2, <2>3 DEF Covered
<1> QED BY <1>9, <1>10

(* Valid time is never lost by accident: an instant that had a current     *)
(* version has one after every commit that did not close the fact there,   *)
(* though the rows were read long before they were written                 *)
(* (write_service.py:900-912).                                             *)
THEOREM NothingLost == Spec => NothingFallsOut
<1> DEFINE A == \A h \in Handlers, i \in Items, v \in Instants :
                  Commits(h) /\ ValidAt(Current(i), v) # {}
                  => ValidAt(Current(i)', v) # {} \/ Closed(tx[h].ask, i, v)
<1>1. IInv /\ FitInv /\ [Next]_vars => A
  <2> SUFFICES ASSUME IInv, FitInv, [Next]_vars, NEW h \in Handlers, NEW i \in Items,
                      NEW v \in Instants, Commits(h), ValidAt(Current(i), v) # {}
               PROVE  ValidAt(Current(i)', v) # {} \/ Closed(tx[h].ask, i, v)
    OBVIOUS
  <2>1. Store(h) /\ tx'[h].reply = "done"
    BY CommitStores DEF Commits
  <2> QED BY <2>1, CommitLoses
<1>2. NothingFallsOut <=> [][A]_vars
  BY DEF NothingFallsOut
<1> HIDE DEF A
<1> QED BY <1>1, <1>2, Invariance, FitInvariance, PTL DEF Spec

-----------------------------------------------------------------------------
\* What readers are told, and what a commit makes of it.

\* Row r is what a reader at k is shown of item i at v.
Shown(r, i, k, v) == Holds(r, i, v) /\ r.rec =< k /\ k < r.sup

\* What table R tells a reader at k of item i at v.
Told(R, i, k, v) ==
  IF \A r \in R : ~ Shown(r, i, k, v) THEN None
  ELSE (CHOOSE r \in {s \in R : Shown(s, i, k, v)} : TRUE).body

\* What is believed is what the table tells.
LEMMA BeliefForm ==
  /\ Belief = [i \in Items |-> [k \in Instants |-> [v \in Instants |-> Told(rows, i, k, v)]]]
  /\ Belief' = [i \in Items |-> [k \in Instants |-> [v \in Instants |-> Told(rows', i, k, v)]]]
<1> DEFINE S(R, i, k, v) == {s \in R : Shown(s, i, k, v)}
<1>1. \A R, i, k, v : (\A r \in R : ~ Shown(r, i, k, v)) <=> S(R, i, k, v) = {}
  OBVIOUS
<1>2. \A i, k, v : /\ ValidAt(KnownOf(i, k), v) = S(rows, i, k, v)
                   /\ ValidAt(KnownOf(i, k), v)' = S(rows', i, k, v)
  BY DEF ValidAt, KnownOf, Shown, Holds
<1>3. \A R, i, k, v : Told(R, i, k, v) = IF S(R, i, k, v) = {} THEN None
                                         ELSE (CHOOSE r \in S(R, i, k, v) : TRUE).body
  BY <1>1 DEF Told
<1> HIDE DEF S
<1>4. Belief = [i \in Items |-> [k \in Instants |-> [v \in Instants |-> Told(rows, i, k, v)]]]
  BY <1>2, <1>3 DEF Belief
<1>5. Belief' = [i \in Items |-> [k \in Instants |-> [v \in Instants |-> Told(rows', i, k, v)]]]
  BY <1>2, <1>3 DEF Belief
<1> QED BY <1>4, <1>5

\* In an allowed table at most one row is shown, and it is what is told.
LEMMA ToldIs ==
  ASSUME NEW R \in SUBSET Rows, Allowed(R), NEW i, NEW k \in Instants, NEW v \in Instants
  PROVE  /\ \A r, s \in R : Shown(r, i, k, v) /\ Shown(s, i, k, v) => r = s
         /\ \A r \in R : Shown(r, i, k, v) => Told(R, i, k, v) = r.body
         /\ (\A r \in R : ~ Shown(r, i, k, v)) => Told(R, i, k, v) = None
<1>1. ASSUME NEW r \in R, NEW s \in R, Shown(r, i, k, v), Shown(s, i, k, v)
      PROVE  r = s
  <2>1. k \in Nat /\ v \in Nat
    BY Numbers
  <2>2. /\ r.rec \in Nat /\ r.sup \in Nat /\ r.from \in Nat /\ r.to \in Nat
        /\ s.rec \in Nat /\ s.sup \in Nat /\ s.from \in Nat /\ s.to \in Nat
    BY Numbers DEF Rows
  <2>3. Collides(r, s)
    BY <1>1, <2>1, <2>2 DEF Collides, Overlaps, Shown, Holds
  <2> QED BY <2>3 DEF Allowed
<1>2. ASSUME NEW r \in R, Shown(r, i, k, v) PROVE Told(R, i, k, v) = r.body
  <2> DEFINE S == {s \in R : Shown(s, i, k, v)}
  <2>1. S = {r}
    BY <1>1, <1>2
  <2>2. Told(R, i, k, v) = (CHOOSE s \in S : TRUE).body
    BY <1>2 DEF Told
  <2> HIDE DEF S
  <2> QED BY <2>1, <2>2
<1> QED BY <1>1, <1>2 DEF Told

\* What a commit makes of one row.
Passes(p, R) ==
  /\ \A r \in rows : r \notin Closing(p, rows) => r \in R
  /\ \A r \in Closing(p, rows) : [r EXCEPT !.sup = p.at] \in R
  /\ \A d \in p.added : Written(d, p.at, rows) \in R
  /\ \A s \in R : \/ s \in rows /\ s \notin Closing(p, rows)
                  \/ \E r \in Closing(p, rows) : s = [r EXCEPT !.sup = p.at]
                  \/ \E d \in p.added : s = Written(d, p.at, rows)

\* A commit makes that of the rows.
LEMMA AppliedPasses ==
  ASSUME NEW p
  PROVE  Passes(p, Applied(p, rows))
BY DEF Applied, Passes, Closing

\* What a commit finds: its plan p makes the table R of it.
Committing(p, R) ==
  /\ TypeOK /\ RowsFit /\ p \in Plans /\ AllFound(p, rows)
  /\ R \in SUBSET Rows /\ Passes(p, R) /\ Allowed(R)
  /\ \A n \in p.closed : \E r \in rows : r.vid = n /\ IsCurrent(r) /\ r.rec < p.at
  /\ \A d \in p.added : \A r \in rows : r.vid # d.vid

\* What a reader at k is told afterwards of item i at v.
After(p, R, i, k, v) ==
  /\ k < p.at => Told(R, i, k, v) = Told(rows, i, k, v)
  /\ p.at =< k =>
       /\ \A d \in p.added : Holds(d, i, v) => Told(R, i, k, v) = Written(d, p.at, rows).body
       /\ (\A d \in p.added : ~ Holds(d, i, v)) =>
            /\ \A r \in rows : r.vid \notin p.closed /\ Shown(r, i, k, v) => Told(R, i, k, v) = r.body
            /\ (\A r \in rows : r.vid \notin p.closed => ~ Shown(r, i, k, v)) => Told(R, i, k, v) = None
       /\ \A r \in rows : r.vid \in p.closed /\ Holds(r, i, v) =>
            Told(rows, i, k, v) = r.body /\ p.at > 0 /\ Told(rows, i, p.at - 1, v) = r.body
       /\ \A d \in p.added, r \in rows : Holds(d, i, v) /\ Shown(r, i, k, v) => r.vid \in p.closed
       /\ \A r \in rows : Shown(r, i, k, v) => Told(rows, i, k, v) = r.body
       /\ (\A r \in rows : ~ Shown(r, i, k, v)) => Told(rows, i, k, v) = None

\* A commit tells afterwards what its plan adds and what it leaves open.
LEMMA ToldAfter ==
  ASSUME NEW p, NEW R, Committing(p, R), NEW i, NEW k \in Instants, NEW v \in Instants
  PROVE  After(p, R, i, k, v)
<1>0. /\ TypeOK /\ RowsFit /\ p \in Plans /\ AllFound(p, rows)
      /\ R \in SUBSET Rows /\ Passes(p, R) /\ Allowed(R)
      /\ \A n \in p.closed : \E r \in rows : r.vid = n /\ IsCurrent(r) /\ r.rec < p.at
      /\ \A d \in p.added : \A r \in rows : r.vid # d.vid
  BY DEF Committing
<1>1. /\ rows \in SUBSET Rows /\ Allowed(rows) /\ k \in Nat /\ v \in Nat /\ p.at \in Nat /\ p.at \in Instants
      /\ Forever \in Nat /\ p.at < Forever /\ k < Forever
  BY <1>0, Numbers DEF TypeOK, RowsFit, Plans, Instants
<1>2. \A r \in rows : /\ r.rec \in Nat /\ r.sup \in Nat /\ r.from \in Nat /\ r.to \in Nat
  BY <1>1, Numbers DEF Rows
<1>3. \A r \in rows : r.vid \in p.closed => r \in Closing(p, rows) /\ r.sup = Forever /\ r.rec < p.at
  BY <1>0 DEF RowsFit, Closing, IsCurrent
<1>4. \A r \in Closing(p, rows) : r \in rows /\ r.vid \in p.closed
  BY DEF Closing
<1>5. ASSUME NEW r \in Closing(p, rows), NEW s, s = [r EXCEPT !.sup = p.at]
      PROVE  /\ Holds(s, i, v) <=> Holds(r, i, v)
             /\ s.rec = r.rec /\ s.sup = p.at /\ s.body = r.body
  <2>1. r \in Rows
    BY <1>1, <1>4
  <2> QED BY <1>5, <2>1 DEF Rows, Holds
<1>6. ASSUME NEW d \in p.added, NEW s, s = Written(d, p.at, rows)
      PROVE  /\ Holds(s, i, v) <=> Holds(d, i, v)
             /\ s.rec = p.at /\ s.sup = Forever
  BY <1>6 DEF Written, Holds
<1>7. /\ \A r, s \in rows : Shown(r, i, k, v) /\ Shown(s, i, k, v) => r = s
      /\ \A r \in rows : Shown(r, i, k, v) => Told(rows, i, k, v) = r.body
      /\ (\A r \in rows : ~ Shown(r, i, k, v)) => Told(rows, i, k, v) = None
  BY <1>1, ToldIs
<1>8. /\ \A r, s \in R : Shown(r, i, k, v) /\ Shown(s, i, k, v) => r = s
      /\ \A r \in R : Shown(r, i, k, v) => Told(R, i, k, v) = r.body
      /\ (\A r \in R : ~ Shown(r, i, k, v)) => Told(R, i, k, v) = None
  BY <1>0, ToldIs
<1>9. ASSUME k < p.at PROVE Told(R, i, k, v) = Told(rows, i, k, v)
  <2>1. ASSUME NEW s \in R, Shown(s, i, k, v)
        PROVE  \E r \in rows : Shown(r, i, k, v) /\ r.body = s.body
    <3>1. CASE s \in rows
      BY <2>1, <3>1
    <3>2. ASSUME NEW r \in Closing(p, rows), s = [r EXCEPT !.sup = p.at]
          PROVE  Shown(r, i, k, v) /\ r.body = s.body
      BY <1>1, <1>3, <1>4, <1>5, <2>1, <3>2 DEF Shown
    <3>3. ASSUME NEW d \in p.added, s = Written(d, p.at, rows) PROVE FALSE
      BY <1>1, <1>6, <1>9, <2>1, <3>3 DEF Shown
    <3> QED BY <1>0, <1>4, <3>1, <3>2, <3>3 DEF Passes
  <2>2. ASSUME NEW r \in rows, Shown(r, i, k, v)
        PROVE  \E s \in R : Shown(s, i, k, v) /\ r.body = s.body
    <3>1. CASE r \notin Closing(p, rows)
      BY <1>0, <2>2, <3>1 DEF Passes
    <3>2. CASE r \in Closing(p, rows)
      <4>1. PICK s : s = [r EXCEPT !.sup = p.at]
        OBVIOUS
      <4>2. s \in R
        BY <1>0, <3>2, <4>1 DEF Passes
      <4> QED BY <1>9, <1>5, <2>2, <3>2, <4>1, <4>2 DEF Shown
    <3> QED BY <3>1, <3>2
  <2> QED BY <1>7, <1>8, <2>1, <2>2
<1>10. ASSUME p.at =< k, NEW d \in p.added, Holds(d, i, v)
       PROVE  Told(R, i, k, v) = Written(d, p.at, rows).body
  <2>1. Written(d, p.at, rows) \in R
    BY <1>0 DEF Passes
  <2>2. Shown(Written(d, p.at, rows), i, k, v)
    BY <1>1, <1>6, <1>10 DEF Shown
  <2> QED BY <1>8, <2>1, <2>2
<1>11. ASSUME p.at =< k, NEW r \in rows, r.vid \notin p.closed, Shown(r, i, k, v)
       PROVE  /\ \A d \in p.added : ~ Holds(d, i, v)
              /\ Told(R, i, k, v) = r.body
  <2>1. r \in R
    BY <1>0, <1>4, <1>11 DEF Passes
  <2>2. ASSUME NEW d \in p.added, Holds(d, i, v) PROVE FALSE
    <3>1. PICK s : s = Written(d, p.at, rows)
      OBVIOUS
    <3>2. s \in R /\ Shown(s, i, k, v)
      BY <1>0, <1>1, <1>6, <1>11, <2>2, <3>1 DEF Shown, Passes
    <3>3. s = r
      BY <1>8, <1>11, <2>1, <3>2
    <3> QED BY <1>0, <3>1, <3>3 DEF Written
  <2> QED BY <1>8, <1>11, <2>1, <2>2
<1>12. ASSUME p.at =< k, \A d \in p.added : ~ Holds(d, i, v),
              \A r \in rows : r.vid \notin p.closed => ~ Shown(r, i, k, v)
       PROVE  Told(R, i, k, v) = None
  <2>1. ASSUME NEW s \in R, Shown(s, i, k, v) PROVE FALSE
    <3>1. CASE s \in rows /\ s \notin Closing(p, rows)
      BY <1>3, <1>12, <2>1, <3>1
    <3>2. ASSUME NEW r \in Closing(p, rows), s = [r EXCEPT !.sup = p.at] PROVE FALSE
      BY <1>1, <1>5, <1>12, <2>1, <3>2 DEF Shown
    <3>3. ASSUME NEW d \in p.added, s = Written(d, p.at, rows) PROVE FALSE
      BY <1>6, <1>12, <2>1, <3>3 DEF Shown
    <3> QED BY <1>0, <3>1, <3>2, <3>3 DEF Passes
  <2> QED BY <1>8, <2>1
<1>13. ASSUME p.at =< k, NEW r \in rows, r.vid \in p.closed, Holds(r, i, v)
       PROVE  Told(rows, i, k, v) = r.body /\ p.at > 0 /\ Told(rows, i, p.at - 1, v) = r.body
  <2>1. r.sup = Forever /\ r.rec < p.at /\ r.rec \in Nat
    BY <1>2, <1>3, <1>13
  <2>2. Shown(r, i, k, v)
    BY <1>1, <1>13, <2>1 DEF Shown
  <2>3. p.at - 1 \in Instants /\ p.at > 0
    BY <1>1, <2>1 DEF Instants
  <2>4. Shown(r, i, p.at - 1, v)
    BY <1>1, <1>13, <2>1 DEF Shown
  <2>5. Told(rows, i, p.at - 1, v) = r.body
    BY <1>1, <2>3, <2>4, ToldIs
  <2> QED BY <1>7, <2>2, <2>3, <2>5
<1> QED BY <1>7, <1>9, <1>10, <1>11, <1>12, <1>13 DEF After

\* A row written on a base says what its base says, another what was given.
LEMMA SaysWritten ==
  ASSUME RowsFit, NEW d, NEW body, Says(d, body), NEW t
  PROVE  Written(d, t, rows).body = body
<1>1. CASE d.base = None
  BY <1>1 DEF Says, Written
<1>2. CASE d.base # None
  <2>1. PICK r \in rows : r.vid = d.base /\ r.body = body
    BY <1>2 DEF Says
  <2>2. (CHOOSE s \in rows : s.vid = d.base) = r
    BY <2>1 DEF RowsFit
  <2> QED BY <1>2, <2>1, <2>2 DEF Written
<1> QED BY <1>1, <1>2

\* One item of a commit is revised as its plan says.
LEMMA CommitRevises ==
  ASSUME NEW p, NEW R, Committing(p, R), NEW i \in Items, Revises(p, i),
         NEW old, old = [k \in Instants |-> [v \in Instants |-> Told(rows, i, k, v)]],
         NEW new, new = [k \in Instants |-> [v \in Instants |-> Told(R, i, k, v)]]
  PROVE  /\ History!Learn(old, new, p.at)
         /\ new # old => new[p.at] # old[p.at]
<1>0. /\ TypeOK /\ RowsFit /\ p \in Plans /\ R \in SUBSET Rows /\ Passes(p, R)
      /\ \A n \in p.closed : \E r \in rows : r.vid = n /\ IsCurrent(r) /\ r.rec < p.at
  BY DEF Committing
<1>1. PICK start \in Instants, end \in Ends, until \in Ends :
    /\ start =< end /\ end =< until
    /\ start < end => \E d \in p.added : d.item = i /\ d.from =< start /\ end =< d.to
    /\ \A d \in p.added, t \in Instants : Holds(d, i, t) =>
         \/ start =< t /\ t < end
         \/ /\ t < start \/ until =< t
            /\ \E r \in ClosedBy(p) : Holds(r, i, t) /\ Says(d, r.body)
    /\ \A r \in ClosedBy(p), t \in Instants : Holds(r, i, t) /\ (t < start \/ until =< t) =>
         \E d \in p.added : Holds(d, i, t)
    /\ \A r \in Current(i) : Overlaps(r.from, r.to, start, until) => r.vid \in p.closed
  BY DEF Revises
<1>2. /\ start \in Nat /\ end \in Nat /\ until \in Nat /\ p.at \in Nat /\ p.at \in Instants
      /\ p.at < Forever /\ Forever \in Nat /\ Instants \subseteq Nat
      /\ Forever - 1 \in Instants /\ p.at =< Forever - 1
      /\ \A k \in Instants : k \in Nat /\ k < Forever
  BY <1>0, Numbers DEF Plans, Instants
<1>3. ASSUME NEW k \in Instants, NEW v \in Instants
      PROVE  After(p, R, i, k, v) /\ old[k][v] = Told(rows, i, k, v) /\ new[k][v] = Told(R, i, k, v)
  BY ToldAfter
<1>4. ASSUME NEW v \in Instants PROVE old[Forever - 1][v] # None => \E r \in Current(i) : Holds(r, i, v)
  <2>1. ASSUME old[Forever - 1][v] # None PROVE \E r \in rows : Shown(r, i, Forever - 1, v)
    BY <1>2, <1>3, <2>1 DEF After
  <2>2. ASSUME NEW r \in rows, Shown(r, i, Forever - 1, v) PROVE r \in Current(i) /\ Holds(r, i, v)
    <3>1. r.sup \in Nat /\ r.sup =< Forever /\ Forever - 1 < r.sup
      BY <1>0, <1>2, <2>2 DEF TypeOK, Rows, Ends, Shown
    <3>2. r.sup = Forever
      BY <1>2, <3>1
    <3> QED BY <2>2, <3>2 DEF Shown, Holds, Current, IsCurrent
  <2> QED BY <2>1, <2>2
<1>5. ASSUME NEW r \in Current(i), NEW v \in Instants, Holds(r, i, v)
      PROVE  /\ \A k \in Instants : p.at =< k /\ r.vid \in p.closed => Shown(r, i, k, v)
             /\ Shown(r, i, Forever - 1, v)
             /\ r \in rows /\ r.from \in Nat /\ r.to \in Nat
             /\ r.body # None
  <2>1. r \in rows /\ r \in Rows /\ r.sup = Forever
    BY <1>0 DEF Current, IsCurrent, TypeOK
  <2>2. r.rec \in Nat /\ r.rec < Forever /\ r.from \in Nat /\ r.to \in Nat /\ r.body # None
    BY <2>1, <1>2, Numbers DEF Rows, None
  <2>3. r.vid \in p.closed => r.rec < p.at
    BY <1>0, <2>1 DEF RowsFit
  <2> QED BY <1>2, <1>5, <2>1, <2>2, <2>3 DEF Shown
<1> DEFINE given(v) == start =< v /\ v < end
           ended(v) == end =< v /\ v < until /\ old[Forever - 1][v] # None
<1>6. ASSUME NEW v \in Instants, ended(v)
      PROVE  \E r \in Current(i) : Holds(r, i, v) /\ r.vid \in p.closed
  <2>1. PICK r \in Current(i) : Holds(r, i, v)
    BY <1>4, <1>6
  <2>2. Overlaps(r.from, r.to, start, until)
    BY <1>1, <1>2, <1>5, <1>6, <2>1 DEF Overlaps, Holds
  <2> QED BY <1>1, <2>1, <2>2
<1>7. ASSUME NEW v \in Instants, given(v) \/ ended(v)
      PROVE  History!Replaceable(old, p.at, v)
  <2>1. ASSUME NEW k \in Instants, p.at =< k, NEW r \in rows, Shown(r, i, k, v)
        PROVE  r.vid \in p.closed
    <3>1. CASE given(v)
      <4>1. PICK d \in p.added : d.item = i /\ d.from =< start /\ end =< d.to
        BY <1>1, <1>2, <3>1
      <4>2. d.from \in Nat /\ d.to \in Nat
        BY <1>0, Numbers DEF Plans, PlannedRows
      <4>3. Holds(d, i, v)
        BY <1>2, <3>1, <4>1, <4>2 DEF Holds
      <4> QED BY <1>3, <2>1, <4>3 DEF After
    <3>2. CASE ended(v)
      <4>1. PICK q \in Current(i) : Holds(q, i, v) /\ q.vid \in p.closed
        BY <1>6, <3>2
      <4>2. Shown(q, i, k, v) /\ q \in rows
        BY <1>5, <2>1, <4>1
      <4>3. q = r
        BY <1>0, <2>1, <4>2, ToldIs DEF TypeOK, RowsFit
      <4> QED BY <4>1, <4>3
    <3> QED BY <1>7, <3>1, <3>2
  <2>2. CASE \E r \in rows : r.vid \in p.closed /\ Holds(r, i, v)
    <3>1. PICK r \in rows : r.vid \in p.closed /\ Holds(r, i, v)
      BY <2>2
    <3>a. ASSUME NEW k \in Instants, p.at =< k
          PROVE  old[k][v] = r.body /\ p.at > 0 /\ Told(rows, i, p.at - 1, v) = r.body
      BY <1>3, <3>1, <3>a DEF After
    <3>b. p.at > 0 /\ Told(rows, i, p.at - 1, v) = r.body
      BY <1>2, <3>a
    <3>3. p.at - 1 \in Instants
      BY <1>2, <3>b DEF Instants
    <3>2. /\ \A k \in Instants : p.at =< k => old[k][v] = r.body
          /\ p.at > 0 /\ old[p.at - 1][v] = r.body
      BY <1>3, <3>a, <3>b, <3>3
    <3>4. \A k \in p.at .. Forever - 1 : k \in Instants /\ p.at =< k
      BY <1>2 DEF Instants
    <3> QED BY <1>2, <3>2, <3>3, <3>4 DEF History!Replaceable
  <2>3. CASE \A r \in rows : r.vid \in p.closed => ~ Holds(r, i, v)
    <3>1. ASSUME NEW k \in Instants, p.at =< k PROVE old[k][v] = None
      <4>1. \A r \in rows : ~ Shown(r, i, k, v)
        BY <2>1, <2>3, <3>1 DEF Shown
      <4> QED BY <1>3, <3>1, <4>1 DEF After
    <3>2. \A k \in p.at .. Forever - 1 : k \in Instants /\ p.at =< k
      BY <1>2 DEF Instants
    <3> QED BY <1>2, <3>1, <3>2 DEF History!Replaceable
  <2> QED BY <2>2, <2>3
<1>8. ASSUME start < end
      PROVE  /\ \A k, v \in Instants : p.at =< k /\ given(v) => new[k][v] = new[p.at][start]
             /\ new[p.at][start] # None
  <2>1. PICK d \in p.added : d.item = i /\ d.from =< start /\ end =< d.to
    BY <1>1, <1>8
  <2>2. d.from \in Nat /\ d.to \in Nat
    BY <1>0, Numbers DEF Plans, PlannedRows
  <2>3. \A v \in Instants : given(v) => Holds(d, i, v)
    BY <1>2, <2>1, <2>2 DEF Holds
  <2>4. \A k, v \in Instants : p.at =< k /\ given(v) => new[k][v] = Written(d, p.at, rows).body
    BY <1>3, <2>3 DEF After
  <2>5. new[p.at][start] = Written(d, p.at, rows).body
    BY <1>2, <1>8, <2>4
  <2>6. Written(d, p.at, rows) \in Rows
    BY <1>0 DEF Passes
  <2>7. Written(d, p.at, rows).body # None
    BY <2>6 DEF Rows, None
  <2> QED BY <2>4, <2>5, <2>7
<1>9. ASSUME NEW k \in Instants, NEW v \in Instants, p.at =< k, ended(v), ~ given(v)
      PROVE  new[k][v] = None
  <2>1. PICK r \in Current(i) : Holds(r, i, v) /\ r.vid \in p.closed
    BY <1>6, <1>9
  <2>2. Shown(r, i, k, v) /\ r \in rows
    BY <1>5, <1>9, <2>1
  <2>3. \A q \in rows : Shown(q, i, k, v) => q.vid \in p.closed
    BY <1>0, <2>1, <2>2, ToldIs DEF TypeOK, RowsFit
  <2>4. \A d \in p.added : ~ Holds(d, i, v)
    BY <1>1, <1>2, <1>9
  <2> QED BY <1>3, <1>9, <2>3, <2>4 DEF After
<1>10. ASSUME NEW k \in Instants, NEW v \in Instants, p.at =< k, ~ ended(v), ~ given(v)
       PROVE  new[k][v] = old[k][v]
  <2>1. CASE \E d \in p.added : Holds(d, i, v)
    <3>1. PICK d \in p.added : Holds(d, i, v)
      BY <2>1
    <3>2. PICK r \in ClosedBy(p) : Holds(r, i, v) /\ Says(d, r.body)
      BY <1>1, <1>10, <3>1
    <3>3. Written(d, p.at, rows).body = r.body
      BY <1>0, <3>2, SaysWritten
    <3>4. r \in rows /\ r.vid \in p.closed
      BY <3>2 DEF ClosedBy
    <3> QED BY <1>3, <1>10, <3>1, <3>2, <3>3, <3>4 DEF After
  <2>2. CASE \A d \in p.added : ~ Holds(d, i, v)
    <3>1. ASSUME NEW r \in rows, r.vid \in p.closed, Holds(r, i, v) PROVE FALSE
      <4>1. r \in ClosedBy(p)
        BY <3>1 DEF ClosedBy
      <4>2. ~ (v < start \/ until =< v)
        BY <1>1, <2>2, <3>1, <4>1
      <4>3. PICK q \in rows : q.vid = r.vid /\ IsCurrent(q)
        BY <1>0, <3>1
      <4>4. r \in Current(i)
        BY <1>0, <3>1, <4>3 DEF RowsFit, Current, Holds
      <4>5. Shown(r, i, Forever - 1, v) /\ r.body # None
        BY <1>5, <3>1, <4>4
      <4>6. Told(rows, i, Forever - 1, v) = r.body
        BY <1>0, <1>2, <3>1, <4>5, ToldIs DEF TypeOK, RowsFit
      <4>7. old[Forever - 1][v] # None
        BY <1>2, <1>3, <4>5, <4>6
      <4> QED BY <1>2, <1>10, <4>2, <4>7
    <3>2. \A r \in rows : Shown(r, i, k, v) => r.vid \notin p.closed
      BY <3>1 DEF Shown
    <3>3. CASE \E r \in rows : Shown(r, i, k, v)
      BY <1>3, <1>10, <2>2, <3>2, <3>3 DEF After
    <3>4. CASE \A r \in rows : ~ Shown(r, i, k, v)
      BY <1>3, <1>10, <2>2, <3>4 DEF After
    <3> QED BY <3>3, <3>4
  <2> QED BY <2>1, <2>2
<1>11. ASSUME NEW k \in Instants, NEW v \in Instants, k < p.at PROVE new[k][v] = old[k][v]
  BY <1>3, <1>11 DEF After
<1> HIDE DEF given, ended
<1>12. ASSUME NEW k \in Instants, NEW v \in Instants
       PROVE  new[k][v] = IF k < p.at THEN old[k][v]
                          ELSE IF given(v) THEN new[p.at][start]
                          ELSE IF ended(v) THEN None ELSE old[k][v]
  <2>1. given(v) => start < end
    BY <1>2 DEF given
  <2> QED BY <1>2, <1>8, <1>9, <1>10, <1>11, <2>1
<1>13. History!Learn(old, new, p.at)
  <2>1. History!Revised(old, new, p.at, start, end, until)
    BY <1>7, <1>8, <1>12 DEF History!Revised, History!Moments, Instants, given, ended
  <2> QED BY <1>1, <2>1 DEF History!Learn, History!Moments, Instants, Ends
<1>14. ASSUME new # old PROVE new[p.at] # old[p.at]
  <2>1. PICK k \in Instants : new[k] # old[k]
    BY <1>14
  <2>2. PICK v \in Instants : new[k][v] # old[k][v]
    BY <2>1
  <2>3. p.at =< k /\ (given(v) \/ ended(v))
    BY <1>2, <1>12, <2>2
  <2>a. k \in p.at .. Forever - 1
    BY <1>2, <2>3 DEF Instants
  <2>b. History!Replaceable(old, p.at, v)
    BY <1>7, <2>3
  <2>4. old[k][v] = old[p.at][v]
    BY <2>a, <2>b DEF History!Replaceable
  <2>5. new[k][v] = new[p.at][v]
    BY <1>2, <1>12, <2>3
  <2> QED BY <2>2, <2>4, <2>5
<1> QED BY <1>13, <1>14

\* What is believed is what some version says.
LEMMA BeliefTyped ==
  /\ TypeOK => Belief \in [Items -> [Instants -> [Instants -> (Nat \ {0}) \cup {None}]]]
  /\ TypeOK' => Belief' \in [Items -> [Instants -> [Instants -> (Nat \ {0}) \cup {None}]]]
<1>1. ASSUME NEW R \in SUBSET Rows, NEW i, NEW k, NEW v
      PROVE  Told(R, i, k, v) \in (Nat \ {0}) \cup {None}
  <2>1. CASE \A r \in R : ~ Shown(r, i, k, v)
    BY <2>1 DEF Told
  <2>2. CASE \E r \in R : Shown(r, i, k, v)
    <3> DEFINE S == {s \in R : Shown(s, i, k, v)}
    <3>1. S # {} /\ S \in SUBSET Rows
      BY <2>2
    <3>2. Told(R, i, k, v) = (CHOOSE s \in S : TRUE).body
      BY <2>2 DEF Told
    <3> HIDE DEF S
    <3>3. (CHOOSE s \in S : TRUE) \in Rows
      BY <3>1
    <3> QED BY <3>2, <3>3 DEF Rows
  <2> QED BY <2>1, <2>2
<1>2. ASSUME TypeOK PROVE Belief \in [Items -> [Instants -> [Instants -> (Nat \ {0}) \cup {None}]]]
  <2>1. \A i, k, v : Told(rows, i, k, v) \in (Nat \ {0}) \cup {None}
    BY <1>1, <1>2 DEF TypeOK
  <2> QED BY <2>1, BeliefForm
<1>3. ASSUME TypeOK' PROVE Belief' \in [Items -> [Instants -> [Instants -> (Nat \ {0}) \cup {None}]]]
  <2>1. \A i, k, v : Told(rows', i, k, v) \in (Nat \ {0}) \cup {None}
    BY <1>1, <1>3 DEF TypeOK
  <2> QED BY <2>1, BeliefForm
<1> QED BY <1>2, <1>3

\* At the start, what is believed is the same at every instant of knowing.
LEMMA InitHistory ==
  ASSUME Init
  PROVE  History!Init
<1>1. TypeOK
  BY InitIInv DEF IInv
<1>2. \A r \in rows : r.rec = 0 /\ r.sup = Forever
  BY DEF Init
<1>3. ASSUME NEW i, NEW k \in Instants, NEW v PROVE Told(rows, i, k, v) = Told(rows, i, 0, v)
  <2>1. k \in Nat /\ k < Forever /\ 0 \in Instants /\ 0 < Forever
    BY Numbers DEF Instants
  <2>2. \A r \in rows : Shown(r, i, k, v) <=> Shown(r, i, 0, v)
    BY <1>2, <2>1 DEF Shown
  <2> DEFINE S(j) == {s \in rows : Shown(s, i, j, v)}
  <2>3. S(k) = S(0)
    BY <2>2
  <2>4. \A j : Told(rows, i, j, v) = IF \A r \in rows : ~ Shown(r, i, j, v) THEN None
                                    ELSE (CHOOSE r \in S(j) : TRUE).body
    BY DEF Told
  <2> HIDE DEF S
  <2> QED BY <2>2, <2>3, <2>4
<1>4. \A i \in Items, k, v \in Instants : Belief[i][k][v] = Belief[i][0][v]
  BY <1>3, BeliefForm, Numbers
<1>5. Belief \in [Items -> [Instants -> [Instants -> (Nat \ {0}) \cup {None}]]]
  BY <1>1, BeliefTyped
<1> QED BY <1>4, <1>5 DEF History!Init, History!Moments, Instants

\* A commit is one step of the history.
LEMMA StoreHistory ==
  ASSUME IInv, IInv', FitInv, FitInv', HistoryInv, NEW h \in Handlers, Store(h)
  PROVE  History!Next \/ Belief' = Belief
<1>1. PICK p : p = tx[h].plan
  OBVIOUS
<1>2. /\ TypeOK /\ TypeOK' /\ RowsFit /\ RowsFit' /\ p \in Plans /\ tx[h].pc = "store"
      /\ PlanInv(h) /\ PlanFits(h)
  BY <1>1 DEF IInv, TypeOK, Txs, Store, FitInv, TxInv
<1>3. CASE rows' = rows
  BY <1>3, BeliefForm
<1>4. CASE Outcome(tx[h].ask, p) = "done" /\ rows' = Applied(p, rows)
  <2>1. PICK R : R = rows'
    OBVIOUS
  <2>2. AllFound(p, rows)
    BY <1>4 DEF Outcome
  <2>3. Passes(p, R)
    BY <1>4, <2>1, AppliedPasses
  <2>4. R \in SUBSET Rows /\ Allowed(R)
    BY <1>2, <1>4, <2>1 DEF TypeOK, Outcome
  <2>5. /\ \A n \in p.closed : \E r \in rows : r.vid = n /\ IsCurrent(r) /\ r.rec < p.at
        /\ \A d \in p.added : \A r \in rows : r.vid # d.vid
    BY <1>1, <1>2 DEF PlanFits, PlanInv
  <2>6. Committing(p, R)
    BY <1>2, <2>2, <2>3, <2>4, <2>5 DEF Committing
  <2>7. ASSUME NEW i \in Items
        PROVE  /\ History!Learn(Belief[i], Belief'[i], p.at)
               /\ Belief'[i] # Belief[i] => Belief'[i][p.at] # Belief[i][p.at]
    <3>1. Revises(p, i)
      BY <1>1, <1>2 DEF HistoryInv
    <3>2. /\ Belief[i] = [k \in Instants |-> [v \in Instants |-> Told(rows, i, k, v)]]
          /\ Belief'[i] = [k \in Instants |-> [v \in Instants |-> Told(R, i, k, v)]]
      BY <2>1, BeliefForm
    <3> QED BY <2>6, <3>1, <3>2, CommitRevises
  <2>8. /\ Belief \in [Items -> [Instants -> [Instants -> (Nat \ {0}) \cup {None}]]]
        /\ Belief' \in [Items -> [Instants -> [Instants -> (Nat \ {0}) \cup {None}]]]
    BY <1>2, BeliefTyped
  <2>9. Belief' # Belief => \E i \in Items : Belief'[i] # Belief[i]
    BY <2>8
  <2>10. p.at \in History!Moments
    BY <1>2 DEF Plans, History!Moments, Instants
  <2> QED BY <2>7, <2>8, <2>9, <2>10 DEF History!Next, History!Moments, Instants
<1> QED BY <1>1, <1>3, <1>4 DEF Store

\* Rows that keep their interval, their time and what they say are told alike.
LEMMA ToldAlike ==
  ASSUME NEW Q \in SUBSET Rows, NEW R \in SUBSET Rows, Allowed(Q), Allowed(R),
         \A r \in Q : \E s \in R : Alike(r, s) /\ r.body = s.body,
         \A s \in R : \E r \in Q : Alike(r, s) /\ r.body = s.body,
         NEW i, NEW k \in Instants, NEW v \in Instants
  PROVE  Told(Q, i, k, v) = Told(R, i, k, v)
<1>1. \A r, s : Alike(r, s) => (Shown(r, i, k, v) <=> Shown(s, i, k, v))
  BY DEF Alike, SameSpan, Shown, Holds
<1>2. CASE \E r \in Q : Shown(r, i, k, v)
  <2>1. PICK r \in Q : Shown(r, i, k, v)
    BY <1>2
  <2>2. PICK s \in R : Alike(r, s) /\ r.body = s.body
    OBVIOUS
  <2> QED BY <1>1, <2>1, <2>2, ToldIs
<1>3. CASE \A r \in Q : ~ Shown(r, i, k, v)
  <2>1. \A s \in R : ~ Shown(s, i, k, v)
    BY <1>1, <1>3
  <2> QED BY <1>3, <2>1, ToldIs
<1> QED BY <1>2, <1>3

-----------------------------------------------------------------------------
\* What steps that plan nothing leave.

\* A row says what it said.
Tells(r, s) == r.vid = s.vid /\ r.base = s.base /\ r.body = s.body

\* No row falls silent or speaks otherwise.
RowsTell == \A r \in rows : \E s \in rows' : Tells(r, s)

\* What an update did stays one split of one version.
LEMMA SplitsStays ==
  ASSUME RowsLast, RowsFit, RowsFit', NEW v, \A n \in v.plan.closed : \E r \in rows : r.vid = n,
         Splits(v)
  PROVE  Splits(v)'
<1> DEFINE p == v.plan
<1>1. /\ \A r \in rows : r.vid \in p.closed => \E s \in rows' : r.vid = s.vid /\ SameSpan(r, s)
      /\ \A s \in rows' : s.vid \in p.closed => \E r \in rows : r.vid = s.vid /\ SameSpan(r, s)
  BY ClosedStay
<1> SUFFICES ASSUME NEW i \in Items, Updated(v, i)'
             PROVE  \E s \in ClosedBy(p)', cut \in Instants :
                      /\ \A q \in ClosedBy(p)' : q.item = i => q = s
                      /\ s.from =< cut /\ s.to = Forever
                      /\ \A d \in p.added : d.item = i =>
                           \/ d.base = s.vid /\ d.from = s.from /\ d.to = cut
                           \/ d.base = None /\ d.from = cut /\ d.to = Forever
                      /\ s.from < cut => \E d \in p.added : d.item = i /\ d.base = s.vid
  BY DEF Splits
<1>2. Updated(v, i)
  BY <1>1 DEF Updated, SameSpan
<1>3. PICK r \in ClosedBy(p) : \E cut \in Instants :
        /\ \A q \in ClosedBy(p) : q.item = i => q = r
        /\ r.from =< cut /\ r.to = Forever
        /\ \A d \in p.added : d.item = i =>
             \/ d.base = r.vid /\ d.from = r.from /\ d.to = cut
             \/ d.base = None /\ d.from = cut /\ d.to = Forever
        /\ r.from < cut => \E d \in p.added : d.item = i /\ d.base = r.vid
  BY <1>2 DEF Splits
<1>4. PICK cut \in Instants :
        /\ \A q \in ClosedBy(p) : q.item = i => q = r
        /\ r.from =< cut /\ r.to = Forever
        /\ \A d \in p.added : d.item = i =>
             \/ d.base = r.vid /\ d.from = r.from /\ d.to = cut
             \/ d.base = None /\ d.from = cut /\ d.to = Forever
        /\ r.from < cut => \E d \in p.added : d.item = i /\ d.base = r.vid
  BY <1>3
<1>5. PICK s \in rows' : r.vid = s.vid /\ SameSpan(r, s)
  BY <1>1 DEF ClosedBy
<1>6. s \in ClosedBy(p)' /\ s.from = r.from /\ s.to = r.to
  BY <1>5 DEF ClosedBy, SameSpan
<1>7. ASSUME NEW q \in ClosedBy(p)', q.item = i PROVE q = s
  <2>1. PICK o \in rows : o.vid = q.vid /\ SameSpan(o, q)
    BY <1>1 DEF ClosedBy
  <2>2. o \in ClosedBy(p) /\ o.item = i
    BY <1>7, <2>1 DEF ClosedBy, SameSpan
  <2>3. q.vid = s.vid /\ q \in rows'
    BY <1>4, <1>5, <2>1, <2>2 DEF ClosedBy
  <2> QED BY <1>5, <2>3 DEF RowsFit
<1> QED BY <1>4, <1>5, <1>6, <1>7

\* A plan that waits stays one revision of its item: what it closes is locked,
\* and nobody else writes of the item it adds to.
LEMMA RevisesStays ==
  ASSUME RowsTell, RowsFit, RowsFit', NEW h \in Handlers, TxInv(h), tx[h].pc = "store", RowsKeep(h),
         NEW p, p = tx[h].plan, NEW i \in Items, Revises(p, i), TypeOK'
  PROVE  Revises(p, i)'
<1>1. /\ \A n \in p.closed : \E r \in rows : r.vid = n
      /\ \A r \in rows : r.vid \in p.closed => r.item \in tx[h].held
      /\ \A d \in p.added : Exists(d.item) => d.item \in tx[h].held
  BY DEF TxInv, PlanInv
<1>2. RowsLast
  BY DEF RowsKeep, RowsLast
<1>3. /\ \A r \in rows : r.vid \in p.closed => \E s \in rows' : r.vid = s.vid /\ SameSpan(r, s)
      /\ \A s \in rows' : s.vid \in p.closed => \E r \in rows : r.vid = s.vid /\ SameSpan(r, s)
  BY <1>1, <1>2, ClosedStay
<1>4. ASSUME NEW r \in rows, NEW s \in rows', r.vid = s.vid PROVE SameSpan(r, s) /\ r.body = s.body
  <2>1. PICK q \in rows' : r.vid = q.vid /\ SameSpan(r, q)
    BY <1>2 DEF RowsLast, Lasts
  <2>2. PICK o \in rows' : r.vid = o.vid /\ r.body = o.body
    BY DEF RowsTell, Tells
  <2> QED BY <1>4, <2>1, <2>2 DEF RowsFit
<1>5. CASE /\ \A r \in ClosedBy(p) : r.item # i
           /\ \A d \in p.added : d.item # i
  <2>1. \A s \in ClosedBy(p)' : s.item # i
    BY <1>3, <1>5 DEF ClosedBy, SameSpan
  <2>2. 0 \in Instants /\ 0 \in Ends /\ Forever \in Nat
    BY Numbers DEF Ends
  <2>3. \A r \in Current(i)' : ~ Overlaps(r.from, r.to, 0, 0)
    <3>1. \A r \in rows' : r.from \in Nat
      BY Numbers DEF TypeOK, Rows
    <3> QED BY <3>1 DEF Current, Overlaps
  <2>4. \A d, t : ~ (Holds(d, i, t) /\ d \in p.added) /\ ~ (Holds(d, i, t) /\ d \in ClosedBy(p)')
    BY <1>5, <2>1 DEF Holds
  <2> QED BY <2>2, <2>3, <2>4 DEF Revises
<1>6. CASE (\E r \in ClosedBy(p) : r.item = i) \/ (\E d \in p.added : d.item = i)
  <2>1. PICK start \in Instants, end \in Ends, until \in Ends :
    /\ start =< end /\ end =< until
    /\ start < end => \E d \in p.added : d.item = i /\ d.from =< start /\ end =< d.to
    /\ \A d \in p.added, t \in Instants : Holds(d, i, t) =>
         \/ start =< t /\ t < end
         \/ /\ t < start \/ until =< t
            /\ \E r \in ClosedBy(p) : Holds(r, i, t) /\ Says(d, r.body)
    /\ \A r \in ClosedBy(p), t \in Instants : Holds(r, i, t) /\ (t < start \/ until =< t) =>
         \E d \in p.added : Holds(d, i, t)
    /\ \A r \in Current(i) : Overlaps(r.from, r.to, start, until) => r.vid \in p.closed
    BY DEF Revises
  <2>2. ASSUME NEW s \in Current(i)' PROVE \E r \in Current(i) : r.vid = s.vid /\ SameSpan(r, s)
    <3>1. s \in rows' /\ s.item = i /\ s.sup = Forever
      BY DEF Current, IsCurrent
    <3>2. Exists(i) => i \in tx[h].held
      BY <1>1, <1>6 DEF ClosedBy
    <3>3. ~ (/\ Exists(s.item) => s.item \notin tx[h].held
             /\ tx[h].pc = "store" => \A d \in tx[h].plan.added : s.item # d.item)
      BY <1>1, <1>6, <3>1 DEF ClosedBy, Exists
    <3>4. PICK r \in rows : Lasts(r, s) /\ (r.item \in tx[h].held => r.sup = s.sup)
      BY <3>1, <3>3 DEF RowsKeep
    <3>5. r.item = i /\ r.sup = Forever
      BY <3>1, <3>2, <3>4 DEF Lasts, SameSpan, Exists
    <3> QED BY <3>4, <3>5 DEF Lasts, Current, IsCurrent
  <2>3. ASSUME NEW d \in p.added, NEW body, Says(d, body) PROVE Says(d, body)'
    BY <2>3 DEF Says, RowsTell, Tells
  <2>4. ASSUME NEW d \in p.added, NEW t \in Instants, NEW r \in ClosedBy(p), Holds(r, i, t), Says(d, r.body)
        PROVE  \E s \in ClosedBy(p)' : Holds(s, i, t) /\ Says(d, s.body)'
    <3>1. PICK s \in rows' : r.vid = s.vid
      BY <1>3 DEF ClosedBy
    <3>2. SameSpan(r, s) /\ r.body = s.body
      BY <1>4, <3>1 DEF ClosedBy
    <3>3. Says(d, s.body)'
      BY <2>3, <2>4, <3>2
    <3> QED BY <2>4, <3>1, <3>2, <3>3 DEF ClosedBy, SameSpan, Holds
  <2>5. ASSUME NEW s \in ClosedBy(p)', NEW t \in Instants, Holds(s, i, t)
        PROVE  \E r \in ClosedBy(p) : Holds(r, i, t)
    <3>1. PICK r \in rows : r.vid = s.vid /\ SameSpan(r, s)
      BY <1>3 DEF ClosedBy
    <3> QED BY <2>5, <3>1 DEF ClosedBy, SameSpan, Holds
  <2>6. \A s \in Current(i)' : Overlaps(s.from, s.to, start, until) => s.vid \in p.closed
    BY <2>1, <2>2 DEF SameSpan
  <2>7. \A d \in p.added, t \in Instants : Holds(d, i, t) =>
         \/ start =< t /\ t < end
         \/ /\ t < start \/ until =< t
            /\ \E s \in ClosedBy(p)' : Holds(s, i, t) /\ Says(d, s.body)'
    BY <2>1, <2>4
  <2>8. \A s \in ClosedBy(p)', t \in Instants : Holds(s, i, t) /\ (t < start \/ until =< t) =>
         \E d \in p.added : Holds(d, i, t)
    BY <2>1, <2>5
  <2> QED BY <2>1, <2>6, <2>7, <2>8 DEF Revises, Holds, Says
<1> QED BY <1>5, <1>6

\* The record that a handler's transaction is.
LEMMA SplitsOfTx ==
  ASSUME NEW h \in Handlers, NEW x, tx'[h] = x, Splits(x)'
  PROVE  Splits(tx[h])'
BY DEF Splits, ClosedBy, Updated

\* And the plan in it.
LEMMA RevisesOfTx ==
  ASSUME NEW h \in Handlers, NEW p, tx'[h].plan = p, NEW i, Revises(p, i)'
  PROVE  Revises(tx[h].plan, i)'
BY DEF Revises, ClosedBy, Says, Holds, Current

\* The rows of an event are in the table on the bases it gave them.
EventSays(v) ==
  /\ \A d \in v.plan.added : \E r \in rows : r.vid = d.vid /\ r.base = d.base
  /\ Splits(v)

\* A plan that waits splits what it updates, and revises each item.
PlanSays(h) == Splits(tx[h]) /\ \A i \in Items : Revises(tx[h].plan, i)

\* A step that leaves what rows and events say, and plans nothing else, keeps
\* the history.
LEMMA HistoryStays ==
  ASSUME IInv, IInv', FitInv, FitInv', HistoryInv, BodyFits', RowsLast, RowsTell,
         \A v \in events' : v \in events \/ v.kind = "access" \/ EventSays(v)',
         \A h \in Handlers :
           \/ tx'[h] = tx[h] /\ RowsKeep(h)
           \/ tx'[h].pc = "store" => PlanSays(h)'
  PROVE  HistoryInv'
<1>1. RowsFit /\ RowsFit' /\ TypeOK' /\ TypeOK
  BY DEF FitInv, IInv
<1>2. ASSUME NEW v \in events', v.kind # "access" PROVE EventSays(v)'
  <2>1. CASE v \in events
    <3>1. /\ \A d \in v.plan.added : \E r \in rows : r.vid = d.vid /\ r.base = d.base
          /\ Splits(v) /\ \A n \in v.plan.closed : \E r \in rows : r.vid = n
      BY <1>2, <2>1 DEF HistoryInv, FitInv, EventFits
    <3>2. \A d \in v.plan.added : \E s \in rows' : s.vid = d.vid /\ s.base = d.base
      BY <3>1 DEF RowsTell, Tells
    <3>3. Splits(v)'
      BY <1>1, <3>1, SplitsStays
    <3> QED BY <3>2, <3>3 DEF EventSays
  <2>2. CASE EventSays(v)'
    BY <2>2
  <2> QED BY <1>2, <2>1, <2>2
<1>3. ASSUME NEW h \in Handlers, tx'[h].pc = "store" PROVE PlanSays(h)'
  <2>1. CASE tx'[h].pc = "store" => PlanSays(h)'
    BY <1>3, <2>1
  <2>2. CASE tx'[h] = tx[h] /\ RowsKeep(h)
    <3>1. PICK x : x = tx[h]
      OBVIOUS
    <3>2. x = tx[h] /\ tx'[h] = x /\ x.pc = "store" /\ TxInv(h)
      BY <1>3, <2>2, <3>1 DEF IInv
    <3>3. Splits(tx[h]) /\ \A i \in Items : Revises(tx[h].plan, i)
      BY <3>2 DEF HistoryInv
    <3>4. Splits(x) /\ \A i \in Items : Revises(x.plan, i)
      BY <3>2, <3>3
    <3>5. \A n \in x.plan.closed : \E r \in rows : r.vid = n
      BY <3>2 DEF TxInv, PlanInv
    <3>6. Splits(x)'
      BY <1>1, <3>4, <3>5, SplitsStays, <2>2 DEF RowsKeep, RowsLast
    <3>7. \A i \in Items : Revises(x.plan, i)'
      BY <1>1, <2>2, <3>2, <3>4, RevisesStays
    <3>8. Splits(tx[h])'
      BY <3>2, <3>6, SplitsOfTx
    <3>9. ASSUME NEW i \in Items PROVE Revises(tx[h].plan, i)'
      BY <3>2, <3>7, RevisesOfTx
    <3> QED BY <3>8, <3>9 DEF PlanSays
  <2> QED BY <2>1, <2>2
<1> QED BY <1>2, <1>3 DEF HistoryInv, EventSays, PlanSays

\* A step of one handler that plans nothing.
LEMMA QuietHistory ==
  ASSUME IInv, IInv', FitInv, FitInv', HistoryInv, rows' = rows, events' = events,
         \A h \in Handlers : tx'[h] = tx[h] \/ tx'[h].pc # "store"
  PROVE  HistoryInv'
<1>1. RowsTell /\ BodyFits'
  BY DEF RowsTell, Tells, BodyFits, HistoryInv
<1>2. RowsLast /\ \A h \in Handlers : RowsKeep(h)
  BY RowsSame
<1> QED BY <1>1, <1>2, HistoryStays

\* No handler of these plans anything.
LEMMA QuietSteps ==
  ASSUME IInv, NEW h \in Handlers,
         \/ \E a \in Asks : Begin(h, a) \/ BeginReversal(h, a)
         \/ LockRequest(h) \/ \E i \in Items : LockItem(h, i)
         \/ Decide(h) \/ Rollback(h)
  PROVE  /\ rows' = rows /\ events' = events
         /\ \A g \in Handlers : tx'[g] = tx[g] \/ tx'[g].pc # "store"
<1>1. tx \in [Handlers -> Txs]
  BY DEF IInv, TypeOK
<1>2. ASSUME NEW x, x.pc # "store", tx' = [tx EXCEPT ![h] = x]
      PROVE  \A g \in Handlers : tx'[g] = tx[g] \/ tx'[g].pc # "store"
  BY <1>1, <1>2
<1>3. ASSUME NEW what, NEW n, Reply(h, what, n)
      PROVE  \A g \in Handlers : tx'[g] = tx[g] \/ tx'[g].pc # "store"
  BY <1>1, <1>3 DEF Reply, Ended
<1>4. ASSUME NEW a \in Asks, Begin(h, a)
      PROVE  /\ rows' = rows /\ events' = events
             /\ \A g \in Handlers : tx'[g] = tx[g] \/ tx'[g].pc # "store"
  BY <1>1, <1>4 DEF Begin
<1>5. ASSUME NEW a \in Asks, BeginReversal(h, a)
      PROVE  /\ rows' = rows /\ events' = events
             /\ \A g \in Handlers : tx'[g] = tx[g] \/ tx'[g].pc # "store"
  BY <1>1, <1>5 DEF BeginReversal
<1>6. ASSUME LockRequest(h) \/ \E i \in Items : LockItem(h, i)
      PROVE  /\ rows' = rows /\ events' = events
             /\ \A g \in Handlers : tx'[g] = tx[g] \/ tx'[g].pc # "store"
  BY <1>1, <1>6 DEF LockRequest, LockItem, Txs
<1>7. ASSUME Decide(h)
      PROVE  /\ rows' = rows /\ events' = events
             /\ \A g \in Handlers : tx'[g] = tx[g] \/ tx'[g].pc # "store"
  <2>1. rows' = rows /\ events' = events
    BY <1>7 DEF Decide
  <2>2. \/ \E what, n : Reply(h, what, n)
        \/ \E x : x.pc = "build" /\ tx' = [tx EXCEPT ![h] = x]
    BY <1>7 DEF Decide
  <2> QED BY <1>2, <1>3, <2>1, <2>2
<1>8. ASSUME Rollback(h)
      PROVE  /\ rows' = rows /\ events' = events
             /\ \A g \in Handlers : tx'[g] = tx[g] \/ tx'[g].pc # "store"
  BY <1>3, <1>8 DEF Rollback
<1> QED BY <1>4, <1>5, <1>6, <1>7, <1>8

\* A reader's touch changes nothing of a row but its access.
LEMMA TouchTells ==
  ASSUME TypeOK, NEW x \in reader, CloseRead(x)
  PROVE  /\ \A r \in rows : \E s \in rows' : Alike(r, s) /\ Tells(r, s)
         /\ \A s \in rows' : \E r \in rows : Alike(r, s) /\ Tells(r, s)
<1> DEFINE f == [r \in rows |-> IF r.vid \in {x.vid} /\ r.access < x.at THEN [r EXCEPT !.access = x.at] ELSE r]
<1>1. rows \in SUBSET Rows /\ rows' = {f[r] : r \in rows}
  BY DEF TypeOK, CloseRead, Touched
<1>2. ASSUME NEW r \in rows PROVE Alike(r, f[r]) /\ Tells(r, f[r])
  <2>1. r \in Rows /\ f[r] \in {r, [r EXCEPT !.access = x.at]}
    BY <1>1
  <2> HIDE DEF f
  <2> QED BY <2>1 DEF Rows, Alike, SameSpan, Tells
<1> HIDE DEF f
<1> QED BY <1>1, <1>2

\* So it changes nothing of what is said or believed.
LEMMA CloseReadHistory ==
  ASSUME IInv, IInv', FitInv, FitInv', HistoryInv, NEW x \in reader, CloseRead(x)
  PROVE  HistoryInv' /\ Belief' = Belief
<1>1. /\ \A r \in rows : \E s \in rows' : Alike(r, s) /\ Tells(r, s)
      /\ \A s \in rows' : \E r \in rows : Alike(r, s) /\ Tells(r, s)
  BY TouchTells DEF IInv
<1>2. tx' = tx /\ \A v \in events' : v \in events \/ v.kind = "access"
  BY DEF CloseRead
<1>3. RowsLast /\ RowsTell /\ \A h \in Handlers : RowsKeep(h)
  BY <1>1 DEF RowsLast, RowsTell, RowsKeep, Lasts, Alike
<1>4. BodyFits'
  <2> SUFFICES ASSUME NEW s \in rows', s.base # None
               PROVE  \E q \in rows' : q.vid = s.base /\ q.body = s.body
    BY DEF BodyFits
  <2>1. PICK r \in rows : Tells(r, s)
    BY <1>1
  <2>2. PICK o \in rows : o.vid = r.base /\ o.body = r.body
    BY <2>1 DEF HistoryInv, BodyFits, Tells
  <2> QED BY <1>1, <2>1, <2>2 DEF Tells
<1>5. HistoryInv'
  BY <1>2, <1>3, <1>4, HistoryStays
<1>6. rows \in SUBSET Rows /\ rows' \in SUBSET Rows /\ Allowed(rows) /\ Allowed(rows')
  BY DEF IInv, TypeOK, FitInv, RowsFit, Allowed, Collides, Overlaps
<1>7. PICK R : R = rows'
  OBVIOUS
<1>8. R \in SUBSET Rows /\ Allowed(R)
  BY <1>6, <1>7 DEF Allowed, Collides, Overlaps
<1>9. \A i, k, v : k \in Instants /\ v \in Instants => Told(rows, i, k, v) = Told(R, i, k, v)
  <2>1. /\ \A r \in rows : \E s \in R : Alike(r, s) /\ r.body = s.body
        /\ \A s \in R : \E r \in rows : Alike(r, s) /\ r.body = s.body
    BY <1>1, <1>7 DEF Tells
  <2> QED BY <1>6, <1>8, <2>1, ToldAlike
<1>10. Belief' = Belief
  BY <1>7, <1>9, BeliefForm
<1> QED BY <1>5, <1>10

-----------------------------------------------------------------------------
\* A commit leaves what rows say, and a row it adds says what its base says.
LEMMA StoreHistoryInv ==
  ASSUME IInv, IInv', FitInv, FitInv', HistoryInv, NEW h \in Handlers, Store(h)
  PROVE  HistoryInv'
<1>1. PICK x : x = tx[h]
  OBVIOUS
<1>2. PICK p : p = x.plan
  OBVIOUS
<1>3. /\ TypeOK /\ RowsFit /\ RowsFit' /\ x \in Txs /\ p \in Plans /\ x.pc = "store" /\ tx[h].pc = "store"
      /\ tx \in [Handlers -> Txs] /\ TxInv(h) /\ rows \in SUBSET Rows
  BY <1>1, <1>2 DEF IInv, TypeOK, Txs, Store, FitInv
<1>4. \A g \in Handlers : tx'[g] = tx[g] \/ tx'[g].pc # "store"
  BY <1>3 DEF Store, Reply, Ended
<1>5. CASE rows' = rows /\ events' = events
  BY <1>4, <1>5, QuietHistory
<1>6. CASE /\ rows' = Applied(p, rows)
           /\ events' = events \cup
                {[id |-> p.event, kind |-> Kind(x.ask), ask |-> x.ask, plan |-> p, touched |-> {}]}
  <2>1. PICK v : v = [id |-> p.event, kind |-> Kind(x.ask), ask |-> x.ask, plan |-> p, touched |-> {}]
    OBVIOUS
  <2>2. events' = events \cup {v} /\ v.ask = x.ask /\ v.plan = p
    BY <1>6, <2>1
  <2>3. RowsLast /\ \A g \in Handlers \ {h} : RowsKeep(g)
    BY <1>1, <1>2, <1>3, <1>6, StoreKeeps
  <2>4. PICK R : R = rows'
    OBVIOUS
  <2>5. Passes(p, R)
    BY <1>6, <2>4, AppliedPasses
  <2>6. \A r \in Closing(p, rows) : r \in rows
    BY DEF Closing
  <2>7. ASSUME NEW r \in Closing(p, rows) PROVE Tells(r, [r EXCEPT !.sup = p.at])
    <3>1. r \in Rows
      BY <1>3, <2>6
    <3> QED BY <3>1 DEF Rows, Tells
  <2>8. ASSUME NEW r \in rows PROVE \E s \in R : Tells(r, s)
    <3>1. CASE r \in Closing(p, rows)
      BY <2>5, <2>7, <3>1 DEF Passes
    <3>2. CASE r \notin Closing(p, rows)
      BY <2>5, <3>2 DEF Passes, Tells
    <3> QED BY <3>1, <3>2
  <2>9. RowsTell
    BY <2>4, <2>8 DEF RowsTell
  <2>10. ASSUME NEW d \in p.added
         PROVE  LET w == Written(d, p.at, rows)
                IN w \in R /\ w.vid = d.vid /\ w.base = d.base
    BY <2>5 DEF Passes, Written
  <2>11. ASSUME NEW d \in p.added, d.base # None
         PROVE  \E q \in rows : q.vid = d.base /\ q.body = Written(d, p.at, rows).body
    <3>1. \E q \in rows : q.vid = d.base
      BY <1>1, <1>2, <1>3, <2>11 DEF TxInv, PlanInv
    <3>2. (CHOOSE q \in rows : q.vid = d.base) \in rows /\ (CHOOSE q \in rows : q.vid = d.base).vid = d.base
      BY <3>1
    <3>3. Written(d, p.at, rows).body = (CHOOSE q \in rows : q.vid = d.base).body
      BY <2>11 DEF Written
    <3> QED BY <3>2, <3>3
  <2>12. ASSUME NEW s \in R
         PROVE  \/ \E r \in rows : Tells(r, s)
                \/ s.base = None
                \/ \E q \in rows : q.vid = s.base /\ q.body = s.body
    <3>1. CASE s \in rows
      BY <3>1 DEF Tells
    <3>2. ASSUME NEW d \in p.added, s = Written(d, p.at, rows)
          PROVE  s.base = None \/ \E q \in rows : q.vid = s.base /\ q.body = s.body
      BY <2>10, <2>11, <3>2
    <3> QED BY <2>5, <2>6, <2>7, <3>1, <3>2 DEF Passes
  <2>13. BodyFits'
    <3> SUFFICES ASSUME NEW s \in R, s.base # None
                 PROVE  \E q \in R : q.vid = s.base /\ q.body = s.body
      BY <2>4 DEF BodyFits
    <3>1. \E q \in rows : q.vid = s.base /\ q.body = s.body
      BY <2>12 DEF HistoryInv, BodyFits, Tells
    <3> QED BY <2>8, <3>1 DEF Tells
  <2>14. EventSays(v)'
    <3>1. \A d \in v.plan.added : \E r \in rows' : r.vid = d.vid /\ r.base = d.base
      BY <2>2, <2>4, <2>10
    <3>2. Splits(x)
      <4>1. Splits(tx[h])
        BY <1>3 DEF HistoryInv
      <4> QED BY <1>1, <4>1
    <3>3. \A n \in x.plan.closed : \E r \in rows : r.vid = n
      BY <1>1, <1>3 DEF TxInv, PlanInv
    <3>4. Splits(x)'
      BY <1>3, <2>3, <3>2, <3>3, SplitsStays
    <3>5. Splits(v)'
      BY <1>2, <2>2, <3>4 DEF Splits, ClosedBy, Updated
    <3> QED BY <3>1, <3>5 DEF EventSays
  <2>15. \A w \in events' : w \in events \/ w.kind = "access" \/ EventSays(w)'
    BY <2>2, <2>14 DEF EventSays, Splits, ClosedBy, Updated
  <2>16. \A g \in Handlers : (tx'[g] = tx[g] /\ RowsKeep(g)) \/ tx'[g].pc # "store"
    <3>1. tx'[h].pc # "store"
      BY <1>3 DEF Store, Reply, Ended
    <3> QED BY <1>4, <2>3, <3>1
  <2> QED BY <2>3, <2>9, <2>13, <2>15, <2>16, HistoryStays
<1> QED BY <1>1, <1>2, <1>5, <1>6 DEF Store

-----------------------------------------------------------------------------
\* What a write, a close or a reversal makes of what is told.

\* Exactly what survives of the rows that a change meets, and what it writes.
LEMMA ChangeExact ==
  ASSUME NEW c \in Changed, Shaped(c), NEW seen, Met(c, Hits(c, seen))
  PROVE  /\ \A d \in Parts(c, seen) :
              /\ d.item = c.item /\ d.from < d.to
              /\ \/ d.base = None /\ d.from = c.start /\ d.to = c.end
                 \/ \E r \in Hits(c, seen) :
                      /\ d.base = r.vid
                      /\ \/ d.from = r.from /\ d.to = c.start
                         \/ d.from = c.until /\ d.to = r.to
         /\ c.start < c.end => \E d \in Parts(c, seen) : d.from = c.start /\ d.to = c.end
         /\ \A r \in Hits(c, seen) :
              /\ r.from < c.start =>
                   \E d \in Parts(c, seen) : d.base = r.vid /\ d.from = r.from /\ d.to = c.start
              /\ c.until < r.to =>
                   \E d \in Parts(c, seen) : d.base = r.vid /\ d.from = c.until /\ d.to = r.to
<1> DEFINE H == Hits(c, seen)
           S(r) == SurvivingSegments(r.from, r.to, c.start, c.until)
           draft(r, s) == [item |-> c.item, from |-> s.from, to |-> s.to,
                           base |-> r.vid, live |-> c.live, access |-> r.access]
           new == [item |-> c.item, from |-> c.start, to |-> c.end, base |-> None,
                   live |-> FALSE, access |-> 0]
<1>1. /\ \A d \in Parts(c, seen) : \/ \E r \in H : \E s \in S(r) : d = draft(r, s)
                                   \/ d = new /\ c.start < c.end
      /\ \A r \in H : \A s \in S(r) : draft(r, s) \in Parts(c, seen)
      /\ c.start < c.end => new \in Parts(c, seen)
  BY DEF Parts, Survivors, Replacement
<1>2. /\ \A r, s : /\ draft(r, s).item = c.item /\ draft(r, s).from = s.from
                   /\ draft(r, s).to = s.to /\ draft(r, s).base = r.vid
      /\ new.item = c.item /\ new.from = c.start /\ new.to = c.end /\ new.base = None
  OBVIOUS
<1>3. ASSUME NEW r, NEW s \in S(r)
      PROVE  /\ s.from < s.to
             /\ \/ s.from = r.from /\ s.to = c.start
                \/ s.from = c.until /\ s.to = r.to
  BY DEF SurvivingSegments, Segment
<1>4. ASSUME NEW r
      PROVE  /\ r.from < c.start => \E s \in S(r) : s.from = r.from /\ s.to = c.start
             /\ c.until < r.to => \E s \in S(r) : s.from = c.until /\ s.to = r.to
  <2>1. /\ r.from < c.start => Segment(r.from, c.start) \in S(r)
        /\ c.until < r.to => Segment(c.until, r.to) \in S(r)
    BY DEF SurvivingSegments, Segment
  <2>2. \A a, b : Segment(a, b).from = a /\ Segment(a, b).to = b
    BY DEF Segment
  <2> HIDE DEF S
  <2> QED BY <2>1, <2>2
<1> HIDE DEF draft, new, S
<1> QED BY <1>1, <1>2, <1>3, <1>4

\* Plan p is made of the changes C, which met the open rows that they hit.
MadeOf(p, C, seen) ==
  /\ \A n \in p.added : \E c \in C : \E d \in Parts(c, seen) : SameSpan(n, d) /\ n.base = d.base
  /\ \A c \in C : \A d \in Parts(c, seen) : \E n \in p.added : SameSpan(n, d) /\ n.base = d.base
  /\ \A r \in ClosedBy(p) : \E c \in C : c.item = r.item /\ \E s \in Hits(c, seen) : Alike(r, s)
  /\ \A c \in C : \A s \in Hits(c, seen) : \E r \in ClosedBy(p) : Alike(r, s) /\ r.item = c.item

\* What the plan of a write is made of: its changes, one of an item, and the
\* rows they meet, as they are in the table.
LEMMA WriteForm ==
  ASSUME NEW h \in Handlers, NEW now, NEW name, Building(h, now, name),
         NEW D, D = Drafts(Changes(h, now, name), tx[h].seen),
         NEW H, H = UNION {Hits(c, tx[h].seen) : c \in Changes(h, now, name)},
         NEW p, p.closed = Ids(H), p.added = Numbered(D)
  PROVE  MadeOf(p, Changes(h, now, name), tx[h].seen)
<1> DEFINE C == Changes(h, now, name)
           seen == tx[h].seen
<1>1. TypeOK /\ RowsFit /\ PlanParts(D, H)
  BY WriteParts DEF Building
<1>2. \A d : d \in D <=> \E c \in C : d \in Parts(c, seen)
  BY DEF Drafts, Parts
<1>3. /\ \A n \in p.added : \E d \in D : SameSpan(n, d) /\ n.base = d.base
      /\ \A d \in D : \E n \in p.added : SameSpan(n, d) /\ n.base = d.base
  BY <1>1, NumberedApart DEF PlanParts
<1>4. ASSUME NEW c \in C, NEW s \in Hits(c, seen)
      PROVE  \E r \in ClosedBy(p) : Alike(r, s) /\ r.item = c.item
  <2>1. PICK r \in rows : Alike(r, s) /\ r.item = c.item
    BY HitsMet
  <2>2. s \in H
    OBVIOUS
  <2> QED BY <2>1, <2>2 DEF ClosedBy, Ids, Alike
<1>5. ASSUME NEW r \in ClosedBy(p)
      PROVE  \E c \in C : c.item = r.item /\ \E s \in Hits(c, seen) : Alike(r, s)
  <2>1. r \in rows /\ \E s \in H : s.vid = r.vid
    BY DEF ClosedBy, Ids
  <2>2. PICK c \in C : \E s \in Hits(c, seen) : s.vid = r.vid
    BY <2>1
  <2>3. PICK s \in Hits(c, seen) : s.vid = r.vid
    BY <2>2
  <2>4. PICK q \in ClosedBy(p) : Alike(q, s) /\ q.item = c.item
    BY <1>4
  <2>5. q = r
    BY <1>1, <2>1, <2>3, <2>4 DEF RowsFit, ClosedBy, Alike
  <2> QED BY <2>3, <2>4, <2>5
<1> HIDE DEF C, seen
<1> QED BY <1>2, <1>3, <1>4, <1>5 DEF C, seen, MadeOf

\* A write, or a close, is one revision of each item: of what its change names.
LEMMA WriteRevises ==
  ASSUME NEW h \in Handlers, NEW now, NEW name, Building(h, now, name),
         NEW D, D = Drafts(Changes(h, now, name), tx[h].seen),
         NEW H, H = UNION {Hits(c, tx[h].seen) : c \in Changes(h, now, name)},
         NEW p, p.closed = Ids(H), p.added = Numbered(D), NEW i \in Items
  PROVE  Revises(p, i)
<1> DEFINE C == Changes(h, now, name)
           seen == tx[h].seen
<1>1. TypeOK /\ RowsFit /\ C \in SUBSET Changed
  BY ChangesFacts DEF Building, NewNames
<1>2. /\ \A n \in p.added : \E c \in C : \E d \in Parts(c, seen) : SameSpan(n, d) /\ n.base = d.base
      /\ \A c \in C : \A d \in Parts(c, seen) : \E n \in p.added : SameSpan(n, d) /\ n.base = d.base
      /\ \A r \in ClosedBy(p) : \E c \in C : c.item = r.item /\ \E s \in Hits(c, seen) : Alike(r, s)
      /\ \A c \in C : \A s \in Hits(c, seen) : \E r \in ClosedBy(p) : Alike(r, s) /\ r.item = c.item
  <2>1. MadeOf(p, C, seen)
    BY WriteForm
  <2> QED BY <2>1 DEF MadeOf
<1>3. \A r \in rows : r.vid # None /\ r.from \in Nat /\ r.to \in Nat
  BY <1>1, Numbers DEF TypeOK, Rows, None
<1>4. \A t \in Instants : t \in Nat
  BY Numbers
<1>5. ASSUME NEW c \in C, c.item = i PROVE Revises(p, i)
  <2>1. /\ c.start \in Instants /\ c.end \in Ends /\ c.until \in Ends
        /\ c.start \in Nat /\ c.end \in Nat /\ c.until \in Nat /\ c \in Changed
    BY <1>1, Numbers DEF Changed
  <2>2. /\ Shaped(c) /\ Met(c, Hits(c, seen))
        /\ \A r \in Current(i) : Overlaps(r.from, r.to, c.start, c.until) =>
             \E s \in Hits(c, seen) : Alike(r, s)
    BY <1>5, HitsMet
  <2>3. /\ \A d \in Parts(c, seen) :
             /\ d.item = i /\ d.from < d.to
             /\ \/ d.base = None /\ d.from = c.start /\ d.to = c.end
                \/ \E r \in Hits(c, seen) :
                     /\ d.base = r.vid
                     /\ \/ d.from = r.from /\ d.to = c.start
                        \/ d.from = c.until /\ d.to = r.to
        /\ c.start < c.end => \E d \in Parts(c, seen) : d.from = c.start /\ d.to = c.end
        /\ \A r \in Hits(c, seen) :
             /\ r.from < c.start =>
                  \E d \in Parts(c, seen) : d.base = r.vid /\ d.from = r.from /\ d.to = c.start
             /\ c.until < r.to =>
                  \E d \in Parts(c, seen) : d.base = r.vid /\ d.from = c.until /\ d.to = r.to
    BY <1>5, <2>1, <2>2, ChangeExact
  <2>4. \A k \in C : k.item = i => k = c
    BY <1>5, ChangesApart
  <2>5. \A s \in Hits(c, seen) : Overlaps(s.from, s.to, c.start, c.until)
    BY <2>2 DEF Met
  <2>6. ASSUME NEW n \in p.added, NEW t \in Instants, Holds(n, i, t)
        PROVE  \/ c.start =< t /\ t < c.end
               \/ /\ t < c.start \/ c.until =< t
                  /\ \E r \in ClosedBy(p) : Holds(r, i, t) /\ Says(n, r.body)
    <3>1. PICK k \in C : \E d \in Parts(k, seen) : SameSpan(n, d) /\ n.base = d.base
      BY <1>2
    <3>2. PICK d \in Parts(k, seen) : SameSpan(n, d) /\ n.base = d.base
      BY <3>1
    <3>3. d.item = k.item
      <4>1. k \in Changed /\ Shaped(k) /\ Met(k, Hits(k, seen))
        BY <1>1, HitsMet
      <4> QED BY <4>1, ChangeExact
    <3>4. k = c /\ d.from =< t /\ t < d.to
      BY <2>4, <2>6, <3>2, <3>3 DEF Holds, SameSpan
    <3>5. CASE d.base = None /\ d.from = c.start /\ d.to = c.end
      BY <3>4, <3>5
    <3>6. ASSUME NEW s \in Hits(c, seen), d.base = s.vid,
                 \/ d.from = s.from /\ d.to = c.start
                 \/ d.from = c.until /\ d.to = s.to
          PROVE  /\ t < c.start \/ c.until =< t
                 /\ \E r \in ClosedBy(p) : Holds(r, i, t) /\ Says(n, r.body)
      <4>1. PICK r \in ClosedBy(p) : Alike(r, s) /\ r.item = i
        BY <1>2, <1>5
      <4>2. r \in rows /\ r.from = s.from /\ r.to = s.to /\ r.vid = s.vid
        BY <4>1 DEF ClosedBy, Alike, SameSpan
      <4>3. r.from < c.until /\ c.start < r.to
        BY <2>5, <4>2 DEF Overlaps
      <4>4. Holds(r, i, t) /\ (t < c.start \/ c.until =< t)
        BY <1>3, <1>4, <2>1, <2>2, <3>4, <3>6, <4>1, <4>2, <4>3 DEF Holds, Shaped
      <4>5. Says(n, r.body)
        BY <1>3, <3>2, <3>6, <4>2 DEF Says
      <4> QED BY <4>1, <4>4, <4>5
    <3> QED BY <2>3, <3>2, <3>4, <3>5, <3>6
  <2>7. ASSUME NEW r \in ClosedBy(p), NEW t \in Instants, Holds(r, i, t), t < c.start \/ c.until =< t
        PROVE  \E n \in p.added : Holds(n, i, t)
    <3>1. PICK k \in C : k.item = r.item /\ \E s \in Hits(k, seen) : Alike(r, s)
      BY <1>2
    <3>2. k = c
      BY <2>4, <2>7, <3>1 DEF Holds
    <3>3. PICK s \in Hits(c, seen) : Alike(r, s)
      BY <3>1, <3>2
    <3>4. r \in rows /\ r.from = s.from /\ r.to = s.to /\ r.from =< t /\ t < r.to
      BY <2>7, <3>3 DEF ClosedBy, Alike, SameSpan, Holds
    <3>5. (t < c.start /\ s.from < c.start) \/ (c.until =< t /\ c.until < s.to)
      BY <1>3, <1>4, <2>1, <2>7, <3>4
    <3>6. PICK d \in Parts(c, seen) : d.from =< t /\ t < d.to
      BY <2>3, <3>4, <3>5
    <3>7. PICK n \in p.added : SameSpan(n, d)
      BY <1>2
    <3> QED BY <2>3, <3>6, <3>7 DEF Holds, SameSpan
  <2>8. ASSUME NEW r \in Current(i), Overlaps(r.from, r.to, c.start, c.until)
        PROVE  r.vid \in p.closed
    <3>1. PICK s \in Hits(c, seen) : Alike(r, s)
      BY <2>2, <2>8
    <3>2. PICK q \in ClosedBy(p) : Alike(q, s)
      BY <1>2
    <3> QED BY <3>1, <3>2 DEF ClosedBy, Alike
  <2>9. c.start < c.end => \E n \in p.added : n.item = i /\ n.from =< c.start /\ c.end =< n.to
    <3> SUFFICES ASSUME c.start < c.end
                 PROVE  \E n \in p.added : n.item = i /\ n.from =< c.start /\ c.end =< n.to
      OBVIOUS
    <3>1. PICK d \in Parts(c, seen) : d.from = c.start /\ d.to = c.end
      BY <2>3
    <3>2. PICK n \in p.added : SameSpan(n, d)
      BY <1>2
    <3> QED BY <2>1, <2>3, <3>1, <3>2 DEF SameSpan
  <2>10. c.start =< c.end /\ c.end =< c.until
    BY <2>2 DEF Shaped
  <2> QED BY <2>1, <2>6, <2>7, <2>8, <2>9, <2>10 DEF Revises
<1>6. ASSUME \A c \in C : c.item # i PROVE Revises(p, i)
  <2>1. ASSUME NEW n \in p.added PROVE n.item # i
    <3>1. PICK k \in C : \E d \in Parts(k, seen) : SameSpan(n, d) /\ n.base = d.base
      BY <1>2
    <3>2. PICK d \in Parts(k, seen) : SameSpan(n, d)
      BY <3>1
    <3>3. k \in Changed /\ Shaped(k) /\ Met(k, Hits(k, seen))
      BY <1>1, HitsMet
    <3>4. d.item = k.item
      BY <3>3, ChangeExact
    <3> QED BY <1>6, <3>2, <3>4 DEF SameSpan
  <2>2. \A r \in ClosedBy(p) : r.item # i
    BY <1>2, <1>6
  <2>3. 0 \in Instants /\ 0 \in Ends
    BY Numbers DEF Ends
  <2>4. \A r \in Current(i) : ~ Overlaps(r.from, r.to, 0, 0)
    BY <1>3 DEF Current, Overlaps
  <2> QED BY <2>1, <2>2, <2>3, <2>4 DEF Revises, Holds
<1> QED BY <1>5, <1>6

\* An update splits the one open version that it was for.
LEMMA WriteSplits ==
  ASSUME NEW h \in Handlers, NEW now, NEW name, Building(h, now, name),
         NEW D, D = Drafts(Changes(h, now, name), tx[h].seen),
         NEW H, H = UNION {Hits(c, tx[h].seen) : c \in Changes(h, now, name)},
         NEW x, x.ask = tx[h].ask, x.plan.closed = Ids(H), x.plan.added = Numbered(D)
  PROVE  Splits(x)
<1> DEFINE C == Changes(h, now, name)
           seen == tx[h].seen
           p == x.plan
<1>1. TypeOK /\ RowsFit /\ C \in SUBSET Changed
  BY ChangesFacts DEF Building, NewNames
<1>2. /\ \A n \in p.added : \E c \in C : \E d \in Parts(c, seen) : SameSpan(n, d) /\ n.base = d.base
      /\ \A c \in C : \A d \in Parts(c, seen) : \E n \in p.added : SameSpan(n, d) /\ n.base = d.base
      /\ \A r \in ClosedBy(p) : \E c \in C : c.item = r.item /\ \E s \in Hits(c, seen) : Alike(r, s)
  <2>1. MadeOf(p, C, seen)
    BY WriteForm
  <2> QED BY <2>1 DEF MadeOf
<1> SUFFICES ASSUME NEW i \in Items, Updated(x, i)
             PROVE  \E r \in ClosedBy(p), cut \in Instants :
                      /\ \A s \in ClosedBy(p) : s.item = i => s = r
                      /\ r.from =< cut /\ r.to = Forever
                      /\ \A d \in p.added : d.item = i =>
                           \/ d.base = r.vid /\ d.from = r.from /\ d.to = cut
                           \/ d.base = None /\ d.from = cut /\ d.to = Forever
                      /\ r.from < cut => \E d \in p.added : d.item = i /\ d.base = r.vid
  BY DEF Splits
<1>3. PICK r \in ClosedBy(p) : r.item = i
  BY DEF Updated, ClosedBy
<1>4. PICK c \in C : c.item = i /\ \E s \in Hits(c, seen) : Alike(r, s)
  BY <1>2, <1>3
<1>5. PICK s \in Hits(c, seen) : Alike(r, s)
  BY <1>4
<1>6. /\ s.to = Forever /\ s.from =< c.start /\ c.until = Forever
      /\ c.start < c.end => c.end = Forever
      /\ \A q \in Hits(c, seen) : q = s
  BY <1>4, UpdateWithin DEF Updated
<1>7. /\ c \in Changed /\ Shaped(c) /\ Met(c, Hits(c, seen)) /\ c.start \in Instants
  BY <1>1, HitsMet DEF Changed
<1>8. \A k \in C : k.item = i => k = c
  BY <1>4, ChangesApart
<1>9. r.from = s.from /\ r.to = s.to /\ r.vid = s.vid
  BY <1>5 DEF Alike, SameSpan
<1>10. /\ \A d \in Parts(c, seen) :
            /\ d.item = i /\ d.from < d.to
            /\ \/ d.base = None /\ d.from = c.start /\ d.to = c.end
               \/ \E q \in Hits(c, seen) :
                    /\ d.base = q.vid
                    /\ \/ d.from = q.from /\ d.to = c.start
                       \/ d.from = c.until /\ d.to = q.to
       /\ s.from < c.start =>
            \E d \in Parts(c, seen) : d.base = s.vid /\ d.from = s.from /\ d.to = c.start
  BY <1>4, <1>7, ChangeExact
<1>11. ASSUME NEW q \in ClosedBy(p), q.item = i PROVE q = r
  <2>1. PICK k \in C : k.item = q.item /\ \E o \in Hits(k, seen) : Alike(q, o)
    BY <1>2
  <2>2. Alike(q, s)
    BY <1>6, <1>8, <1>11, <2>1
  <2> QED BY <1>1, <1>9, <2>2 DEF RowsFit, ClosedBy, Alike
<1>12. ASSUME NEW n \in p.added, n.item = i
       PROVE  \/ n.base = r.vid /\ n.from = r.from /\ n.to = c.start
              \/ n.base = None /\ n.from = c.start /\ n.to = Forever
  <2>1. PICK k \in C : \E d \in Parts(k, seen) : SameSpan(n, d) /\ n.base = d.base
    BY <1>2
  <2>2. PICK d \in Parts(k, seen) : SameSpan(n, d) /\ n.base = d.base
    BY <2>1
  <2>3. d.item = k.item
    <3>1. k \in Changed /\ Shaped(k) /\ Met(k, Hits(k, seen))
      BY <1>1, HitsMet
    <3> QED BY <3>1, ChangeExact
  <2>4. d \in Parts(c, seen)
    BY <1>8, <1>12, <2>2, <2>3 DEF SameSpan
  <2>5. ~ (Forever < Forever)
    BY Numbers
  <2> QED BY <1>6, <1>9, <1>10, <2>2, <2>4, <2>5 DEF SameSpan
<1>13. r.from < c.start => \E n \in p.added : n.item = i /\ n.base = r.vid
  BY <1>2, <1>4, <1>9, <1>10 DEF SameSpan
<1> QED BY <1>6, <1>7, <1>9, <1>11, <1>12, <1>13

\* The version that stands for another says what it said.
LEMMA StandingBody ==
  ASSUME TypeOK, RowsFit, HistoryInv,
         NEW r \in rows, r.vid <= nextVersion, NEW w \in rows, w.vid = Standing(r.vid)
  PROVE  r.body = w.body
<1> DEFINE N == nextVersion
           Bad == {n \in 0 .. N : \E p, q \in rows :
                     p.vid = n /\ q.vid = Standing(n) /\ p.body # q.body}
<1>1. N \in Nat /\ rows \in SUBSET Rows /\ r.vid \in 0 .. N
  BY DEF TypeOK, Rows
<1>2. \A p, q \in rows : p.vid = q.vid => p = q
  BY DEF RowsFit
<1>3. ASSUME Bad # {} PROVE FALSE
  <2>1. Bad \in SUBSET Nat /\ IsFiniteSet(Bad)
    <3>1. IsFiniteSet(0 .. N) /\ Bad \in SUBSET (0 .. N)
      BY <1>1, FS_Interval
    <3> QED BY <1>1, <3>1, FS_Subset
  <2>2. PICK n \in Bad : \A k \in Bad : k <= n
    <3> HIDE DEF Bad
    <3> QED BY <1>3, <2>1, LargestNatural
  <2>3. PICK p \in rows : \E q \in rows : p.vid = n /\ q.vid = Standing(n) /\ p.body # q.body
    OBVIOUS
  <2>4. PICK q \in rows : p.vid = n /\ q.vid = Standing(n) /\ p.body # q.body
    BY <2>3
  <2>5. n \in 0 .. N /\ n # None /\ q.vid # None /\ p # q
    BY <1>1, <2>4 DEF Rows, None
  <2>6. /\ (\E s \in rows : s.vid = n /\ IsCurrent(s)) => Standing(n) = n
        /\ ~ (\E s \in rows : s.vid = n /\ IsCurrent(s)) =>
             \/ Standing(n) = None
             \/ \E c \in Later(n) : Standing(n) = Standing(c)
    BY <2>5, StandingIs
  <2>7. PICK c \in Later(n) : Standing(n) = Standing(c)
    BY <1>2, <2>4, <2>5, <2>6
  <2>8. c \in 0 .. N /\ n < c
    BY LaterFacts
  <2>9. PICK v \in events : v.kind = "reversal" /\ \E d \in v.plan.added : d.base = n /\ c = d.vid
    BY <2>7 DEF Later, Copies
  <2>10. PICK d \in v.plan.added : d.base = n /\ c = d.vid
    BY <2>9
  <2>11. PICK s \in rows : s.vid = c /\ s.base = n
    BY <2>9, <2>10 DEF HistoryInv
  <2>12. PICK o \in rows : o.vid = n /\ o.body = s.body
    BY <2>5, <2>11 DEF HistoryInv, BodyFits
  <2>13. s.body # q.body /\ q.vid = Standing(c)
    BY <1>2, <2>4, <2>7, <2>12
  <2>14. c \in Bad
    BY <2>8, <2>11, <2>13
  <2>15. c <= n
    <3> HIDE DEF Bad
    <3> QED BY <2>2, <2>14
  <2> QED BY <1>1, <2>5, <2>8, <2>15
<1>4. r.vid \notin Bad
  BY <1>3
<1> QED BY <1>1, <1>4

\* So the version that stands for what the update left says what that says.
LEMMA LeftSays ==
  ASSUME NEW h \in Handlers, TypeOK, RowsInv, RowsFit, HistoryInv,
         NEW u, NEW v, Undoing(h, u, v),
         NEW d \in u.plan.added, d.item = u.item, NEW b \in rows, d.base = b.vid
  PROVE  \E w \in Withdrawn(u) : SameSpan(w, d) /\ w.body = b.body
<1>1. v.plan = u.plan /\ v \in events /\ v.kind # "access"
  BY DEF Undoing
<1>2. PICK q \in rows : q.vid = d.vid /\ q.base = d.base
  BY <1>1 DEF HistoryInv
<1>3. b.vid # None /\ q.vid <= nextVersion
  BY DEF TypeOK, RowsInv, Rows, None
<1>4. q.body = b.body
  <2>1. PICK o \in rows : o.vid = q.base /\ o.body = q.body
    BY <1>2, <1>3 DEF HistoryInv, BodyFits
  <2> QED BY <1>2, <2>1 DEF RowsFit
<1>5. \A w \in Withdrawn(u) : w \in rows
  BY DEF Withdrawn, Current
<1>6. CASE Mended(u.plan, u.item)
  <2>1. PICK w \in Withdrawn(u) : w.vid = Standing(d.vid) /\ SameSpan(w, d)
    BY <1>6, LeftStands
  <2>2. q.body = w.body
    BY <1>2, <1>3, <1>5, <2>1, StandingBody
  <2> QED BY <1>4, <2>1, <2>2
<1>7. CASE ~ Mended(u.plan, u.item)
  <2>1. PICK w \in Withdrawn(u) : w.vid = d.vid /\ SameSpan(w, d)
    BY <1>7, LeftStands
  <2>2. w = q
    BY <1>2, <1>5, <2>1 DEF RowsFit
  <2> QED BY <1>4, <2>1, <2>2
<1> QED BY <1>6, <1>7

\* A reversal is one revision: from the cut of the update on, its version says
\* again what it said; before the cut it never said anything else.
LEMMA ReversalRevises ==
  ASSUME NEW h \in Handlers, TypeOK, RowsInv, RowsFit, HistoryInv, TxInv(h), tx[h].pc = "build",
         NEW u, NEW v, Undoing(h, u, v),
         NEW p, p.closed = Ids(Withdrawn(u)), p.added = Numbered(Restored(u)), NEW i \in Items
  PROVE  Revises(p, i)
<1>1. v.plan = u.plan /\ Updated(v, u.item) /\ Splits(v) /\ PlanParts(Restored(u), Withdrawn(u))
  BY ReversalParts DEF Undoing, HistoryInv
<1>2. /\ \A n \in p.added : \E d \in Restored(u) : SameSpan(n, d) /\ n.base = d.base
      /\ \A d \in Restored(u) : \E n \in p.added : SameSpan(n, d) /\ n.base = d.base
  BY <1>1, NumberedApart DEF PlanParts
<1>3. \A r \in ClosedBy(p) : r \in Withdrawn(u)
  <2> SUFFICES ASSUME NEW r \in ClosedBy(p) PROVE r \in Withdrawn(u)
    OBVIOUS
  <2>1. PICK w \in Withdrawn(u) : w.vid = r.vid
    BY DEF ClosedBy, Ids
  <2>2. w \in rows /\ r \in rows
    BY DEF Withdrawn, Current, ClosedBy
  <2> QED BY <2>1, <2>2 DEF RowsFit
<1>4. \A w \in Withdrawn(u) : w \in ClosedBy(p) /\ w.vid \in p.closed /\ w.item = u.item
  BY DEF Withdrawn, Current, ClosedBy, Ids
<1>5. \A d \in Restored(u) : \E s \in ClosedBy(u.plan) : SameSpan(s, d) /\ d.base = s.vid /\ s.item = u.item
  <2> SUFFICES ASSUME NEW d \in Restored(u)
               PROVE  \E s \in ClosedBy(u.plan) : SameSpan(s, d) /\ d.base = s.vid /\ s.item = u.item
    OBVIOUS
  <2>1. PICK s \in {q \in rows : q.item = u.item /\ q.vid \in u.plan.closed} :
          d = [item |-> s.item, from |-> s.from, to |-> s.to, base |-> s.vid, live |-> TRUE, access |-> 0]
    BY DEF Restored
  <2> QED BY <2>1 DEF ClosedBy, SameSpan
<1>6. \A s \in ClosedBy(u.plan) : s.item = u.item => \E d \in Restored(u) : SameSpan(s, d) /\ d.base = s.vid
  <2> SUFFICES ASSUME NEW s \in ClosedBy(u.plan), s.item = u.item
               PROVE  \E d \in Restored(u) : SameSpan(s, d) /\ d.base = s.vid
    OBVIOUS
  <2>1. PICK d : d = [item |-> s.item, from |-> s.from, to |-> s.to, base |-> s.vid, live |-> TRUE, access |-> 0]
    OBVIOUS
  <2>2. d \in Restored(u)
    BY <2>1 DEF Restored, ClosedBy
  <2> QED BY <2>1, <2>2 DEF SameSpan
<1>7. \A r \in rows : r.vid # None /\ r.from \in Nat /\ r.to \in Nat /\ r.to <= Forever
  <2> SUFFICES ASSUME NEW r \in rows PROVE r.vid # None /\ r.from \in Nat /\ r.to \in Nat /\ r.to <= Forever
    OBVIOUS
  <2>1. r.vid \in Nat \ {0} /\ r.from \in Instants /\ r.to \in Ends
    BY DEF TypeOK, Rows
  <2>2. r.to \in 0 .. Forever /\ Forever \in Nat
    BY <2>1, Numbers DEF Ends
  <2>3. r.from \in Nat /\ r.vid # None
    BY <2>1, Numbers DEF None
  <2> QED BY <2>2, <2>3
<1>8. CASE i # u.item
  <2>1. \A n \in p.added : n.item # i
    BY <1>2, <1>5, <1>8 DEF SameSpan
  <2>2. \A r \in ClosedBy(p) : r.item # i
    BY <1>3, <1>4, <1>8
  <2>3. 0 \in Instants /\ 0 \in Ends
    BY Numbers DEF Ends
  <2>4. \A r \in Current(i) : ~ Overlaps(r.from, r.to, 0, 0)
    BY <1>7 DEF Current, Overlaps
  <2> QED BY <2>1, <2>2, <2>3, <2>4 DEF Revises, Holds
<1>9. CASE i = u.item
  <2>1. PICK b \in ClosedBy(u.plan) : \E cut \in Instants :
          /\ \A s \in ClosedBy(u.plan) : s.item = i => s = b
          /\ b.from =< cut /\ b.to = Forever
          /\ \A d \in u.plan.added : d.item = i =>
               \/ d.base = b.vid /\ d.from = b.from /\ d.to = cut
               \/ d.base = None /\ d.from = cut /\ d.to = Forever
          /\ b.from < cut => \E d \in u.plan.added : d.item = i /\ d.base = b.vid
    BY <1>1, <1>9 DEF Splits
  <2>2. PICK cut \in Instants :
          /\ \A s \in ClosedBy(u.plan) : s.item = i => s = b
          /\ b.from =< cut /\ b.to = Forever
          /\ \A d \in u.plan.added : d.item = i =>
               \/ d.base = b.vid /\ d.from = b.from /\ d.to = cut
               \/ d.base = None /\ d.from = cut /\ d.to = Forever
          /\ b.from < cut => \E d \in u.plan.added : d.item = i /\ d.base = b.vid
    BY <2>1
  <2>3. b \in rows /\ b.item = i
    <3>1. PICK q \in rows : q.item = i /\ q.vid \in u.plan.closed
      BY <1>1, <1>9 DEF Updated
    <3> QED BY <2>2, <3>1 DEF ClosedBy
  <2>4. /\ cut \in Nat /\ cut < Forever /\ Forever \in Nat /\ Forever \in Ends
        /\ b.from \in Nat /\ b.vid # None
    BY <1>7, <2>3, Numbers DEF Instants, Ends
  <2>5. \A n \in p.added : n.item = i /\ n.from = b.from /\ n.to = Forever /\ n.base = b.vid
    BY <1>2, <1>5, <1>9, <2>2, <2>3 DEF SameSpan
  <2>6. PICK n \in p.added : n.item = i /\ n.from = b.from /\ n.to = Forever
    BY <1>2, <1>6, <1>9, <2>2, <2>3 DEF SameSpan
  <2>7. ASSUME NEW t \in Instants, b.from =< t, t < cut
        PROVE  \E w \in ClosedBy(p) : Holds(w, i, t) /\ w.body = b.body
    <3>1. t \in Nat
      BY Numbers
    <3>2. PICK d \in u.plan.added : d.item = i /\ d.base = b.vid
      BY <2>2, <2>4, <2>7, <3>1
    <3>3. d.from = b.from /\ d.to = cut
      BY <2>2, <2>4, <3>2
    <3>4. PICK w \in Withdrawn(u) : SameSpan(w, d) /\ w.body = b.body
      BY <1>9, <2>3, <3>2, LeftSays
    <3> QED BY <1>4, <2>7, <3>2, <3>3, <3>4 DEF SameSpan, Holds
  <2>8. ASSUME NEW m \in p.added, NEW t \in Instants, Holds(m, i, t)
        PROVE  \/ cut =< t /\ t < Forever
               \/ /\ t < cut
                  /\ \E r \in ClosedBy(p) : Holds(r, i, t) /\ Says(m, r.body)
    <3>1. t \in Nat /\ t < Forever
      BY Numbers DEF Instants
    <3>2. b.from =< t /\ m.base = b.vid
      BY <2>5, <2>8 DEF Holds
    <3>3. CASE t < cut
      <4>1. PICK w \in ClosedBy(p) : Holds(w, i, t) /\ w.body = b.body
        BY <2>7, <3>2, <3>3
      <4> QED BY <2>3, <2>4, <3>2, <3>3, <4>1 DEF Says
    <3> QED BY <2>4, <3>1, <3>3
  <2>9. ASSUME NEW r \in ClosedBy(p), NEW t \in Instants, Holds(r, i, t), t < cut
        PROVE  Holds(n, i, t)
    <3>1. PICK d \in u.plan.added : d.item = u.item /\ SameSpan(r, d)
      BY <1>3, WithdrawnLeft
    <3>2. d.from = b.from \/ d.from = cut
      BY <1>9, <2>2, <3>1
    <3>3. t \in Nat /\ t < Forever /\ d.from <= t
      BY <2>9, <3>1, Numbers DEF Holds, SameSpan, Instants
    <3>4. b.from <= t
      BY <2>4, <2>9, <3>2, <3>3
    <3> QED BY <2>6, <3>3, <3>4 DEF Holds
  <2>10. ASSUME NEW r \in Current(i), Overlaps(r.from, r.to, cut, Forever)
         PROVE  r.vid \in p.closed
    <3> SUFFICES ASSUME r.vid \notin p.closed PROVE FALSE
      OBVIOUS
    <3>1. PICK d \in Restored(u) : d.item = i /\ d.from = b.from /\ d.to = Forever
      BY <1>6, <1>9, <2>2, <2>3 DEF SameSpan
    <3>2. r \in rows /\ r.item = i /\ IsCurrent(r) /\ \A w \in Withdrawn(u) : w.vid # r.vid
      BY <1>4 DEF Current
    <3>3. ~ Overlaps(r.from, r.to, d.from, d.to)
      BY <1>1, <3>1, <3>2 DEF PlanParts
    <3> QED BY <1>7, <2>2, <2>4, <2>10, <3>1, <3>2, <3>3 DEF Overlaps
  <2>11. ~ \E t \in Instants : Forever =< t
    BY Numbers DEF Instants
  <2>12. Revises(p, i)
    <3>1. cut =< Forever /\ Forever =< Forever
      BY <2>4
    <3>2. \E m \in p.added : m.item = i /\ m.from =< cut /\ Forever =< m.to
      BY <2>2, <2>4, <2>6
    <3>3. \A m \in p.added, t \in Instants : Holds(m, i, t) =>
            \/ cut =< t /\ t < Forever
            \/ /\ t < cut \/ Forever =< t
               /\ \E r \in ClosedBy(p) : Holds(r, i, t) /\ Says(m, r.body)
      BY <2>8
    <3>4. \A r \in ClosedBy(p), t \in Instants : Holds(r, i, t) /\ (t < cut \/ Forever =< t) =>
            \E m \in p.added : Holds(m, i, t)
      BY <2>9, <2>11
    <3>5. \A r \in Current(i) : Overlaps(r.from, r.to, cut, Forever) => r.vid \in p.closed
      BY <2>10
    <3> QED BY <2>4, <3>1, <3>2, <3>3, <3>4, <3>5 DEF Revises
  <2> QED BY <2>12
<1> QED BY <1>8, <1>9

-----------------------------------------------------------------------------
\* The builds, and the refinement.

\* What any build plans: one revision of each item, an update one split.
LEMMA BuildSays ==
  ASSUME NEW h \in Handlers, NEW now, NEW name, Building(h, now, name), HistoryInv,
         \A w \in events : w.kind # "access" => EventFits(w),
         tx[h].ask.reverts # {} => Undoable(tx[h].undo),
         NEW x, x.ask = tx[h].ask, x.plan.closed = Ids(MetBy(h, now, name)),
         x.plan.added = Numbered(DraftsOf(h, now, name))
  PROVE  Splits(x) /\ \A i \in Items : Revises(x.plan, i)
<1>1. TypeOK /\ RowsInv /\ RowsFit /\ TxInv(h) /\ tx[h].pc = "build"
  BY DEF Building
<1>2. PICK D : D = DraftsOf(h, now, name)
  OBVIOUS
<1>3. PICK H : H = MetBy(h, now, name)
  OBVIOUS
<1>4. PICK p : p = x.plan
  OBVIOUS
<1>5. p.closed = Ids(H) /\ p.added = Numbered(D) /\ x.plan.closed = Ids(H) /\ x.plan.added = Numbered(D)
  BY <1>2, <1>3, <1>4
<1>6. CASE /\ D = Drafts(Changes(h, now, name), tx[h].seen)
           /\ H = UNION {Hits(c, tx[h].seen) : c \in Changes(h, now, name)}
  <2>1. Splits(x)
    BY <1>5, <1>6, WriteSplits
  <2>2. \A i \in Items : Revises(p, i)
    BY <1>5, <1>6, WriteRevises
  <2> QED BY <1>4, <2>1, <2>2
<1>7. CASE /\ tx[h].ask.updates = {}
           /\ D = Restored(tx[h].undo) /\ H = Withdrawn(tx[h].undo)
           /\ \E v : Undoing(h, tx[h].undo, v)
  <2>1. PICK u : u = tx[h].undo
    OBVIOUS
  <2>2. PICK v : Undoing(h, u, v)
    BY <1>7, <2>1
  <2>3. Splits(x)
    BY <1>7 DEF Splits, Updated
  <2>4. \A i \in Items : Revises(p, i)
    BY <1>1, <1>5, <1>7, <2>1, <2>2, ReversalRevises
  <2> QED BY <1>4, <2>3, <2>4
<1> QED BY <1>2, <1>3, <1>6, <1>7, BuildForm

\* The plan that a build leaves, if it is not refused.
LEMMA BuildPlans ==
  ASSUME IInv, FitInv, NEW h \in Handlers, Build(h)
  PROVE  \/ tx'[h].pc # "store" /\ \A g \in Handlers \ {h} : tx'[g] = tx[g]
         \/ \E name, x :
              /\ Building(h, clock + 1, name)
              /\ tx[h].ask.reverts # {} => Undoable(tx[h].undo)
              /\ tx'[h] = x /\ \A g \in Handlers \ {h} : tx'[g] = tx[g]
              /\ x.ask = tx[h].ask /\ x.undo = tx[h].undo /\ clock + 1 =< x.plan.at
              /\ x.plan.closed = Ids(MetBy(h, clock + 1, name))
              /\ x.plan.added = Numbered(DraftsOf(h, clock + 1, name))
<1> DEFINE a == tx[h].ask
           now == clock + 1
           created == {e \in a.edits : e.item = New}
<1>1. /\ TypeOK /\ tx \in [Handlers -> Txs] /\ TxInv(h) /\ RowsInv
      /\ clock \in Nat /\ nextItem \in Nat /\ RowsFit /\ Fits(h)
  BY DEF IInv, TypeOK, FitInv, Fits
<1>2. /\ tx[h].pc = "build"
      /\ \/ Reply(h, "temporal", 0) \/ Reply(h, "authorityLost", 0)
            \/ Reply(h, "versionConflict", 0)
         \/ /\ \A e \in a.edits : InOrder(e, now)
            /\ a.reverts # {} => Undoable(tx[h].undo)
            /\ Planned(h, now)
  BY DEF Build
<1>3. ASSUME NEW what, Reply(h, what, 0)
      PROVE  tx'[h].pc # "store" /\ \A g \in Handlers \ {h} : tx'[g] = tx[g]
  BY <1>1, <1>3 DEF Reply, Ended
<1>4. CASE /\ \A e \in a.edits : InOrder(e, now)
           /\ a.reverts # {} => Undoable(tx[h].undo)
           /\ Planned(h, now)
  <2>1. PICK name \in [created -> nextItem .. nextItem + Cardinality(created) - 1] :
          LET u    == tx[h].undo
              C    == Changes(h, now, name)
              D    == Drafts(C, tx[h].seen) \cup Restored(u)
              hits == Withdrawn(u) \cup UNION {Hits(c, tx[h].seen) : c \in C}
          IN
          /\ \A e, f \in created : e # f => name[e] # name[f]
          /\ \A e \in created : name[e] \in Items
          /\ \E t \in Instants :
               /\ SelectT(t, now, {r.rec : r \in hits} \cup {u.plan.at})
               /\ tx' = [tx EXCEPT ![h] =
                    [pc |-> "store", ask |-> tx[h].ask, pending |-> {}, undo |-> u,
                     held |-> tx[h].held, seen |-> {},
                     plan |-> [event |-> NewEvent, at |-> t, closed |-> {r.vid : r \in hits},
                               added |-> Numbered(D)],
                     reply |-> "none", answer |-> 0]]
    BY <1>4 DEF Planned
  <2>2. PICK D : D = DraftsOf(h, now, name)
    OBVIOUS
  <2>3. PICK H : H = MetBy(h, now, name)
    OBVIOUS
  <2>4. PICK t \in Instants :
          /\ SelectT(t, now, {r.rec : r \in H} \cup {tx[h].undo.plan.at})
          /\ tx' = [tx EXCEPT ![h] =
               [pc |-> "store", ask |-> tx[h].ask, pending |-> {}, undo |-> tx[h].undo,
                held |-> tx[h].held, seen |-> {},
                plan |-> [event |-> NewEvent, at |-> t, closed |-> Ids(H),
                          added |-> Numbered(D)],
                reply |-> "none", answer |-> 0]]
    BY <2>1, <2>2, <2>3 DEF DraftsOf, MetBy, Ids
  <2>5. PICK x : x = [pc |-> "store", ask |-> tx[h].ask, pending |-> {}, undo |-> tx[h].undo,
                      held |-> tx[h].held, seen |-> {},
                      plan |-> [event |-> NewEvent, at |-> t, closed |-> Ids(H),
                                added |-> Numbered(D)],
                      reply |-> "none", answer |-> 0]
    OBVIOUS
  <2>6. /\ x.ask = a /\ x.undo = tx[h].undo /\ now =< x.plan.at
        /\ x.plan.closed = Ids(H) /\ x.plan.added = Numbered(D)
    BY <2>4, <2>5 DEF SelectT
  <2>7. tx'[h] = x /\ \A g \in Handlers \ {h} : tx'[g] = tx[g]
    BY <1>1, <2>4, <2>5, TxUpdate
  <2>8. now \in Instants
    <3>1. now \in Nat /\ t \in Nat /\ t < Forever /\ now <= t /\ Forever \in Nat
      BY <1>1, <2>4, Numbers DEF SelectT, Instants
    <3> QED BY <3>1 DEF Instants
  <2>9. NewNames(h, name)
    <3>0. nextItem \in Nat
      BY <1>1
    <3>n. \A e \in created : name[e] \in nextItem .. nextItem + Cardinality(created) - 1
      <4> HIDE DEF created
      <4> QED BY <2>1
    <3>1. \A e \in created : nextItem <= name[e]
      <4> HIDE DEF created
      <4> QED BY <3>0, <3>n
    <3> QED BY <2>1, <3>1 DEF NewNames
  <2>10. Building(h, now, name)
    BY <1>1, <1>2, <1>4, <2>8, <2>9 DEF Building
  <2> QED BY <1>4, <2>2, <2>3, <2>6, <2>7, <2>10
<1> QED BY <1>2, <1>3, <1>4

\* So what is planned is one revision of each item.
LEMMA BuildHistory ==
  ASSUME IInv, IInv', FitInv, FitInv', HistoryInv, NEW h \in Handlers, Build(h)
  PROVE  HistoryInv'
<1>1. rows' = rows /\ events' = events
  BY DEF Build
<1>2. CASE tx'[h].pc # "store" /\ \A g \in Handlers \ {h} : tx'[g] = tx[g]
  BY <1>1, <1>2, QuietHistory
<1>3. ASSUME NEW name, NEW x, Building(h, clock + 1, name),
             tx[h].ask.reverts # {} => Undoable(tx[h].undo),
             tx'[h] = x, \A g \in Handlers \ {h} : tx'[g] = tx[g],
             x.ask = tx[h].ask, x.plan.closed = Ids(MetBy(h, clock + 1, name)),
             x.plan.added = Numbered(DraftsOf(h, clock + 1, name))
      PROVE  HistoryInv'
  <2>1. PICK now : now = clock + 1
    OBVIOUS
  <2>2. Splits(x) /\ \A i \in Items : Revises(x.plan, i)
    <3>1. \A w \in events : w.kind # "access" => EventFits(w)
      BY DEF FitInv
    <3>2. /\ Building(h, now, name) /\ x.plan.closed = Ids(MetBy(h, now, name))
          /\ x.plan.added = Numbered(DraftsOf(h, now, name))
      BY <1>3, <2>1
    <3> QED BY <1>3, <3>1, <3>2, BuildSays
  <2>3. RowsTell /\ RowsLast /\ BodyFits' /\ \A g \in Handlers : RowsKeep(g)
    BY <1>1, RowsSame DEF RowsTell, Tells, BodyFits, HistoryInv
  <2>4. Splits(x)' /\ \A i \in Items : Revises(x.plan, i)'
    BY <1>1, <2>2 DEF Splits, Revises, ClosedBy, Updated, Says, Current
  <2>5. PlanSays(h)'
    <3>1. PICK p : p = x.plan
      OBVIOUS
    <3>2. \A i \in Items : Revises(p, i)'
      BY <2>4, <3>1
    <3>3. tx'[h].plan = p
      BY <1>3, <3>1
    <3>4. \A i \in Items : Revises(tx[h].plan, i)'
      BY <3>2, <3>3, RevisesOfTx
    <3>5. Splits(tx[h])'
      BY <1>3, <2>4, SplitsOfTx
    <3> QED BY <3>4, <3>5 DEF PlanSays
  <2>6. \A g \in Handlers : \/ tx'[g] = tx[g] /\ RowsKeep(g)
                            \/ tx'[g].pc = "store" => PlanSays(g)'
    BY <1>3, <2>3, <2>5
  <2> QED BY <1>1, <2>3, <2>6, HistoryStays
<1> QED BY <1>2, <1>3, BuildPlans

\* The first table is what the history begins with.
LEMMA InitHistoryInv ==
  ASSUME Init
  PROVE  HistoryInv
<1>1. \A r \in rows : r.base = None
  BY DEF Init
<1>2. events = {} /\ \A h \in Handlers : tx[h].pc # "store"
  BY DEF Init, NoTx
<1> QED BY <1>1, <1>2 DEF HistoryInv, BodyFits

\* Every step keeps what versions say, and is a step of the history or none.
LEMMA NextHistory ==
  ASSUME IInv, IInv', FitInv, FitInv', HistoryInv, [Next]_vars
  PROVE  HistoryInv' /\ (History!Next \/ Belief' = Belief)
<1>1. ASSUME rows' = rows, events' = events,
             \A g \in Handlers : tx'[g] = tx[g] \/ tx'[g].pc # "store"
      PROVE  HistoryInv' /\ Belief' = Belief
  <2>1. HistoryInv'
    BY <1>1, QuietHistory
  <2>2. Belief' = Belief
    BY <1>1 DEF Belief, KnownOf
  <2> QED BY <2>1, <2>2
<1>2. ASSUME NEW h \in Handlers,
             \/ \E a \in Asks : Begin(h, a) \/ BeginReversal(h, a)
             \/ LockRequest(h) \/ \E i \in Items : LockItem(h, i)
             \/ Decide(h) \/ Rollback(h)
      PROVE  HistoryInv' /\ Belief' = Belief
  <2>1. /\ rows' = rows /\ events' = events
        /\ \A g \in Handlers : tx'[g] = tx[g] \/ tx'[g].pc # "store"
    BY <1>2, QuietSteps
  <2> QED BY <1>1, <2>1
<1>3. ASSUME NEW h \in Handlers, Build(h) PROVE HistoryInv' /\ Belief' = Belief
  <2>1. HistoryInv'
    BY <1>3, BuildHistory
  <2>2. rows' = rows
    BY <1>3 DEF Build
  <2> QED BY <2>1, <2>2 DEF Belief, KnownOf
<1>4. ASSUME NEW h \in Handlers, Store(h) PROVE HistoryInv' /\ (History!Next \/ Belief' = Belief)
  BY <1>4, StoreHistory, StoreHistoryInv
<1>5. ASSUME NEW r \in rows, OpenRead(r) PROVE HistoryInv' /\ Belief' = Belief
  BY <1>1, <1>5 DEF OpenRead
<1>6. ASSUME NEW x \in reader, CloseRead(x) PROVE HistoryInv' /\ Belief' = Belief
  BY <1>6, CloseReadHistory
<1>7. CASE StepBack
  BY <1>1, <1>7 DEF StepBack
<1>8. CASE UNCHANGED vars
  BY <1>1, <1>8 DEF vars
<1> QED BY <1>2, <1>3, <1>4, <1>5, <1>6, <1>7, <1>8 DEF Next

(* What versions say is kept: a version with a base says what its base     *)
(* says, an update is one split of one open version, and a plan that waits *)
(* for its commit stays one revision of each item, whatever the others     *)
(* commit before it (temporal.py:106-138, reversal.py:95-103).             *)
THEOREM HistoryInvariance == Spec => []HistoryInv
<1>1. Init => HistoryInv
  BY InitHistoryInv
<1>2. IInv /\ IInv' /\ FitInv /\ FitInv' /\ HistoryInv /\ [Next]_vars => HistoryInv'
  BY NextHistory
<1> QED BY <1>1, <1>2, Invariance, FitInvariance, PTL DEF Spec

(* The write path implements the history of single revisions: what readers *)
(* are told begins as one version of each stored item, and every step of   *)
(* any transaction is one revision from an instant on that leaves what was *)
(* known before, or changes nothing that is told (temporal.py:106-138).    *)
THEOREM HistoryRefined == Spec => ImplementsHistory
<1>1. Init => History!Init
  BY InitHistory
<1>2. IInv /\ IInv' /\ FitInv /\ FitInv' /\ HistoryInv /\ [Next]_vars => [History!Next]_Belief
  BY NextHistory
<1> QED BY <1>1, <1>2, Invariance, FitInvariance, HistoryInvariance, PTL
        DEF Spec, ImplementsHistory, History!Spec

-----------------------------------------------------------------------------
\* What an update made of what is believed.

\* What the rows of R say to a reader at k of item i at v.
Bodies(R, i, k, v) == {r.body : r \in {s \in R : Shown(s, i, k, v)}}

\* What is believed of an instant is what the table says of it.
LEMMA BelievedForm ==
  ASSUME NEW i, NEW k, NEW v
  PROVE  Believed(i, k, v) = Bodies(rows, i, k, v) /\ Believed(i, k, v)' = Bodies(rows', i, k, v)
<1>1. ValidAt(KnownOf(i, k), v) = {s \in rows : Shown(s, i, k, v)}
  BY DEF ValidAt, KnownOf, Shown, Holds
<1>2. ValidAt(KnownOf(i, k), v)' = {s \in rows' : Shown(s, i, k, v)}
  BY DEF ValidAt, KnownOf, Shown, Holds
<1> QED BY <1>1, <1>2 DEF Believed, Bodies

\* An allowed table says one thing of an instant, or nothing.
LEMMA BodiesAre ==
  ASSUME NEW R \in SUBSET Rows, Allowed(R), NEW i, NEW k \in Instants, NEW v \in Instants
  PROVE  /\ \A r, s \in R : Shown(r, i, k, v) /\ Shown(s, i, k, v) => r = s
         /\ \A r \in R : Shown(r, i, k, v) => Bodies(R, i, k, v) = {r.body}
         /\ (\A r \in R : ~ Shown(r, i, k, v)) => Bodies(R, i, k, v) = {}
<1>1. \A r, s \in R : Shown(r, i, k, v) /\ Shown(s, i, k, v) => r = s
  BY ToldIs
<1> QED BY <1>1 DEF Bodies

\* The update v of item i as the table has it: the version r that it closed at
\* its instant, and what it recorded at that instant.
Traced(v, i, r, cut) ==
  /\ r \in rows /\ r.item = i /\ r.vid \in v.plan.closed
  /\ r.sup = v.plan.at /\ r.rec < v.plan.at /\ r.to = Forever /\ r.from =< cut /\ cut \in Instants
  /\ \A q \in rows : q.vid \in v.plan.closed /\ q.item = i => q = r
  /\ \A q \in rows : q.sup = v.plan.at => q.vid \in v.plan.closed
  /\ \A q \in rows : q.rec = v.plan.at =>
       \E d \in v.plan.added : d.vid = q.vid /\ SameSpan(d, q) /\ d.base = q.base
  /\ \A d \in v.plan.added : \E q \in rows :
       d.vid = q.vid /\ SameSpan(d, q) /\ d.base = q.base /\ q.rec = v.plan.at
  /\ \A d \in v.plan.added : d.item = i =>
       \/ d.base = r.vid /\ d.from = r.from /\ d.to = cut
       \/ d.base = None /\ d.from = cut /\ d.to = Forever
  /\ r.from < cut => \E d \in v.plan.added : d.item = i /\ d.base = r.vid
  /\ v.plan.at > 0 /\ v.plan.at \in Instants /\ r.vid # None

\* The table still has every update of the log.
LEMMA UpdateTraced ==
  ASSUME IInv, FitInv, HistoryInv, LogInv, setBacks = 0, NEW v \in events, v.kind # "access",
         NEW i \in Items, Updated(v, i)
  PROVE  \E r, cut : Traced(v, i, r, cut)
<1>1. /\ TypeOK /\ RowsFit /\ EventFits(v) /\ Splits(v) /\ v.plan.at > 0 /\ v.plan \in Plans
      /\ \A w \in events : w.kind # "access" /\ w.plan.at = v.plan.at => w = v
      /\ rows \in SUBSET Rows
  BY DEF IInv, FitInv, HistoryInv, LogInv, Dated, TypeOK, Events
<1>2. v.plan.at \in Instants /\ v.plan.at \in Nat /\ v.plan.at # Forever
  BY <1>1, Numbers DEF Plans
<1>3. PICK r \in ClosedBy(v.plan), cut \in Instants :
      /\ \A s \in ClosedBy(v.plan) : s.item = i => s = r
      /\ r.from =< cut /\ r.to = Forever
      /\ \A d \in v.plan.added : d.item = i =>
           \/ d.base = r.vid /\ d.from = r.from /\ d.to = cut
           \/ d.base = None /\ d.from = cut /\ d.to = Forever
      /\ r.from < cut => \E d \in v.plan.added : d.item = i /\ d.base = r.vid
  BY <1>1 DEF Splits
<1>4. r \in rows /\ r.vid \in v.plan.closed /\ r.item = i
  BY <1>3 DEF Updated, ClosedBy
<1>5. r.sup = v.plan.at /\ r.rec < v.plan.at
  BY <1>1, <1>4 DEF EventFits, RowsFit, Allowed
<1>6. ASSUME NEW q \in rows, q.sup = v.plan.at PROVE q.vid \in v.plan.closed
  BY <1>1, <1>2, <1>6 DEF LogInv, RowLogged, IsCurrent
<1>7. ASSUME NEW d \in v.plan.added
      PROVE  \E q \in rows : d.vid = q.vid /\ SameSpan(d, q) /\ d.base = q.base /\ q.rec = v.plan.at
  <2>1. PICK q \in rows : q.vid = d.vid /\ SameSpan(q, d)
    BY <1>1 DEF EventFits
  <2>2. PICK s \in rows : s.vid = d.vid /\ s.base = d.base
    BY DEF HistoryInv
  <2>3. PICK o \in rows : o.vid = d.vid /\ o.rec = v.plan.at
    BY DEF LogInv
  <2>4. q = s /\ q = o
    BY <1>1, <2>1, <2>2, <2>3 DEF RowsFit
  <2> QED BY <2>1, <2>2, <2>3, <2>4 DEF SameSpan
<1>8. ASSUME NEW q \in rows, q.rec = v.plan.at
      PROVE  \E d \in v.plan.added : d.vid = q.vid /\ SameSpan(d, q) /\ d.base = q.base
  <2>1. PICK d \in v.plan.added : d.vid = q.vid
    BY <1>1, <1>8 DEF LogInv, RowLogged
  <2>2. PICK s \in rows : d.vid = s.vid /\ SameSpan(d, s) /\ d.base = s.base
    BY <1>7
  <2> QED BY <1>1, <2>1, <2>2 DEF RowsFit
<1>9. r.vid # None
  BY <1>1, <1>4 DEF Rows, None
<1> QED BY <1>1, <1>2, <1>3, <1>4, <1>5, <1>6, <1>7, <1>8, <1>9 DEF Traced, ClosedBy

\* What readers of the instants before and at the update are told of t.
ToldBy(v, i, r, cut, at, t) ==
  /\ t < r.from => Bodies(rows, i, at - 1, t) = Bodies(rows, i, at, t)
  /\ r.from =< t => Bodies(rows, i, at - 1, t) = {r.body}
  /\ r.from =< t /\ t < cut => Bodies(rows, i, at, t) = {r.body}
  /\ cut =< t =>
       /\ \A d \in v.plan.added : d.item = i /\ d.base = None =>
            Bodies(rows, i, at, t) = {d.vid} /\ d.vid # r.body
       /\ (\A d \in v.plan.added : ~ (d.item = i /\ d.base = None)) =>
            Bodies(rows, i, at, t) = {}

\* An update changes what is believed from its cut on, and says something new.
LEMMA UpdateTold ==
  ASSUME IInv, FitInv, HistoryInv, LogInv, NEW v \in events, v.kind # "access",
         NEW i \in Items, NEW r, NEW cut, Traced(v, i, r, cut),
         NEW at, at = v.plan.at, NEW t \in Instants
  PROVE  ToldBy(v, i, r, cut, at, t)
<1>1. /\ rows \in SUBSET Rows /\ Allowed(rows) /\ RowsFit
      /\ at \in Nat /\ at \in Instants /\ at > 0 /\ at < Forever /\ at - 1 \in Instants
      /\ t \in Nat /\ t < Forever /\ cut \in Nat /\ Forever \in Nat
  BY Numbers DEF IInv, TypeOK, FitInv, RowsFit, Traced, Instants
<1>2. \A q \in rows : /\ q.rec \in Nat /\ q.sup \in Nat /\ q.from \in Nat /\ q.to \in Nat
                      /\ q.rec < q.sup
  <2> SUFFICES ASSUME NEW q \in rows
               PROVE  /\ q.rec \in Nat /\ q.sup \in Nat /\ q.from \in Nat /\ q.to \in Nat
                      /\ q.rec < q.sup
    OBVIOUS
  <2>1. q.rec \in Instants /\ q.sup \in Ends /\ q.from \in Instants /\ q.to \in Ends
    BY <1>1 DEF Rows
  <2>2. q.rec < q.sup
    BY <1>1 DEF Allowed
  <2> QED BY <2>1, <2>2, Numbers
<1>3. /\ r \in rows /\ r.item = i /\ r.vid \in v.plan.closed
      /\ r.sup = at /\ r.rec < at /\ r.to = Forever /\ r.from =< cut
  BY DEF Traced
<1>4. ASSUME NEW k \in Instants
      PROVE  /\ \A q, s \in rows : Shown(q, i, k, t) /\ Shown(s, i, k, t) => q = s
             /\ \A q \in rows : Shown(q, i, k, t) => Bodies(rows, i, k, t) = {q.body}
             /\ (\A q \in rows : ~ Shown(q, i, k, t)) => Bodies(rows, i, k, t) = {}
  BY <1>1, BodiesAre
<1>5. ASSUME t < r.from PROVE Bodies(rows, i, at - 1, t) = Bodies(rows, i, at, t)
  <2>1. ASSUME NEW q \in rows, q.item = i, q.from =< t PROVE q.rec # at /\ q.sup # at
    <3>1. q.sup # at
      BY <1>1, <1>2, <1>3, <1>5, <2>1 DEF Traced
    <3>2. ASSUME q.rec = at PROVE FALSE
      <4>1. PICK d \in v.plan.added : SameSpan(d, q)
        BY <3>2 DEF Traced
      <4>2. d.item = i /\ (d.from = r.from \/ d.from = cut)
        BY <2>1, <4>1 DEF Traced, SameSpan
      <4> QED BY <1>1, <1>2, <1>3, <1>5, <2>1, <4>1, <4>2 DEF SameSpan
    <3> QED BY <3>1, <3>2
  <2>2. \A q \in rows : Shown(q, i, at - 1, t) <=> Shown(q, i, at, t)
    BY <1>1, <1>2, <2>1 DEF Shown, Holds
  <2> QED BY <2>2 DEF Bodies
<1>6. ASSUME r.from =< t
      PROVE  /\ Shown(r, i, at - 1, t) /\ ~ Shown(r, i, at, t)
             /\ Bodies(rows, i, at - 1, t) = {r.body}
             /\ \A q \in rows : Shown(q, i, at, t) => q.rec = at
  <2>1. Shown(r, i, at - 1, t) /\ ~ Shown(r, i, at, t)
    BY <1>1, <1>2, <1>3, <1>6 DEF Shown, Holds
  <2>2. ASSUME NEW q \in rows, Shown(q, i, at, t) PROVE q.rec = at
    <3> SUFFICES ASSUME q.rec # at PROVE FALSE
      OBVIOUS
    <3>1. Shown(q, i, at - 1, t)
      BY <1>1, <1>2, <2>2 DEF Shown, Holds
    <3> QED BY <1>1, <1>3, <1>4, <2>1, <2>2, <3>1
  <2> QED BY <1>1, <1>3, <1>4, <2>1, <2>2
<1>7. ASSUME NEW d \in v.plan.added, d.item = i, d.from =< t, t < d.to
      PROVE  \E q \in rows : /\ q.vid = d.vid /\ q.base = d.base
                             /\ Bodies(rows, i, at, t) = {q.body}
  <2>1. PICK q \in rows : q.vid = d.vid /\ SameSpan(d, q) /\ d.base = q.base /\ q.rec = at
    BY DEF Traced
  <2>2. Shown(q, i, at, t)
    BY <1>1, <1>2, <1>7, <2>1 DEF Shown, Holds, SameSpan
  <2> QED BY <1>1, <1>4, <2>1, <2>2
<1>8. ASSUME r.from =< t, t < cut PROVE Bodies(rows, i, at, t) = {r.body}
  <2>1. PICK d \in v.plan.added : d.item = i /\ d.base = r.vid
    BY <1>1, <1>2, <1>3, <1>8 DEF Traced
  <2>2. d.from = r.from /\ d.to = cut
    BY <2>1 DEF Traced
  <2>3. PICK q \in rows : q.vid = d.vid /\ q.base = d.base /\ Bodies(rows, i, at, t) = {q.body}
    BY <1>7, <1>8, <2>1, <2>2
  <2>4. PICK s \in rows : s.vid = q.base /\ s.body = q.body
    BY <2>1, <2>3 DEF HistoryInv, BodyFits, Traced
  <2>5. s = r
    BY <1>1, <1>3, <2>1, <2>3, <2>4 DEF RowsFit
  <2> QED BY <2>3, <2>4, <2>5
<1>9. ASSUME cut =< t, NEW d \in v.plan.added, d.item = i, d.base = None
      PROVE  Bodies(rows, i, at, t) = {d.vid} /\ d.vid # r.body
  <2>1. d.from = cut /\ d.to = Forever
    BY <1>9 DEF Traced
  <2>2. PICK q \in rows : q.vid = d.vid /\ q.base = d.base /\ Bodies(rows, i, at, t) = {q.body}
    BY <1>1, <1>7, <1>9, <2>1
  <2>3. q.body = d.vid
    BY <1>9, <2>2 DEF LogInv, RowLogged
  <2>4. r.body =< r.vid /\ r.vid < d.vid /\ r.body \in Nat /\ r.vid \in Nat /\ q.vid \in Nat
    BY <1>1, <1>3, <1>9 DEF LogInv, RowLogged, Rises, Rows
  <2> QED BY <2>2, <2>3, <2>4
<1>10. ASSUME cut =< t, \A d \in v.plan.added : ~ (d.item = i /\ d.base = None)
       PROVE  Bodies(rows, i, at, t) = {}
  <2>1. ASSUME NEW q \in rows, Shown(q, i, at, t) PROVE FALSE
    <3>1. q.rec = at
      BY <1>1, <1>2, <1>3, <1>6, <1>10, <2>1
    <3>2. PICK d \in v.plan.added : SameSpan(d, q) /\ d.base = q.base
      BY <3>1 DEF Traced
    <3>3. d.item = i /\ d.to = cut
      BY <1>10, <2>1, <3>2 DEF Traced, SameSpan, Shown, Holds
    <3> QED BY <1>1, <1>10, <2>1, <3>2, <3>3 DEF SameSpan, Shown, Holds
  <2> QED BY <1>1, <1>4, <2>1
<1> QED BY <1>5, <1>6, <1>8, <1>9, <1>10 DEF ToldBy

-----------------------------------------------------------------------------
\* What a reversal makes of it.

\* Plan p takes back what update v did to the version r of item i: it restores
\* r alone, closes what stands for all that the update left, which says what the
\* update made it say, and nothing else of the item is where r was.
TakesBack(p, v, i, r) ==
  /\ \A d \in p.added : d.base = r.vid /\ SameSpan(d, r)
  /\ \E d \in p.added : d.base = r.vid
  /\ \A w \in rows : w.vid \in p.closed =>
       \E d \in v.plan.added : /\ d.item = i /\ SameSpan(w, d)
                               /\ d.base = r.vid => w.body = r.body
                               /\ d.base = None => w.body = d.vid
  /\ \A d \in v.plan.added : d.item = i => \E w \in rows : w.vid \in p.closed /\ SameSpan(w, d)
  /\ \A d \in p.added, w \in rows :
       w.item = i /\ IsCurrent(w) /\ w.vid \notin p.closed
       => ~ Overlaps(w.from, w.to, r.from, r.to)

\* The plan of a reversal that waits takes back its update.
LEMMA PlanUndoes ==
  ASSUME IInv, FitInv, HistoryInv, LogInv, NEW h \in Handlers, tx[h].pc = "store",
         tx[h].ask.reverts # {}, NEW v \in events, v.kind # "access",
         NEW u, u = tx[h].undo, v.plan = u.plan,
         NEW p, p = tx[h].plan, NEW r, NEW cut, Traced(v, u.item, r, cut)
  PROVE  TakesBack(p, v, u.item, r)
<1>1. TypeOK /\ RowsFit /\ Undoes(u, p) /\ PlanFits(h) /\ Keeps(tx[h]) /\ rows \in SUBSET Rows
  <2>1. Undoes(u, p) /\ PlanFits(h) /\ TypeOK /\ RowsFit
    BY DEF LogInv, FitInv, IInv
  <2> QED BY <2>1 DEF PlanFits, TypeOK
<1>2. /\ r \in rows /\ r.item = u.item /\ r.vid \in v.plan.closed /\ r.vid # None
      /\ \A q \in rows : q.vid \in v.plan.closed /\ q.item = u.item => q = r
  BY DEF Traced
<1>3. ASSUME NEW d \in p.added PROVE d.base = r.vid /\ SameSpan(d, r)
  <2>1. PICK q \in rows : q.vid = d.base /\ SameSpan(q, d)
    BY <1>1 DEF Keeps
  <2>2. d.item = u.item /\ d.base \in v.plan.closed
    BY <1>1 DEF Undoes
  <2>3. q = r
    BY <1>2, <2>1, <2>2 DEF SameSpan
  <2> QED BY <2>1, <2>3 DEF SameSpan
<1>4. \E d \in p.added : d.base = r.vid
  BY <1>1, <1>2 DEF Undoes, ClosedBy
<1>5. ASSUME NEW w \in rows, w.vid \in p.closed
      PROVE  \E d \in v.plan.added : /\ d.item = u.item /\ SameSpan(w, d)
                                     /\ d.base = r.vid => w.body = r.body
                                     /\ d.base = None => w.body = d.vid
  <2>1. PICK d \in v.plan.added, b \in rows :
          d.item = u.item /\ SameSpan(w, d) /\ b.vid = d.vid /\ b.body = w.body
    BY <1>1, <1>5 DEF Undoes, ClosedBy
  <2>2. PICK q \in rows : d.vid = q.vid /\ d.base = q.base
    BY DEF Traced
  <2>3. q = b
    BY <1>1, <2>1, <2>2 DEF RowsFit
  <2>4. ASSUME d.base = None PROVE b.body = d.vid
    BY <2>1, <2>2, <2>3, <2>4 DEF LogInv, RowLogged
  <2>5. ASSUME d.base = r.vid PROVE b.body = r.body
    <3>1. PICK s \in rows : s.vid = b.base /\ s.body = b.body
      BY <1>2, <2>2, <2>3, <2>5 DEF HistoryInv, BodyFits
    <3>2. s = r
      BY <1>1, <1>2, <2>2, <2>3, <2>5, <3>1 DEF RowsFit
    <3> QED BY <3>1, <3>2
  <2> QED BY <2>1, <2>4, <2>5
<1>6. \A d \in v.plan.added : d.item = u.item => \E w \in rows : w.vid \in p.closed /\ SameSpan(w, d)
  BY <1>1 DEF Undoes, ClosedBy
<1>7. ASSUME NEW d \in p.added, NEW w \in rows, w.item = u.item, IsCurrent(w), w.vid \notin p.closed
      PROVE  ~ Overlaps(w.from, w.to, r.from, r.to)
  <2>1. SameSpan(d, r)
    BY <1>3
  <2>2. ~ Overlaps(w.from, w.to, d.from, d.to)
    BY <1>2, <1>7, <2>1 DEF PlanFits, SameSpan, FitInv
  <2> QED BY <2>1, <2>2 DEF SameSpan
<1> QED BY <1>3, <1>4, <1>5, <1>6, <1>7 DEF TakesBack

\* What readers are told of t now, and will be when the table is R.
ToldAgain(v, i, r, cut, R, t) ==
  LET now == Bodies(rows, i, Forever - 1, t)
      new == Bodies(R, i, Forever - 1, t)
  IN  /\ t < r.from => new = now
      /\ r.from =< t => new = {r.body}
      /\ r.from =< t /\ t < cut => now = {r.body}
      /\ cut =< t => /\ \A d \in v.plan.added : d.item = i /\ d.base = None => now = {d.vid}
                     /\ (\A d \in v.plan.added : ~ (d.item = i /\ d.base = None)) => now = {}

\* The commit of a reversal makes its item say again what the version it
\* restores said, and until then the item says what the update made of it.
LEMMA ReversalTells ==
  ASSUME IInv, FitInv, NEW h \in Handlers, tx[h].pc = "store", NEW v \in events,
         NEW i \in Items, NEW p, p = tx[h].plan, NEW r, NEW cut, Traced(v, i, r, cut),
         TakesBack(p, v, i, r),
         NEW R \in SUBSET Rows, Allowed(R), Passes(p, R), p \in Plans,
         NEW t \in Instants
  PROVE  ToldAgain(v, i, r, cut, R, t)
<1> DEFINE now == Bodies(rows, i, Forever - 1, t)
           new == Bodies(R, i, Forever - 1, t)
           k == Forever - 1
<1>1. /\ rows \in SUBSET Rows /\ Allowed(rows) /\ RowsFit /\ PlanFits(h)
      /\ k \in Nat /\ k \in Instants /\ k < Forever
      /\ t \in Nat /\ t < Forever /\ cut \in Nat /\ Forever \in Nat
      /\ p.at \in Nat /\ p.at =< k
  BY Numbers DEF IInv, TypeOK, FitInv, RowsFit, Traced, Instants, Plans
<1>2. \A q \in rows : /\ q.rec \in Nat /\ q.sup \in Nat /\ q.from \in Nat /\ q.to \in Nat
                      /\ q.rec < q.sup /\ q.sup =< Forever
  <2> SUFFICES ASSUME NEW q \in rows
               PROVE  /\ q.rec \in Nat /\ q.sup \in Nat /\ q.from \in Nat /\ q.to \in Nat
                      /\ q.rec < q.sup /\ q.sup =< Forever
    OBVIOUS
  <2>1. q.rec \in Instants /\ q.sup \in Ends /\ q.from \in Instants /\ q.to \in Ends
    BY <1>1 DEF Rows
  <2>2. q.rec < q.sup
    BY <1>1 DEF Allowed
  <2>3. \A e \in Ends : e \in Nat /\ e =< Forever
    BY <1>1 DEF Ends
  <2> QED BY <2>1, <2>2, <2>3, Numbers
<1>3. /\ r \in rows /\ r.item = i /\ r.to = Forever /\ r.from =< cut /\ r.vid # None
  BY DEF Traced
<1>4. /\ \A q, s \in rows : Shown(q, i, k, t) /\ Shown(s, i, k, t) => q = s
      /\ \A q \in rows : Shown(q, i, k, t) => now = {q.body}
      /\ (\A q \in rows : ~ Shown(q, i, k, t)) => now = {}
  BY <1>1, BodiesAre
<1>5. \A q \in R : Shown(q, i, k, t) => new = {q.body}
  BY <1>1, BodiesAre
<1>6. /\ \A d \in p.added : d.base = r.vid /\ SameSpan(d, r)
      /\ \E d \in p.added : d.base = r.vid
      /\ \A w \in rows : w.vid \in p.closed =>
           \E d \in v.plan.added : /\ d.item = i /\ SameSpan(w, d)
                                   /\ d.base = r.vid => w.body = r.body
                                   /\ d.base = None => w.body = d.vid
      /\ \A d \in v.plan.added : d.item = i =>
           \E w \in rows : w.vid \in p.closed /\ SameSpan(w, d)
      /\ \A d \in p.added, w \in rows :
           w.item = i /\ IsCurrent(w) /\ w.vid \notin p.closed
           => ~ Overlaps(w.from, w.to, r.from, r.to)
  BY DEF TakesBack
<1>7. \A d \in v.plan.added : d.item = i =>
           \/ d.base = r.vid /\ d.from = r.from /\ d.to = cut
           \/ d.base = None /\ d.from = cut /\ d.to = Forever
  BY DEF Traced
<1>8. ASSUME NEW w \in rows, w.vid \in p.closed PROVE IsCurrent(w)
  BY <1>1, <1>8 DEF PlanFits, RowsFit
<1>9. \A q \in rows : Shown(q, i, k, t) <=> Holds(q, i, t) /\ IsCurrent(q)
  BY <1>1, <1>2 DEF Shown, IsCurrent
<1>10. ASSUME NEW d \in v.plan.added, d.item = i, d.from =< t, t < d.to
       PROVE  \E w \in rows : /\ w.vid \in p.closed /\ Shown(w, i, k, t) /\ SameSpan(w, d)
                              /\ now = {w.body}
  <2>1. PICK w \in rows : w.vid \in p.closed /\ SameSpan(w, d)
    BY <1>6, <1>10
  <2>2. Shown(w, i, k, t)
    BY <1>8, <1>9, <1>10, <2>1 DEF SameSpan, Holds
  <2> QED BY <1>4, <2>1, <2>2
<1>11. ASSUME t < r.from PROVE new = now
  <2>1. ASSUME NEW q \in R, Shown(q, i, k, t) PROVE q \in rows
    <3>1. ASSUME NEW s \in Closing(p, rows), q = [s EXCEPT !.sup = p.at] PROVE FALSE
      <4>1. s \in Rows
        BY <1>1 DEF Closing
      <4>2. q.sup = p.at
        BY <3>1, <4>1 DEF Rows
      <4> QED BY <1>1, <2>1, <4>2 DEF Shown
    <3>2. ASSUME NEW d \in p.added, q = Written(d, p.at, rows) PROVE FALSE
      <4>1. q.from = r.from
        BY <1>6, <3>2 DEF Written, SameSpan
      <4> QED BY <1>1, <1>2, <1>3, <1>11, <2>1, <4>1 DEF Shown, Holds
    <3> QED BY <3>1, <3>2 DEF Passes
  <2>2. ASSUME NEW q \in rows, Shown(q, i, k, t) PROVE q \in R
    <3>1. ASSUME q \in Closing(p, rows) PROVE FALSE
      <4>1. PICK d \in v.plan.added : d.item = i /\ SameSpan(q, d)
        BY <1>6, <3>1 DEF Closing
      <4>2. q.from = r.from \/ q.from = cut
        BY <1>7, <4>1 DEF SameSpan
      <4> QED BY <1>1, <1>2, <1>3, <1>11, <2>2, <4>2 DEF Shown, Holds
    <3> QED BY <3>1 DEF Passes
  <2>3. {s \in R : Shown(s, i, k, t)} = {s \in rows : Shown(s, i, k, t)}
    BY <2>1, <2>2
  <2> QED BY <2>3 DEF Bodies
<1>12. ASSUME r.from =< t PROVE new = {r.body}
  <2>1. PICK d \in p.added : d.base = r.vid /\ SameSpan(d, r)
    BY <1>6
  <2>2. PICK s : s = Written(d, p.at, rows)
    OBVIOUS
  <2>3. (CHOOSE q \in rows : q.vid = d.base) = r
    BY <1>1, <1>3, <2>1 DEF RowsFit
  <2>4. /\ s.item = r.item /\ s.from = r.from /\ s.to = r.to /\ s.rec = p.at
        /\ s.sup = Forever /\ s.body = r.body
    BY <1>3, <2>1, <2>2, <2>3 DEF Written, SameSpan
  <2>5. Shown(s, i, k, t)
    BY <1>1, <1>3, <1>12, <2>4 DEF Shown, Holds
  <2> QED BY <1>5, <2>2, <2>4, <2>5 DEF Passes
<1>13. ASSUME r.from =< t, t < cut PROVE now = {r.body}
  <2>1. PICK d \in v.plan.added : d.item = i /\ d.base = r.vid
    BY <1>1, <1>2, <1>3, <1>13 DEF Traced
  <2>2. d.from = r.from /\ d.to = cut
    BY <1>3, <1>7, <2>1
  <2>3. PICK w \in rows : w.vid \in p.closed /\ SameSpan(w, d) /\ now = {w.body}
    BY <1>10, <1>13, <2>1, <2>2
  <2>4. PICK e \in v.plan.added : /\ e.item = i /\ SameSpan(w, e)
                                  /\ e.base = r.vid => w.body = r.body
    BY <1>6, <2>3
  <2>5. e.base = r.vid
    BY <1>1, <1>7, <1>13, <2>2, <2>3, <2>4 DEF SameSpan
  <2> QED BY <2>3, <2>4, <2>5
<1>14. ASSUME cut =< t, NEW d \in v.plan.added, d.item = i, d.base = None
       PROVE  now = {d.vid}
  <2>1. d.from = cut /\ d.to = Forever
    BY <1>3, <1>7, <1>14
  <2>2. PICK w \in rows : w.vid \in p.closed /\ SameSpan(w, d) /\ now = {w.body}
    BY <1>1, <1>10, <1>14, <2>1
  <2>3. PICK e \in v.plan.added : /\ e.item = i /\ SameSpan(w, e)
                                  /\ e.base = None => w.body = e.vid
    BY <1>6, <2>2
  <2>4. e.base = None /\ e.from = cut /\ e.to = Forever
    BY <1>1, <1>7, <1>14, <2>1, <2>2, <2>3 DEF SameSpan
  <2>5. e.vid = d.vid
    <3>1. PICK q \in rows : d.vid = q.vid /\ SameSpan(d, q) /\ q.rec = v.plan.at
      BY DEF Traced
    <3>2. PICK s \in rows : e.vid = s.vid /\ SameSpan(e, s) /\ s.rec = v.plan.at
      BY DEF Traced
    <3>3. Collides(q, s)
      BY <1>1, <1>2, <1>14, <2>1, <2>3, <2>4, <3>1, <3>2 DEF Collides, Overlaps, SameSpan
    <3>4. q = s
      BY <1>1, <3>3 DEF Allowed
    <3> QED BY <3>1, <3>2, <3>4
  <2> QED BY <2>2, <2>3, <2>4, <2>5
<1>15. ASSUME cut =< t, \A d \in v.plan.added : ~ (d.item = i /\ d.base = None)
       PROVE  now = {}
  <2>1. ASSUME NEW q \in rows, Shown(q, i, k, t) PROVE FALSE
    <3>1. q.item = i /\ IsCurrent(q) /\ Overlaps(q.from, q.to, r.from, r.to)
      BY <1>1, <1>2, <1>3, <1>9, <1>15, <2>1 DEF Holds, Overlaps
    <3>2. q.vid \in p.closed
      BY <1>6, <3>1
    <3>3. PICK d \in v.plan.added : d.item = i /\ SameSpan(q, d)
      BY <1>6, <3>2
    <3>4. q.to = cut
      BY <1>7, <1>15, <3>3 DEF SameSpan
    <3> QED BY <1>1, <1>2, <1>15, <2>1, <3>4 DEF Shown, Holds
  <2> QED BY <1>4, <2>1
<1> QED BY <1>11, <1>12, <1>13, <1>14, <1>15 DEF ToldAgain

\* A reversal takes back exactly its update.
LEMMA ReversalCommits ==
  ASSUME IInv, IInv', FitInv, HistoryInv, LogInv, setBacks = 0, NEW h \in Handlers,
         Store(h), tx'[h].reply = "done", tx[h].ask.reverts # {},
         NEW i \in Items, i = tx[h].undo.item, NEW t \in Instants
  PROVE  LET at     == tx[h].undo.plan.at
             before == Believed(i, at - 1, t)
             after  == Believed(i, at, t)
             now    == Believed(i, Forever - 1, t)
         IN /\ before # after => now = after
            /\ Believed(i, Forever - 1, t)' = IF before # after THEN before ELSE now
<1>1. PICK u : u = tx[h].undo
  OBVIOUS
<1>2. PICK p : p = tx[h].plan
  OBVIOUS
<1>3. PICK R : R = rows'
  OBVIOUS
<1>4. /\ tx[h].pc = "store" /\ p \in Plans /\ AskFits(h) /\ RowsFit /\ TypeOK
      /\ R = Applied(p, rows) /\ R \in SUBSET Rows /\ Allowed(R) /\ Passes(p, R)
  <2>1. /\ tx[h].pc = "store" /\ tx \in [Handlers -> Txs] /\ AskFits(h) /\ RowsFit /\ TypeOK
        /\ rows' \in SUBSET Rows
    BY DEF Store, IInv, TypeOK, FitInv
  <2>2. p \in Plans
    BY <1>2, <2>1 DEF Txs
  <2>3. rows' = Applied(p, rows) /\ Outcome(tx[h].ask, p) = "done"
    BY <1>2, <2>1 DEF Store, Reply, Ended
  <2>4. Allowed(Applied(p, rows))
    BY <2>3 DEF Outcome
  <2> QED BY <1>3, <2>1, <2>2, <2>3, <2>4, AppliedPasses
<1>5. PICK v \in events : v.kind = "write" /\ v.plan = u.plan /\ Updated(v, i)
  BY <1>1, <1>4 DEF AskFits, Working, Locking
<1>6. v.kind # "access"
  BY <1>5
<1>7. PICK r, cut : Traced(v, i, r, cut)
  BY <1>5, <1>6, UpdateTraced
<1>8. PICK at : at = v.plan.at
  OBVIOUS
<1>9. ToldBy(v, i, r, cut, at, t)
  BY <1>6, <1>7, <1>8, UpdateTold
<1>10. ToldAgain(v, i, r, cut, R, t)
  <2>1. i = u.item /\ v.plan = u.plan
    BY <1>1, <1>5
  <2>2. TakesBack(p, v, u.item, r)
    BY <1>1, <1>2, <1>4, <1>6, <1>7, <2>1, PlanUndoes
  <2>3. TakesBack(p, v, i, r)
    BY <2>1, <2>2
  <2> QED BY <1>2, <1>4, <1>7, <2>3, ReversalTells
<1>11. PICK before : before = Bodies(rows, i, at - 1, t)
  OBVIOUS
<1>12. PICK after : after = Bodies(rows, i, at, t)
  OBVIOUS
<1>13. PICK now : now = Bodies(rows, i, Forever - 1, t)
  OBVIOUS
<1>14. PICK new : new = Bodies(R, i, Forever - 1, t)
  OBVIOUS
<1>15. at = tx[h].undo.plan.at
  BY <1>1, <1>5, <1>8
<1>16. /\ Believed(i, tx[h].undo.plan.at - 1, t) = before
       /\ Believed(i, tx[h].undo.plan.at, t) = after
       /\ Believed(i, Forever - 1, t) = now
       /\ Believed(i, Forever - 1, t)' = new
  BY <1>3, <1>11, <1>12, <1>13, <1>14, <1>15, BelievedForm
<1>17. t \in Nat /\ r.from \in Nat /\ cut \in Nat /\ r.from =< cut
  BY <1>4, <1>7, Numbers DEF Traced, TypeOK, Rows
<1>18. /\ before # after => now = after
       /\ new = IF before # after THEN before ELSE now
  <2>1. CASE t < r.from
    <3>1. before = after /\ new = now
      BY <1>9, <1>10, <1>11, <1>12, <1>13, <1>14, <2>1 DEF ToldBy, ToldAgain
    <3> QED BY <3>1
  <2>2. CASE r.from =< t /\ t < cut
    <3>1. before = {r.body} /\ after = {r.body} /\ new = {r.body} /\ now = {r.body}
      BY <1>9, <1>10, <1>11, <1>12, <1>13, <1>14, <2>2 DEF ToldBy, ToldAgain
    <3> QED BY <3>1
  <2>3. CASE cut =< t
    <3>0. r.from =< t
      BY <1>17, <2>3
    <3>1. before = {r.body} /\ new = {r.body}
      BY <1>9, <1>10, <1>11, <1>14, <3>0 DEF ToldBy, ToldAgain
    <3>2. CASE \E d \in v.plan.added : d.item = i /\ d.base = None
      <4>1. PICK d \in v.plan.added : d.item = i /\ d.base = None
        BY <3>2
      <4>2. after = {d.vid} /\ now = {d.vid}
        BY <1>9, <1>10, <1>12, <1>13, <2>3, <4>1 DEF ToldBy, ToldAgain
      <4>3. d.vid # r.body
        BY <1>9, <2>3, <4>1 DEF ToldBy
      <4> QED BY <3>1, <4>2, <4>3
    <3>3. CASE \A d \in v.plan.added : ~ (d.item = i /\ d.base = None)
      <4>1. after = {} /\ now = {}
        BY <1>9, <1>10, <1>12, <1>13, <2>3, <3>3 DEF ToldBy, ToldAgain
      <4> QED BY <3>1, <4>1
    <3> QED BY <3>2, <3>3
  <2> QED BY <1>17, <2>1, <2>2, <2>3
<1> QED BY <1>16, <1>18

-----------------------------------------------------------------------------
\* Where rows come from: the steps that record nothing.

\* What a recorded event, and a plan that waits, say of where rows come from.
EventLogs(v) ==
  Rises(v.plan) /\ \A d \in v.plan.added : \E r \in rows : r.vid = d.vid /\ r.rec = v.plan.at

PlanLogs(h) ==
  Rises(tx[h].plan) /\ (tx[h].ask.reverts # {} => Undoes(tx[h].undo, tx[h].plan))

\* A waiting reversal still undoes its update, whatever the others commit.
LEMMA UndoesStays ==
  ASSUME RowsLast, RowsTell, RowsFit', NEW u, NEW p, Undoes(u, p),
         \A n \in u.plan.closed : \E r \in rows : r.vid = n,
         \A n \in p.closed : \E r \in rows : r.vid = n
  PROVE  Undoes(u, p)'
<1>1. PICK q : q = u.plan
  OBVIOUS
<1>2. \A s \in rows' : s.vid \in q.closed => \E r \in rows : r.vid = s.vid /\ SameSpan(r, s)
  BY <1>1, ClosedStay
<1>3. /\ \A r \in rows : r.vid \in p.closed => \E s \in rows' : r.vid = s.vid /\ SameSpan(r, s)
      /\ \A s \in rows' : s.vid \in p.closed => \E r \in rows : r.vid = s.vid /\ SameSpan(r, s)
  BY ClosedStay
<1>4. \A r \in ClosedBy(u.plan)' : r.item = u.item => \E d \in p.added : d.base = r.vid
  BY <1>1, <1>2 DEF Undoes, ClosedBy, SameSpan
<1>5. \A d \in p.added : d.item = u.item /\ d.base \in u.plan.closed
  BY DEF Undoes
<1>6. ASSUME NEW w \in ClosedBy(p)'
      PROVE  \E d \in u.plan.added, b \in rows' :
               d.item = u.item /\ SameSpan(w, d) /\ b.vid = d.vid /\ b.body = w.body
  <2>1. w \in rows' /\ w.vid \in p.closed
    BY DEF ClosedBy
  <2>2. PICK r \in rows : r.vid = w.vid /\ SameSpan(r, w)
    BY <1>3, <2>1
  <2>3. PICK s \in rows' : Tells(r, s)
    BY DEF RowsTell
  <2>4. s = w
    BY <2>1, <2>2, <2>3 DEF RowsFit, Tells
  <2>5. r \in ClosedBy(p)
    BY <2>1, <2>2 DEF ClosedBy
  <2>6. PICK d \in u.plan.added : \E b \in rows :
          d.item = u.item /\ SameSpan(r, d) /\ b.vid = d.vid /\ b.body = r.body
    BY <2>5 DEF Undoes
  <2>7. PICK b \in rows : d.item = u.item /\ SameSpan(r, d) /\ b.vid = d.vid /\ b.body = r.body
    BY <2>6
  <2>8. PICK c \in rows' : Tells(b, c)
    BY DEF RowsTell
  <2> QED BY <2>2, <2>3, <2>4, <2>7, <2>8 DEF Tells, SameSpan
<1>7. ASSUME NEW d \in u.plan.added, d.item = u.item PROVE \E w \in ClosedBy(p)' : SameSpan(w, d)
  <2>1. PICK r \in ClosedBy(p) : SameSpan(r, d)
    BY <1>7 DEF Undoes
  <2>2. PICK s \in rows' : r.vid = s.vid /\ SameSpan(r, s)
    BY <1>3 DEF ClosedBy
  <2> QED BY <2>1, <2>2 DEF ClosedBy, SameSpan
<1> QED BY <1>4, <1>5, <1>6, <1>7 DEF Undoes

\* What a plan undoes, its transaction does.
LEMMA UndoesOfTx ==
  ASSUME NEW h, NEW u, NEW p, tx'[h].undo = u, tx'[h].plan = p, Undoes(u, p)'
  PROVE  Undoes(tx[h].undo, tx[h].plan)'
BY DEF Undoes, ClosedBy

\* A step that leaves what rows say and where they come from keeps the log.
LEMMA LogStays ==
  ASSUME IInv, FitInv, FitInv', LogInv, RowsLast, RowsTell,
         \A r \in rows' : RowLogged(r)', Dated',
         \A v \in events' : v \in events \/ v.kind = "access" \/ EventLogs(v)',
         \A h \in Handlers : tx'[h] = tx[h] \/ (tx'[h].pc = "store" => PlanLogs(h)')
  PROVE  LogInv'
<1>1. RowsFit'
  BY DEF FitInv
<1>2. ASSUME NEW v \in events', v.kind # "access" PROVE EventLogs(v)'
  <2>1. CASE v \in events
    <3>1. Rises(v.plan) /\ \A d \in v.plan.added : \E r \in rows : r.vid = d.vid /\ r.rec = v.plan.at
      BY <1>2, <2>1 DEF LogInv
    <3>2. \A d \in v.plan.added : \E s \in rows' : s.vid = d.vid /\ s.rec = v.plan.at
      BY <3>1 DEF RowsLast, Lasts
    <3> QED BY <3>1, <3>2 DEF EventLogs, Rises
  <2>2. CASE EventLogs(v)'
    BY <2>2
  <2> QED BY <1>2, <2>1, <2>2
<1>3. ASSUME NEW h \in Handlers, tx'[h].pc = "store" PROVE PlanLogs(h)'
  <2>1. CASE tx'[h].pc = "store" => PlanLogs(h)'
    BY <1>3, <2>1
  <2>2. CASE tx'[h] = tx[h]
    <3>1. PICK u : u = tx[h].undo
      OBVIOUS
    <3>2. PICK p : p = tx[h].plan
      OBVIOUS
    <3>3. tx[h].pc = "store" /\ tx'[h].undo = u /\ tx'[h].plan = p /\ tx'[h].ask = tx[h].ask
      BY <1>3, <2>2, <3>1, <3>2
    <3>4. Rises(p)
      BY <3>2, <3>3 DEF LogInv
    <3>5. Rises(tx[h].plan)'
      BY <3>3, <3>4 DEF Rises
    <3>6. ASSUME tx[h].ask.reverts # {} PROVE Undoes(tx[h].undo, tx[h].plan)'
      <4>1. Undoes(u, p)
        BY <3>1, <3>2, <3>3, <3>6 DEF LogInv
      <4>2. \A n \in u.plan.closed : \E r \in rows : r.vid = n
        <5>1. AskFits(h) /\ \A v \in events : v.kind # "access" => EventFits(v)
          BY DEF FitInv
        <5>2. PICK v \in events : v.kind = "write" /\ v.plan = u.plan
          BY <3>1, <3>3, <3>6, <5>1 DEF AskFits, Working, Locking
        <5> QED BY <5>1, <5>2 DEF EventFits
      <4>3. \A n \in p.closed : \E r \in rows : r.vid = n
        BY <3>2, <3>3 DEF IInv, TxInv, PlanInv
      <4>4. Undoes(u, p)'
        BY <1>1, <4>1, <4>2, <4>3, UndoesStays
      <4> QED BY <3>3, <4>4, UndoesOfTx
    <3> QED BY <3>3, <3>5, <3>6 DEF PlanLogs
  <2> QED BY <2>1, <2>2
<1> QED BY <1>2, <1>3 DEF LogInv, EventLogs, PlanLogs

\* A row stays logged.
LEMMA RowLoggedStays ==
  ASSUME NEW r, NEW s, RowLogged(r), Tells(r, s), r.rec = s.rec, r.sup = s.sup,
         \A v \in events : v.kind # "access" => v \in events'
  PROVE  RowLogged(s)'
<1>1. s.vid = r.vid /\ s.base = r.base /\ s.body = r.body
  BY DEF Tells
<1>2. s.rec = 0 \/ \E v \in events' : /\ v.kind # "access" /\ s.rec = v.plan.at
                                      /\ \E d \in v.plan.added : d.vid = s.vid
  BY <1>1 DEF RowLogged
<1>3. IsCurrent(s) \/ \E v \in events' : v.kind # "access" /\ s.sup = v.plan.at /\ s.vid \in v.plan.closed
  BY <1>1 DEF RowLogged, IsCurrent
<1>4. s.body =< s.vid /\ (s.base = None => s.body = s.vid)
  BY <1>1 DEF RowLogged
<1> QED BY <1>2, <1>3, <1>4 DEF RowLogged, IsCurrent

\* A step that records and plans nothing keeps the instants apart.
LEMMA DatedStays ==
  ASSUME Dated, setBacks' = 0 => setBacks = 0,
         \A v \in events' : v.kind # "access" => v \in events,
         \A h \in Handlers : tx'[h] = tx[h] \/ tx'[h].pc # "store"
  PROVE  Dated'
BY DEF Dated

\* A step of one handler that plans nothing.
LEMMA QuietLog ==
  ASSUME IInv, FitInv, FitInv', LogInv, rows' = rows, events' = events,
         setBacks' = 0 => setBacks = 0,
         \A h \in Handlers : tx'[h] = tx[h] \/ tx'[h].pc # "store"
  PROVE  LogInv'
<1>1. RowsTell /\ RowsLast
  BY RowsSame DEF RowsTell, Tells
<1>2. \A r \in rows' : RowLogged(r)'
  BY RowLoggedStays DEF LogInv, Tells
<1>3. Dated'
  BY DatedStays DEF LogInv
<1> QED BY <1>1, <1>2, <1>3, LogStays

\* A reader's touch keeps the log.
LEMMA CloseReadLog ==
  ASSUME IInv, FitInv, FitInv', LogInv, NEW x \in reader, CloseRead(x)
  PROVE  LogInv'
<1>1. /\ \A r \in rows : \E s \in rows' : Alike(r, s) /\ Tells(r, s)
      /\ \A s \in rows' : \E r \in rows : Alike(r, s) /\ Tells(r, s)
  BY TouchTells DEF IInv
<1>2. /\ tx' = tx /\ setBacks' = setBacks /\ \A v \in events' : v \in events \/ v.kind = "access"
      /\ \A v \in events : v \in events'
  BY DEF CloseRead
<1>3. RowsLast /\ RowsTell
  BY <1>1 DEF RowsLast, RowsTell, Lasts, Alike
<1>4. ASSUME NEW s \in rows' PROVE RowLogged(s)'
  <2>1. PICK r \in rows : Alike(r, s) /\ Tells(r, s)
    BY <1>1
  <2>2. RowLogged(r)
    BY DEF LogInv
  <2> QED BY <1>2, <2>1, <2>2, RowLoggedStays DEF Alike
<1>5. Dated'
  BY <1>2, DatedStays DEF LogInv
<1> QED BY <1>2, <1>3, <1>4, <1>5, LogStays

-----------------------------------------------------------------------------
\* Where rows come from: what is planned.

\* What a reversal plans undoes its update.
LEMMA ReversalPlans ==
  ASSUME NEW h \in Handlers, TypeOK, RowsInv, RowsFit, HistoryInv, TxInv(h), tx[h].pc = "build",
         NEW u, NEW v, Undoing(h, u, v),
         NEW p, p.closed = Ids(Withdrawn(u)), p.added = Numbered(Restored(u))
  PROVE  Undoes(u, p)
<1>1. v.plan = u.plan /\ PlanParts(Restored(u), Withdrawn(u)) /\ EventFits(v)
  BY ReversalParts DEF Undoing
<1>2. /\ \A n \in p.added : \E d \in Restored(u) : SameSpan(n, d) /\ n.base = d.base
      /\ \A d \in Restored(u) : \E n \in p.added : SameSpan(n, d) /\ n.base = d.base
  BY <1>1, NumberedApart DEF PlanParts
<1>3. \A r \in ClosedBy(p) : r \in Withdrawn(u)
  <2> SUFFICES ASSUME NEW r \in ClosedBy(p) PROVE r \in Withdrawn(u)
    OBVIOUS
  <2>1. PICK w \in Withdrawn(u) : w.vid = r.vid
    BY DEF ClosedBy, Ids
  <2>2. w \in rows /\ r \in rows
    BY DEF Withdrawn, Current, ClosedBy
  <2> QED BY <2>1, <2>2 DEF RowsFit
<1>4. \A w \in Withdrawn(u) : w \in ClosedBy(p) /\ w \in rows /\ w.item = u.item /\ w.vid \in Standings(u)
  BY DEF Withdrawn, Current, ClosedBy, Ids
<1>5. ASSUME NEW d \in Restored(u) PROVE d.item = u.item /\ d.base \in u.plan.closed
  BY DEF Restored
<1>6. ASSUME NEW s \in ClosedBy(u.plan), s.item = u.item PROVE \E d \in p.added : d.base = s.vid
  <2>1. PICK d : d = [item |-> s.item, from |-> s.from, to |-> s.to, base |-> s.vid, live |-> TRUE, access |-> 0]
    OBVIOUS
  <2>2. d \in Restored(u)
    BY <1>6, <2>1 DEF Restored, ClosedBy
  <2> QED BY <1>2, <2>1, <2>2
<1>7. ASSUME NEW w \in ClosedBy(p)
      PROVE  \E d \in u.plan.added, b \in rows :
               d.item = u.item /\ SameSpan(w, d) /\ b.vid = d.vid /\ b.body = w.body
  <2>1. w \in rows /\ w \in Withdrawn(u) /\ w.vid \in Standings(u)
    BY <1>3, <1>4
  <2>2. PICK d \in u.plan.added : /\ d.item = u.item
                                  /\ w.vid = IF Mended(u.plan, u.item) THEN Standing(d.vid) ELSE d.vid
    BY <2>1 DEF Standings, Left
  <2>3. PICK b \in rows : b.vid = d.vid /\ SameSpan(b, d)
    BY <1>1 DEF EventFits
  <2>4. b.vid <= nextVersion
    BY DEF RowsInv, TypeOK, Rows
  <2>5. b.body = w.body
    <3>1. CASE Mended(u.plan, u.item)
      BY <2>1, <2>2, <2>3, <2>4, <3>1, StandingBody
    <3>2. CASE ~ Mended(u.plan, u.item)
      BY <2>1, <2>2, <2>3, <3>2 DEF RowsFit
    <3> QED BY <3>1, <3>2
  <2>6. SameSpan(w, d)
    <3>1. PICK x \in Withdrawn(u) : x.vid = w.vid /\ SameSpan(x, d)
      BY <2>2, LeftStands
    <3>2. x = w
      BY <1>4, <2>1, <3>1 DEF RowsFit
    <3> QED BY <3>1, <3>2
  <2> QED BY <2>2, <2>3, <2>5, <2>6
<1>8. ASSUME NEW d \in u.plan.added, d.item = u.item PROVE \E w \in ClosedBy(p) : SameSpan(w, d)
  BY <1>4, <1>8, LeftStands
<1>9. \A n \in p.added : n.item = u.item /\ n.base \in u.plan.closed
  BY <1>2, <1>5 DEF SameSpan
<1> QED BY <1>6, <1>7, <1>8, <1>9 DEF Undoes

\* A build plans versions that are later than all it knows, and at an instant
\* that no other plan or event has.
LEMMA BuildLog ==
  ASSUME IInv, IInv', FitInv, FitInv', HistoryInv, LogInv, NEW h \in Handlers, Build(h)
  PROVE  LogInv'
<1>1. rows' = rows /\ events' = events /\ setBacks' = setBacks
  BY DEF Build
<1>2. CASE tx'[h].pc # "store" /\ \A g \in Handlers \ {h} : tx'[g] = tx[g]
  BY <1>1, <1>2, QuietLog
<1>3. ASSUME NEW name, NEW x, Building(h, clock + 1, name),
             tx[h].ask.reverts # {} => Undoable(tx[h].undo),
             tx'[h] = x, \A g \in Handlers \ {h} : tx'[g] = tx[g],
             x.ask = tx[h].ask, x.undo = tx[h].undo, clock + 1 =< x.plan.at,
             x.plan.closed = Ids(MetBy(h, clock + 1, name)),
             x.plan.added = Numbered(DraftsOf(h, clock + 1, name))
      PROVE  LogInv'
  <2>0. CASE x.pc # "store"
    BY <1>1, <1>3, <2>0, QuietLog
  <2> SUFFICES ASSUME x.pc = "store" PROVE LogInv'
    BY <2>0
  <2>1. PICK now : now = clock + 1
    OBVIOUS
  <2>2. PICK D : D = DraftsOf(h, now, name)
    OBVIOUS
  <2>3. PICK H : H = MetBy(h, now, name)
    OBVIOUS
  <2>4. PICK p : p = x.plan
    OBVIOUS
  <2>5. /\ \A w \in events : w.kind # "access" => EventFits(w)
        /\ Building(h, now, name) /\ x.plan.closed = Ids(H) /\ x.plan.added = Numbered(D)
        /\ p.closed = Ids(H) /\ p.added = Numbered(D)
    BY <1>3, <2>1, <2>2, <2>3, <2>4 DEF FitInv
  <2>6. PlanParts(D, H)
    BY <1>3, <2>2, <2>3, <2>5, BuildParts
  <2>7. /\ TypeOK /\ RowsInv /\ RowsFit /\ TxInv(h) /\ tx[h].pc = "build"
        /\ nextVersion \in Nat \ {0} /\ clock \in Nat /\ rows \in SUBSET Rows
    BY <2>5 DEF Building, TypeOK
  <2>8. /\ \A v \in p.closed : \E r \in rows : r.vid = v
        /\ \A d \in p.added : d.base # None => \E r \in rows : r.vid = d.base
    BY <1>1, <1>3, <2>4 DEF IInv, TxInv, PlanInv
  <2>9. Rises(p)
    <3>1. \A d \in p.added : nextVersion <= d.vid /\ d.vid \in Nat
      BY <2>5, <2>6, <2>7, NumberedFacts DEF PlanParts, PlannedRows
    <3>2. \A r \in rows : r.vid < nextVersion /\ r.vid \in Nat
      BY <2>7 DEF RowsInv, Rows
    <3>3. ASSUME NEW d \in p.added PROVE d.base < d.vid
      <4>1. CASE d.base = None
        BY <2>7, <3>1, <4>1 DEF None
      <4>2. CASE d.base # None
        BY <2>7, <2>8, <3>1, <3>2, <4>2
      <4> QED BY <4>1, <4>2
    <3>4. ASSUME NEW d \in p.added, NEW n \in p.closed PROVE n < d.vid
      BY <2>7, <2>8, <3>1, <3>2
    <3> QED BY <3>3, <3>4 DEF Rises
  <2>10. ASSUME x.ask.reverts # {} PROVE Undoes(x.undo, p)
    <3>1. PICK u : u = tx[h].undo
      OBVIOUS
    <3>2. D = Restored(u) /\ H = Withdrawn(u) /\ \E v : Undoing(h, u, v)
      BY <1>3, <2>2, <2>3, <2>5, <2>10, <3>1, BuildForm
    <3>3. PICK v : Undoing(h, u, v)
      BY <3>2
    <3>4. Undoes(u, p)
      BY <2>5, <2>7, <3>2, <3>3, ReversalPlans
    <3> QED BY <1>3, <3>1, <3>4
  <2>11. PlanLogs(h)'
    <3>1. PICK u : u = x.undo
      OBVIOUS
    <3>2. tx'[h].undo = u /\ tx'[h].plan = p /\ tx'[h].ask = x.ask
      BY <1>3, <2>4, <3>1
    <3>3. Rises(tx[h].plan)'
      BY <2>9, <3>2 DEF Rises
    <3>4. ASSUME x.ask.reverts # {} PROVE Undoes(tx[h].undo, tx[h].plan)'
      <4>1. Undoes(u, p)'
        BY <1>1, <2>10, <3>1, <3>4 DEF Undoes, ClosedBy
      <4> QED BY <3>2, <4>1, UndoesOfTx
    <3> QED BY <3>2, <3>3, <3>4 DEF PlanLogs
  <2>12. Dated'
    <3> SUFFICES ASSUME setBacks = 0 PROVE Dated'
      BY <1>1 DEF Dated
    <3>1. /\ \A v \in events : v.kind # "access" => v.plan.at =< clock /\ v.plan.at \in Nat
          /\ \A g \in Handlers : tx[g].pc = "store" => tx[g].plan.at =< clock /\ tx[g].plan.at \in Nat
      <4>1. /\ \A v \in events : v.kind # "access" => v.plan.at =< clock
            /\ \A g \in Handlers : tx[g].pc = "store" => tx[g].plan.at =< clock
        BY DEF FitInv, ClockFits
      <4>2. \A v \in events : v.plan.at \in Nat
        BY <2>7, Numbers DEF TypeOK, Events, Plans
      <4>3. \A g \in Handlers : tx[g].plan.at \in Nat
        BY <2>7, Numbers DEF TypeOK, Txs, Plans
      <4> QED BY <4>1, <4>2, <4>3
    <3>2. p.at \in Nat
      BY <1>3, <2>4, Numbers DEF IInv, TypeOK, Txs, Plans
    <3>3. /\ p.at > 0 /\ p.at # clock /\ p.at > clock
      BY <1>3, <2>4, <2>7, <3>2
    <3>4. /\ \A v \in events : v.kind # "access" => v.plan.at # p.at
          /\ \A g \in Handlers : tx[g].pc = "store" => tx[g].plan.at # p.at
      BY <2>7, <3>1, <3>2, <3>3
    <3>5. /\ \A v \in events : v.kind # "access" => v.plan.at > 0
          /\ \A v, w \in events : v.kind # "access" /\ w.kind # "access" /\ v.plan.at = w.plan.at => v = w
          /\ \A g \in Handlers : tx[g].pc = "store" =>
               /\ tx[g].plan.at > 0
               /\ \A v \in events : v.kind # "access" => v.plan.at # tx[g].plan.at
               /\ \A f \in Handlers \ {g} : tx[f].pc = "store" => tx[f].plan.at # tx[g].plan.at
      BY DEF LogInv, Dated
    <3>6. ASSUME NEW g \in Handlers, tx'[g].pc = "store"
          PROVE  /\ tx'[g].plan.at > 0
                 /\ \A v \in events : v.kind # "access" => v.plan.at # tx'[g].plan.at
                 /\ \A f \in Handlers \ {g} : tx'[f].pc = "store" => tx'[f].plan.at # tx'[g].plan.at
      <4>1. CASE g = h
        <5>1. tx'[g].plan.at = p.at
          BY <1>3, <2>4, <4>1
        <5>2. \A f \in Handlers \ {g} : tx'[f] = tx[f]
          BY <1>3, <4>1
        <5> QED BY <3>3, <3>4, <5>1, <5>2
      <4>2. CASE g # h
        <5>1. tx'[g] = tx[g] /\ tx[g].pc = "store"
          BY <1>3, <3>6, <4>2
        <5>2. tx'[h].plan.at = p.at /\ tx[g].plan.at # p.at
          BY <1>3, <2>4, <3>4, <5>1
        <5>3. \A f \in Handlers \ {g} : f = h \/ tx'[f] = tx[f]
          BY <1>3
        <5> QED BY <3>5, <5>1, <5>2, <5>3
      <4> QED BY <4>1, <4>2
    <3> QED BY <1>1, <3>5, <3>6 DEF Dated
  <2>13. RowsTell /\ RowsLast
    BY <1>1, RowsSame DEF RowsTell, Tells
  <2>14. \A r \in rows' : RowLogged(r)'
    BY <1>1, RowLoggedStays DEF LogInv, Tells
  <2>15. \A g \in Handlers : tx'[g] = tx[g] \/ (tx'[g].pc = "store" => PlanLogs(g)')
    BY <1>3, <2>11
  <2> QED BY <1>1, <2>12, <2>13, <2>14, <2>15, LogStays
<1> QED BY <1>2, <1>3, BuildPlans

-----------------------------------------------------------------------------
\* Where rows come from: what is committed.

\* A commit records its event for the rows that it closes and adds.
LEMMA StoreLog ==
  ASSUME IInv, IInv', FitInv, FitInv', HistoryInv, LogInv, NEW h \in Handlers, Store(h)
  PROVE  LogInv'
<1>1. PICK x : x = tx[h]
  OBVIOUS
<1>2. PICK p : p = x.plan
  OBVIOUS
<1>3. /\ TypeOK /\ x \in Txs /\ p \in Plans /\ x.pc = "store" /\ tx[h].pc = "store"
      /\ tx \in [Handlers -> Txs] /\ TxInv(h) /\ rows \in SUBSET Rows /\ RowsFit
  BY <1>1, <1>2 DEF IInv, TypeOK, Txs, Store, FitInv
<1>4. setBacks' = setBacks /\ \A g \in Handlers \ {h} : tx'[g] = tx[g]
  BY <1>3 DEF Store, Reply
<1>5. tx'[h].pc # "store"
  BY <1>3 DEF Store, Reply, Ended
<1>6. CASE rows' = rows /\ events' = events
  BY <1>4, <1>5, <1>6, QuietLog
<1>7. CASE /\ rows' = Applied(p, rows)
           /\ events' = events \cup
                {[id |-> p.event, kind |-> Kind(x.ask), ask |-> x.ask, plan |-> p, touched |-> {}]}
  <2>1. PICK v : v = [id |-> p.event, kind |-> Kind(x.ask), ask |-> x.ask, plan |-> p, touched |-> {}]
    OBVIOUS
  <2>2. events' = events \cup {v} /\ v.plan = p /\ v.kind # "access"
    BY <1>7, <2>1 DEF Kind
  <2>3. PICK R : R = rows'
    OBVIOUS
  <2>4. Passes(p, R)
    BY <1>7, <2>3, AppliedPasses
  <2>5. RowsLast
    BY <1>1, <1>2, <1>3, <1>7, StoreKeeps
  <2>6. \A r \in Closing(p, rows) : r \in rows /\ r.vid \in p.closed
    BY DEF Closing
  <2>7. ASSUME NEW r \in Closing(p, rows)
        PROVE  LET s == [r EXCEPT !.sup = p.at]
               IN Tells(r, s) /\ s.rec = r.rec /\ s.sup = p.at
    <3>1. r \in Rows
      BY <1>3, <2>6
    <3> QED BY <3>1 DEF Rows, Tells
  <2>8. RowsTell
    <3> SUFFICES ASSUME NEW r \in rows PROVE \E s \in R : Tells(r, s)
      BY <2>3 DEF RowsTell
    <3>1. CASE r \in Closing(p, rows)
      BY <2>4, <2>7, <3>1 DEF Passes
    <3>2. CASE r \notin Closing(p, rows)
      BY <2>4, <3>2 DEF Passes, Tells
    <3> QED BY <3>1, <3>2
  <2>9. /\ Rises(p)
        /\ Dated
    BY <1>1, <1>2, <1>3 DEF LogInv
  <2>10. ASSUME NEW d \in p.added
         PROVE  LET w == Written(d, p.at, rows)
                IN /\ w \in R /\ w.vid = d.vid /\ w.base = d.base
                   /\ w.rec = p.at /\ w.sup = Forever
                   /\ w.body =< w.vid /\ (w.base = None => w.body = w.vid)
    <3>1. PICK w : w = Written(d, p.at, rows)
      OBVIOUS
    <3>2. w \in R /\ w.vid = d.vid /\ w.base = d.base /\ w.rec = p.at /\ w.sup = Forever
      BY <2>4, <3>1 DEF Passes, Written
    <3>3. d.vid \in Nat
      BY <1>3 DEF Plans, PlannedRows
    <3>4. CASE d.base = None
      <4>1. w.body = d.vid
        BY <3>1, <3>4 DEF Written
      <4> QED BY <3>1, <3>2, <3>3, <4>1
    <3>5. CASE d.base # None
      <4>1. PICK b : b = CHOOSE r \in rows : r.vid = d.base
        OBVIOUS
      <4>2. \E r \in rows : r.vid = d.base
        BY <1>1, <1>2, <1>3, <3>5 DEF TxInv, PlanInv
      <4>3. b \in rows /\ b.vid = d.base
        BY <4>1, <4>2
      <4>4. w.body = b.body
        BY <3>1, <3>5, <4>1 DEF Written
      <4>5. b.body =< b.vid /\ b.body \in Nat /\ b.vid \in Nat
        BY <1>3, <4>3 DEF LogInv, RowLogged, Rows
      <4>6. d.base < d.vid
        BY <2>9 DEF Rises
      <4>7. w.body =< w.vid
        BY <3>2, <3>3, <4>3, <4>4, <4>5, <4>6
      <4> QED BY <3>1, <3>2, <3>5, <4>7
    <3> QED BY <3>4, <3>5
  <2>11. \A w \in events : w \in events'
    BY <2>2
  <2>12. ASSUME NEW s \in R PROVE RowLogged(s)'
    <3>1. CASE s \in rows
      BY <2>11, <3>1, RowLoggedStays DEF LogInv, Tells
    <3>2. ASSUME NEW r \in Closing(p, rows), s = [r EXCEPT !.sup = p.at] PROVE RowLogged(s)'
      <4>1. RowLogged(r) /\ Tells(r, s) /\ s.rec = r.rec /\ s.sup = p.at
        BY <2>6, <2>7, <3>2 DEF LogInv
      <4>2. s.rec = 0 \/ \E w \in events' : /\ w.kind # "access" /\ s.rec = w.plan.at
                                            /\ \E d \in w.plan.added : d.vid = s.vid
        BY <2>11, <4>1 DEF RowLogged, Tells
      <4>3. \E w \in events' : w.kind # "access" /\ s.sup = w.plan.at /\ s.vid \in w.plan.closed
        BY <2>2, <2>6, <4>1 DEF Tells
      <4>4. s.body =< s.vid /\ (s.base = None => s.body = s.vid)
        BY <4>1 DEF RowLogged, Tells
      <4> QED BY <4>2, <4>3, <4>4 DEF RowLogged
    <3>3. ASSUME NEW d \in p.added, s = Written(d, p.at, rows) PROVE RowLogged(s)'
      <4>1. /\ s.vid = d.vid /\ s.rec = p.at /\ s.sup = Forever
            /\ s.body =< s.vid /\ (s.base = None => s.body = s.vid)
        BY <2>10, <3>3
      <4>2. \E w \in events' : /\ w.kind # "access" /\ s.rec = w.plan.at
                               /\ \E e \in w.plan.added : e.vid = s.vid
        BY <2>2, <4>1
      <4> QED BY <4>1, <4>2 DEF RowLogged, IsCurrent
    <3> QED BY <2>4, <3>1, <3>2, <3>3 DEF Passes
  <2>13. EventLogs(v)'
    <3>1. \A d \in v.plan.added : \E r \in rows' : r.vid = d.vid /\ r.rec = v.plan.at
      BY <2>2, <2>3, <2>10
    <3> QED BY <2>2, <2>9, <3>1 DEF EventLogs, Rises
  <2>14. \A w \in events' : w \in events \/ w.kind = "access" \/ EventLogs(w)'
    <3>1. \A w \in events' : w \in events \/ w = v
      BY <2>2
    <3> QED BY <2>13, <3>1
  <2>15. Dated'
    <3> SUFFICES ASSUME setBacks = 0 PROVE Dated'
      BY <1>4 DEF Dated
    <3>1. /\ \A w \in events : w.kind # "access" => w.plan.at > 0 /\ w.plan.at # p.at
          /\ \A w, y \in events : w.kind # "access" /\ y.kind # "access" /\ w.plan.at = y.plan.at => w = y
          /\ p.at > 0
          /\ \A g \in Handlers : tx[g].pc = "store" =>
               /\ tx[g].plan.at > 0
               /\ \A w \in events : w.kind # "access" => w.plan.at # tx[g].plan.at
               /\ \A f \in Handlers \ {g} : tx[f].pc = "store" => tx[f].plan.at # tx[g].plan.at
      BY <1>1, <1>2, <1>3, <2>9 DEF Dated
    <3>2. \A g \in Handlers \ {h} : tx[g].pc = "store" => tx[g].plan.at # p.at
      BY <1>1, <1>2, <1>3, <3>1
    <3>3. \A w \in events' : w.kind # "access" => w.plan.at > 0
      BY <2>2, <3>1
    <3>4. \A w, y \in events' : w.kind # "access" /\ y.kind # "access" /\ w.plan.at = y.plan.at => w = y
      BY <2>2, <3>1
    <3>5. ASSUME NEW g \in Handlers, tx'[g].pc = "store"
          PROVE  /\ tx'[g].plan.at > 0
                 /\ \A w \in events' : w.kind # "access" => w.plan.at # tx'[g].plan.at
                 /\ \A f \in Handlers \ {g} : tx'[f].pc = "store" => tx'[f].plan.at # tx'[g].plan.at
      <4>1. g # h /\ tx'[g] = tx[g]
        BY <1>4, <1>5, <3>5
      <4>2. \A f \in Handlers \ {g} : tx'[f].pc = "store" => tx'[f] = tx[f]
        BY <1>4, <1>5
      <4> QED BY <2>2, <3>1, <3>2, <3>5, <4>1, <4>2
    <3> QED BY <3>3, <3>4, <3>5 DEF Dated
  <2>16. \A g \in Handlers : tx'[g] = tx[g] \/ tx'[g].pc # "store"
    BY <1>4, <1>5
  <2> QED BY <2>3, <2>5, <2>8, <2>12, <2>14, <2>15, <2>16, LogStays
<1> QED BY <1>1, <1>2, <1>6, <1>7 DEF Store

\* The first versions are nobody's.
LEMMA InitLog ==
  ASSUME Init
  PROVE  LogInv
<1>1. events = {} /\ \A h \in Handlers : tx[h].pc # "store"
  BY DEF Init, NoTx
<1>2. ASSUME NEW r \in rows PROVE RowLogged(r)
  <2>1. PICK i \in Stored : r = [vid |-> i, item |-> i, from |-> 0, to |-> Forever, rec |-> 0,
                                 sup |-> Forever, base |-> None, body |-> i, access |-> 0]
    BY DEF Init
  <2>2. i \in Nat
    BY Numbers, BitemporalAssumption
  <2> QED BY <2>1, <2>2 DEF RowLogged, IsCurrent
<1> QED BY <1>1, <1>2 DEF LogInv, Dated

\* Every step keeps the log.
LEMMA NextLog ==
  ASSUME IInv, IInv', FitInv, FitInv', HistoryInv, LogInv, [Next]_vars
  PROVE  LogInv'
<1>1. ASSUME NEW h \in Handlers,
             \/ \E a \in Asks : Begin(h, a) \/ BeginReversal(h, a)
             \/ LockRequest(h) \/ \E i \in Items : LockItem(h, i)
             \/ Decide(h) \/ Rollback(h)
      PROVE  LogInv'
  <2>1. /\ rows' = rows /\ events' = events
        /\ \A g \in Handlers : tx'[g] = tx[g] \/ tx'[g].pc # "store"
    BY <1>1, QuietSteps
  <2>2. setBacks' = setBacks
    BY <1>1 DEF Begin, BeginReversal, LockRequest, LockItem, Decide, Rollback
  <2> QED BY <2>1, <2>2, QuietLog
<1>2. ASSUME NEW h \in Handlers, Build(h) PROVE LogInv'
  BY <1>2, BuildLog
<1>3. ASSUME NEW h \in Handlers, Store(h) PROVE LogInv'
  BY <1>3, StoreLog
<1>4. ASSUME NEW r \in rows, OpenRead(r) PROVE LogInv'
  BY <1>4, QuietLog DEF OpenRead
<1>5. ASSUME NEW x \in reader, CloseRead(x) PROVE LogInv'
  BY <1>5, CloseReadLog
<1>6. CASE StepBack
  <2>1. setBacks' # 0
    BY <1>6 DEF StepBack, IInv, TypeOK
  <2> QED BY <1>6, <2>1, QuietLog DEF StepBack
<1>7. CASE UNCHANGED vars
  BY <1>7, QuietLog DEF vars
<1> QED BY <1>1, <1>2, <1>3, <1>4, <1>5, <1>6, <1>7 DEF Next

(* The table and the events agree on where every version comes from: it    *)
(* was recorded and superseded at the instants of the events that say so,  *)
(* new versions come after all they replace, and while the clock goes      *)
(* forward no two events have one instant, so that "as of an event" names  *)
(* what that event left (write_service.py:881-930, reversal.py:95-103).    *)
THEOREM LogInvariance == Spec => []LogInv
<1>1. Init => LogInv
  BY InitLog
<1>2. IInv /\ IInv' /\ FitInv /\ FitInv' /\ HistoryInv /\ LogInv /\ [Next]_vars => LogInv'
  BY NextLog
<1> QED BY <1>1, <1>2, Invariance, FitInvariance, HistoryInvariance, PTL DEF Spec

(* A reversal takes back exactly its update: where the update changed what *)
(* is believed, nothing later has been written and what was believed       *)
(* before it is believed again; elsewhere the item stays as it is,         *)
(* whatever other transactions did in between (reversal.py:95-103,         *)
(* actor.py:911, 1006).                                                    *)
THEOREM ReversalExact == Spec => ReversalUndoes
<1> DEFINE A == \A h \in Handlers, i \in Items, v \in Instants :
                  setBacks = 0 /\ Commits(h) /\ tx[h].ask.reverts # {} /\ i = tx[h].undo.item =>
                    LET at     == tx[h].undo.plan.at
                        before == Believed(i, at - 1, v)
                        after  == Believed(i, at, v)
                        now    == Believed(i, Forever - 1, v)
                    IN /\ before # after => now = after
                       /\ Believed(i, Forever - 1, v)' = IF before # after THEN before ELSE now
<1>1. IInv /\ IInv' /\ FitInv /\ HistoryInv /\ LogInv /\ [Next]_vars => A
  <2> SUFFICES ASSUME IInv, IInv', FitInv, HistoryInv, LogInv, [Next]_vars, NEW h \in Handlers,
                      NEW i \in Items, NEW v \in Instants, setBacks = 0, Commits(h),
                      tx[h].ask.reverts # {}, i = tx[h].undo.item
               PROVE  LET at     == tx[h].undo.plan.at
                          before == Believed(i, at - 1, v)
                          after  == Believed(i, at, v)
                          now    == Believed(i, Forever - 1, v)
                      IN /\ before # after => now = after
                         /\ Believed(i, Forever - 1, v)' = IF before # after THEN before ELSE now
    OBVIOUS
  <2>1. Store(h) /\ tx'[h].reply = "done"
    BY CommitStores DEF Commits
  <2> QED BY <2>1, ReversalCommits
<1>2. ReversalUndoes <=> [][A]_vars
  BY DEF ReversalUndoes
<1> HIDE DEF A
<1> QED BY <1>1, <1>2, Invariance, FitInvariance, HistoryInvariance, LogInvariance, PTL DEF Spec
=============================================================================
