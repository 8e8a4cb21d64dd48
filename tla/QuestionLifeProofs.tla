------------------------- MODULE QuestionLifeProofs -------------------------
(***************************************************************************)
(* The questions of the librarian for every number of questions, batches,  *)
(* projects, workers and owners: types, the rules under which a proposal   *)
(* is applied, and the promise of QuestionPromise.  (That an accepted      *)
(* answer ends is left to the runs.)                                       *)
(***************************************************************************)
EXTENDS QuestionLife, WellFoundedInduction, TLAPS

\* A set of natural numbers that is not empty has a least.
LEMMA LeastNatural ==
  ASSUME NEW S \in SUBSET Nat, S # {}
  PROVE  \E m \in S : \A k \in S : m <= k
<1>1. PICK m \in S : \A k \in S : ~(<<k, m>> \in OpToRel(<, Nat))
  BY NatLessThanWellFounded, WFMin
<1>2. \A k \in S : ~(k < m)
  BY <1>1 DEF OpToRel
<1> QED BY <1>2

States == {"unasked"} \union Pending \union Final

-----------------------------------------------------------------------------
(* The questions that one job keeps.                                       *)

\* A question in S of an earlier rank, in K, that q clashes with.
Bars(K, r, q) == r \in K /\ Rank[r] < Rank[q] /\ (<<q, r>> \in Clash \/ <<r, q>> \in Clash)

\* K settles which questions of S are kept, up to rank n.
Settles(K, S, n) ==
  /\ K \subseteq {q \in S : Rank[q] < n}
  /\ \A q \in S : Rank[q] < n => (q \in K <=> ~\E r \in S : Bars(K, r, q))

\* Whoever settles up to some rank can settle one rank more.
LEMMA SettleOneMore ==
  ASSUME NEW S \in SUBSET Question, NEW n \in Nat, NEW K, Settles(K, S, n)
  PROVE  \E L : Settles(L, S, n + 1)
<1> DEFINE N == {q \in S : Rank[q] = n /\ ~\E r \in S : Bars(K, r, q)}
           L == K \union N
<1>0. \A q \in S : Rank[q] \in Nat
  BY QuestionAssumption
<1>1. K \subseteq S /\ (\A q \in K : Rank[q] < n) /\ \A q \in N : q \in S /\ Rank[q] = n
  BY DEF Settles
<1>2. L \subseteq {q \in S : Rank[q] < n + 1}
  BY <1>0, <1>1
<1>3. ASSUME NEW q \in S, Rank[q] < n + 1, NEW r \in S PROVE Bars(L, r, q) <=> Bars(K, r, q)
  <2>1. r \in N => ~(Rank[r] < Rank[q])
    BY <1>0, <1>1, <1>3
  <2> HIDE DEF N
  <2> QED BY <2>1 DEF Bars
<1>4. ASSUME NEW q \in S, Rank[q] < n + 1
      PROVE  q \in L <=> ~\E r \in S : Bars(K, r, q)
  <2>1. CASE Rank[q] < n
    <3>1. q \notin N
      BY <1>0, <2>1
    <3> QED BY <2>1, <3>1 DEF Settles
  <2>2. CASE Rank[q] = n
    <3>1. q \notin K
      BY <1>0, <1>1, <2>2
    <3> QED BY <2>2, <3>1
  <2>3. Rank[q] < n \/ Rank[q] = n
    BY <1>0, <1>4
  <2> QED BY <2>1, <2>2, <2>3
<1> HIDE DEF L
<1>5. Settles(L, S, n + 1)
  BY <1>2, <1>3, <1>4 DEF Settles
<1> QED BY <1>5

\* Every rank can be settled.
LEMMA SettleAll ==
  ASSUME NEW S \in SUBSET Question, NEW n \in Nat
  PROVE  \E K : Settles(K, S, n)
<1> DEFINE Bad == {k \in Nat : ~\E K : Settles(K, S, k)}
<1> SUFFICES ASSUME Bad # {} PROVE FALSE
  OBVIOUS
<1>1. PICK m \in Bad : \A k \in Bad : m <= k
  <2> HIDE DEF Bad
  <2>1. Bad \in SUBSET Nat
    BY DEF Bad
  <2> QED BY <2>1, LeastNatural
<1>2. m # 0
  <2>1. Settles({}, S, 0)
    <3>1. \A q \in S : ~(Rank[q] < 0)
      BY QuestionAssumption
    <3> QED BY <3>1 DEF Settles
  <2> QED BY <2>1
<1>3. m - 1 \in Nat /\ m - 1 \notin Bad /\ (m - 1) + 1 = m
  BY <1>1, <1>2
<1>4. PICK K : Settles(K, S, m - 1)
  BY <1>3
<1>5. \E L : Settles(L, S, m)
  BY <1>3, <1>4, SettleOneMore
<1> QED BY <1>5

\* Two that settle agree where both do.
LEMMA SettledAlike ==
  ASSUME NEW S \in SUBSET Question, NEW n \in Nat, NEW m \in Nat, NEW K, NEW L,
         Settles(K, S, n), Settles(L, S, m)
  PROVE  \A q \in S : Rank[q] < n /\ Rank[q] < m => (q \in K <=> q \in L)
<1> DEFINE Odd == {q \in S : Rank[q] < n /\ Rank[q] < m /\ ~(q \in K <=> q \in L)}
           T == {Rank[q] : q \in Odd}
<1> SUFFICES ASSUME Odd # {} PROVE FALSE
  OBVIOUS
<1>0. \A q \in S : Rank[q] \in Nat
  BY QuestionAssumption
<1>1. T \in SUBSET Nat /\ T # {}
  BY <1>0
<1>2. PICK k \in T : \A j \in T : k <= j
  <2> HIDE DEF T
  <2> QED BY <1>1, LeastNatural
<1>3. PICK q \in Odd : k = Rank[q]
  OBVIOUS
<1>4. ASSUME NEW r \in S, Rank[r] < Rank[q] PROVE r \in K <=> r \in L
  <2>1. r \notin Odd
    <3>1. SUFFICES ASSUME r \in Odd PROVE FALSE
      OBVIOUS
    <3>2. Rank[r] \in T
      BY <3>1
    <3> QED BY <1>0, <1>2, <1>3, <1>4, <3>2
  <2>2. Rank[r] < n /\ Rank[r] < m
    BY <1>0, <1>3, <1>4
  <2> QED BY <2>1, <2>2
<1>5. \A r \in S : Bars(K, r, q) <=> Bars(L, r, q)
  BY <1>4 DEF Bars
<1>6. q \in S /\ Rank[q] < n /\ Rank[q] < m
  OBVIOUS
<1>7. (q \in K <=> ~\E r \in S : Bars(K, r, q)) /\ (q \in L <=> ~\E r \in S : Bars(L, r, q))
  BY <1>6 DEF Settles
<1> QED BY <1>5, <1>7

\* So the kept questions exist: one job's plan is never undetermined.
LEMMA KeptExists ==
  ASSUME NEW S \in SUBSET Question
  PROVE  /\ Kept(S) \subseteq S
         /\ \A q \in S : q \in Kept(S) <=>
              ~\E r \in Kept(S) : Rank[r] < Rank[q] /\ (<<q, r>> \in Clash \/ <<r, q>> \in Clash)
<1> DEFINE K == {q \in S : \E L : Settles(L, S, Rank[q] + 1) /\ q \in L}
<1>0. \A q \in S : Rank[q] \in Nat /\ Rank[q] + 1 \in Nat /\ Rank[q] < Rank[q] + 1
  BY QuestionAssumption
<1>1. ASSUME NEW q \in S
      PROVE  q \in K <=> ~\E r \in K : Rank[r] < Rank[q] /\ (<<q, r>> \in Clash \/ <<r, q>> \in Clash)
  <2>1. PICK L : Settles(L, S, Rank[q] + 1)
    BY <1>0, SettleAll
  <2>2. ASSUME NEW r \in S, Rank[r] <= Rank[q] PROVE r \in K <=> r \in L
    <3>1. PICK M : Settles(M, S, Rank[r] + 1)
      BY <1>0, SettleAll
    <3>2. r \in K => r \in M
      <4> SUFFICES ASSUME NEW J, Settles(J, S, Rank[r] + 1), r \in J PROVE r \in M
        OBVIOUS
      <4> QED BY <1>0, <3>1, SettledAlike
    <3>3. r \in M => r \in K
      BY <3>1
    <3>4. Rank[r] < Rank[q] + 1
      BY <1>0, <2>2
    <3>5. r \in M <=> r \in L
      BY <1>0, <2>1, <3>1, <3>4, SettledAlike
    <3> QED BY <3>2, <3>3, <3>5
  <2>3. q \in K <=> q \in L
    BY <1>0, <2>2
  <2>4. \A r \in S : Rank[r] < Rank[q] => (r \in K <=> r \in L)
    BY <1>0, <2>2
  <2>5. K \subseteq S
    OBVIOUS
  <2> HIDE DEF K
  <2>6. L \subseteq S /\ (q \in L <=> ~\E r \in S : Bars(L, r, q))
    BY <1>0, <2>1 DEF Settles
  <2> QED BY <2>3, <2>4, <2>5, <2>6 DEF Bars
<1>2. K \in SUBSET S
  OBVIOUS
<1> HIDE DEF K
<1> QED BY <1>1, <1>2 DEF Kept
-----------------------------------------------------------------------------
(* What a step leaves as it was.                                           *)

\* The locked row of q stays as it is, and so does what was checked about it.
Stays(q) == status'[q] = status[q] /\ (Sure(q) => Sure(q)')

\* No step but a role decision or a change of status lets more questions apply.
NoMoreApplicable ==
  /\ UNCHANGED <<decided, override>>
  /\ \A q \in Question : status'[q] \in Applicable /\ q \notin due' =>
                         status[q] \in Applicable /\ q \notin due

\* Whatever an item is given to, a question that assessed the item notices.
LEMMA SureStays ==
  ASSUME UNCHANGED <<decided, override>>, NEW q \in Question, q \in stale => q \in stale',
         \A i \in Subjects[q] : scope'[i] = scope[i] \/ q \in stale'
  PROVE  Sure(q) => Sure(q)'
<1>1. CASE q \in stale'
  BY <1>1 DEF Sure
<1>2. CASE \A i \in Subjects[q] : scope'[i] = scope[i]
  <2>1. Touched(q)' = Touched(q)
    BY <1>2 DEF Touched
  <2> QED BY <2>1 DEF Sure, AboveObserver, EffectiveRole, Lower
<1> QED BY <1>1, <1>2

\* What a job has read stays true when its rows stay.
LEMMA JobStays ==
  ASSUME NEW w \in Worker, JobFits(w), work[w] \in WorkState, work'[w] = work[w],
         Applying(w) => \A q \in Live(work[w].plan) : Stays(q)
  PROVE  JobFits(w)'
<1>1. work'[w].pc # "idle" => work'[w].job \in Job
  BY DEF JobFits
<1>2. ASSUME Applying(w)'
      PROVE  /\ work'[w].ready \union work'[w].gone \subseteq Live(work[w].plan)'
             /\ \A q \in work'[w].ready : Sure(q)'
  <2>1. Applying(w)
    BY <1>2 DEF Applying
  <2>2. \A q \in work[w].ready : q \in Live(work[w].plan) /\ Sure(q)
    BY <2>1 DEF JobFits
  <2>3. \A q \in work[w].ready : Sure(q)'
    BY <2>1, <2>2 DEF Stays
  <2>4. \A q \in work[w].ready \union work[w].gone : q \in Live(work[w].plan)
    BY <2>1 DEF JobFits
  <2>5. \A q \in Live(work[w].plan) : status'[q] = status[q]
    BY <2>1 DEF Stays
  <2>6. \A q \in Live(work[w].plan) : q \in Live(work[w].plan)'
    BY <2>5 DEF Live
  <2> QED BY <2>3, <2>4, <2>6
<1> QED BY <1>1, <1>2 DEF JobFits

\* So does what an owner's transaction has read.
LEMMA DealStays ==
  ASSUME NEW o \in Owner, DealFits(o), deal'[o] = deal[o],
         Sharing(o) => \A q \in deal[o].rows : Stays(q),
         deal[o].pc = "role" => NoMoreApplicable
  PROVE  DealFits(o)'
<1>1. ASSUME Sharing(o)'
      PROVE  /\ \A q \in deal'[o].rows : status'[q] \in Pending
             /\ deal'[o].to = "applied" => \A q \in deal'[o].rows : Sure(q)'
  <2>1. Sharing(o)
    BY <1>1 DEF Sharing
  <2> QED BY <2>1 DEF DealFits, Stays
<1>2. ASSUME deal'[o].pc = "role"
      PROVE  deal'[o].decision \in Decision /\ Counted(deal[o].decision)' \subseteq deal'[o].rows
  <2>1. deal[o].decision \in Decision /\ Counted(deal[o].decision) \subseteq deal[o].rows
    BY <1>2 DEF DealFits
  <2>2. NoMoreApplicable
    BY <1>2
  <2>3. Counted(deal[o].decision)' \subseteq Counted(deal[o].decision)
    BY <2>2 DEF NoMoreApplicable, Counted, RoleAfter, Lower
  <2> QED BY <2>1, <2>3
<1> QED BY <1>1, <1>2 DEF DealFits

\* A worker that takes no row but its own, or takes them free, holds them alone.
LEMMA WorkApart ==
  ASSUME RowsApart, RoleAlone, UNCHANGED deal, NEW w \in Worker, NEW r,
         work \in [Worker -> WorkState], Become(w, r),
         r.pc \in {"locks", "commit"} =>
           \/ Applying(w) /\ r.plan = work[w].plan
           \/ ~RoleExclusive /\ r.plan \cap LockedRows = {}
  PROVE  RowsApart' /\ RoleAlone'
<1>1. work'[w] = r /\ \A v \in Worker : v # w => work'[v] = work[v]
  BY DEF Become
<1>2. \A v \in Worker : v # w => (Applying(v)' <=> Applying(v))
  BY <1>1 DEF Applying
<1>3. ASSUME Applying(w)'
      PROVE  /\ \A v \in Worker : v # w /\ Applying(v) => r.plan \cap work[v].plan = {}
             /\ \A o \in Owner : Sharing(o) => r.plan \cap deal[o].rows = {}
             /\ \A o \in Owner : deal[o].pc # "role"
  <2>1. r.pc \in {"locks", "commit"}
    BY <1>1, <1>3 DEF Applying
  <2>2. CASE Applying(w) /\ r.plan = work[w].plan
    BY <2>2 DEF RowsApart, RoleAlone
  <2>3. CASE ~RoleExclusive /\ r.plan \cap LockedRows = {}
    <3>1. \A v \in Worker : Applying(v) => work[v].plan \subseteq LockedRows
      BY DEF LockedRows
    <3>2. \A o \in Owner : Sharing(o) => deal[o].rows \subseteq LockedRows
      BY DEF LockedRows, Sharing
    <3> HIDE DEF LockedRows
    <3> QED BY <2>3, <3>1, <3>2 DEF RoleExclusive
  <2> QED BY <2>1, <2>2, <2>3
<1>4. RowsApart'
  <2>1. \A v, u \in Worker : v # u /\ Applying(v)' /\ Applying(u)' => work'[v].plan \cap work'[u].plan = {}
    BY <1>1, <1>2, <1>3 DEF RowsApart
  <2>2. \A v \in Worker, o \in Owner : Applying(v)' /\ Sharing(o)' => work'[v].plan \cap deal'[o].rows = {}
    BY <1>1, <1>2, <1>3 DEF RowsApart, Sharing
  <2>3. \A o, p \in Owner : o # p /\ Sharing(o)' /\ Sharing(p)' => deal'[o].rows \cap deal'[p].rows = {}
    BY DEF RowsApart, Sharing
  <2> QED BY <2>1, <2>2, <2>3 DEF RowsApart
<1>5. RoleAlone'
  BY <1>2, <1>3 DEF RoleAlone
<1> QED BY <1>4, <1>5

\* The same of an owner's transaction.
LEMMA DealApart ==
  ASSUME RowsApart, RoleAlone, UNCHANGED work, NEW o \in Owner, NEW r \in DealState,
         deal \in [Owner -> DealState], deal' = [deal EXCEPT ![o] = r],
         r.pc \in {"locks", "commit"} =>
           \/ Sharing(o) /\ r.rows = deal[o].rows
           \/ ~RoleExclusive /\ r.rows \cap LockedRows = {},
         r.pc = "role" => ~RoleShared /\ ~RoleExclusive
  PROVE  RowsApart' /\ RoleAlone'
<1>1. deal'[o] = r /\ \A p \in Owner : p # o => deal'[p] = deal[p]
  OBVIOUS
<1>2. \A p \in Owner : p # o => (Sharing(p)' <=> Sharing(p))
  BY <1>1 DEF Sharing
<1>3. \A w \in Worker : Applying(w)' <=> Applying(w)
  BY DEF Applying
<1>4. ASSUME Sharing(o)'
      PROVE  /\ \A p \in Owner : p # o /\ Sharing(p) => r.rows \cap deal[p].rows = {}
             /\ \A w \in Worker : Applying(w) => work[w].plan \cap r.rows = {}
             /\ \A p \in Owner : p # o => deal[p].pc # "role"
  <2>1. r.pc \in {"locks", "commit"}
    BY <1>1, <1>4 DEF Sharing
  <2>2. CASE Sharing(o) /\ r.rows = deal[o].rows
    BY <2>2 DEF RowsApart, RoleAlone, Sharing
  <2>3. CASE ~RoleExclusive /\ r.rows \cap LockedRows = {}
    <3>1. \A w \in Worker : Applying(w) => work[w].plan \subseteq LockedRows
      BY DEF LockedRows
    <3>2. \A p \in Owner : Sharing(p) => deal[p].rows \subseteq LockedRows
      BY DEF LockedRows, Sharing
    <3> HIDE DEF LockedRows
    <3> QED BY <2>3, <3>1, <3>2 DEF RoleExclusive
  <2> QED BY <2>1, <2>2, <2>3
<1>5. RowsApart'
  <2>1. \A v, u \in Worker : v # u /\ Applying(v)' /\ Applying(u)' => work'[v].plan \cap work'[u].plan = {}
    BY <1>3 DEF RowsApart
  <2>2. \A v \in Worker, p \in Owner : Applying(v)' /\ Sharing(p)' => work'[v].plan \cap deal'[p].rows = {}
    BY <1>1, <1>2, <1>3, <1>4 DEF RowsApart
  <2>3. \A p, u \in Owner : p # u /\ Sharing(p)' /\ Sharing(u)' => deal'[p].rows \cap deal'[u].rows = {}
    BY <1>1, <1>2, <1>4 DEF RowsApart
  <2> QED BY <2>1, <2>2, <2>3 DEF RowsApart
<1>6. RoleAlone'
  <2>1. ASSUME NEW p \in Owner, deal'[p].pc = "role"
        PROVE  (\A w \in Worker : ~Applying(w)) /\ \A u \in Owner : u = p \/ deal'[u].pc = "idle"
    <3>1. CASE p = o
      <4>1. ~RoleShared /\ ~RoleExclusive
        BY <1>1, <2>1, <3>1
      <4>2. \A u \in Owner : deal[u] \in DealState
        OBVIOUS
      <4>3. \A u \in Owner : deal[u].pc \in {"idle", "locks", "commit", "role"}
        BY <4>2 DEF DealState
      <4> QED BY <1>1, <3>1, <4>1, <4>3 DEF RoleShared, RoleExclusive
    <3>2. CASE p # o
      <4>1. deal[p].pc = "role"
        BY <1>1, <2>1, <3>2
      <4>2. (\A w \in Worker : ~Applying(w)) /\ \A u \in Owner : u = p \/ deal[u].pc = "idle"
        BY <4>1 DEF RoleAlone
      <4>3. RoleExclusive /\ ~Sharing(o)
        BY <3>2, <4>1, <4>2 DEF RoleExclusive, Sharing
      <4>4. r.pc \notin {"locks", "commit", "role"}
        BY <4>3
      <4>5. r.pc = "idle"
        BY <4>4 DEF DealState
      <4> QED BY <1>1, <4>2, <4>5
    <3> QED BY <3>1, <3>2
  <2> QED BY <1>3, <2>1 DEF RoleAlone
<1> QED BY <1>5, <1>6
-----------------------------------------------------------------------------
(* Types, and rows that change their status.                               *)

NoRow == {"unasked", "dropped", "direct"}

RowsOK ==
  /\ status \in [Question -> States]
  /\ batchOf \in [Question -> Batch \union {Null}]
  /\ \A q \in Question : batchOf[q] = Null <=> status[q] \in NoRow
  /\ due \subseteq Question /\ stale \subseteq Question
  /\ batch \in [Batch -> {"none", "open", "ready", "decided", "applied"}]

WorldOK ==
  /\ decided \in Role /\ override \in [Project -> Role]
  /\ scope \in [Item -> SUBSET Project]
  /\ walled \in BOOLEAN /\ trusted \in BOOLEAN

QueueOK == rounds \in [Batch -> 0..(MaxRound + 1)] /\ queued \subseteq Job

ActorsOK == work \in [Worker -> WorkState] /\ deal \in [Owner -> DealState] /\ upsets \in 0..MaxUpset

\* TypeOK in four parts.
LEMMA TypeParts == TypeOK <=> RowsOK /\ WorldOK /\ QueueOK /\ ActorsOK
BY DEF TypeOK, RowsOK, WorldOK, QueueOK, ActorsOK, States, NoRow

\* The same split of the type invariant for the next state.
LEMMA TypePartsPrimed == TypeOK' <=> RowsOK' /\ WorldOK' /\ QueueOK' /\ ActorsOK'
BY TypeParts, PTL

\* Recording a status forgets neither a term nor a head that moved, while the
\* question is pending.
LEMMA RecordKeeps ==
  ASSUME RowsOK, NEW new \in [Question -> States], NEW S, Record(new, S)
  PROVE  /\ status' = new /\ due' \subseteq due /\ stale' \subseteq Question
         /\ \A q \in Question : new[q] \in Pending => /\ q \in due => q \in due'
                                                      /\ q \in stale => q \in stale'
                                                      /\ Subjects[q] \cap S # {} => q \in stale'
BY DEF Record, RowsOK

\* Only pending rows change, and none loses its row.
LEMMA RowsMove ==
  ASSUME RowsOK, NEW new \in [Question -> States], NEW S, Record(new, S), UNCHANGED batchOf,
         batch' \in [Batch -> {"none", "open", "ready", "decided", "applied"}],
         \A q \in Question : new[q] = status[q] \/ (status[q] \in Pending /\ new[q] \notin NoRow)
  PROVE  RowsOK'
<1>1. status' = new /\ due' \subseteq Question /\ stale' \subseteq Question
  BY RecordKeeps DEF RowsOK
<1>2. \A q \in Question : batchOf'[q] = Null <=> new[q] \in NoRow
  <2>1. \A q \in Question : status[q] \in Pending => status[q] \notin NoRow
    BY DEF Pending, Applicable, NoRow
  <2> QED BY <2>1 DEF RowsOK
<1> QED BY <1>1, <1>2 DEF RowsOK

\* A batch is not done behind the back of a question that stays pending.
LEMMA BatchMove ==
  ASSUME RowsOK, AppliedBatchIsDone, NEW new \in [Question -> States], NEW S, Record(new, S),
         UNCHANGED batchOf,
         \A q \in Question : new[q] = status[q] \/ status[q] \in Pending,
         \A b \in Batch : batch'[b] = batch[b] \/ batch'[b] # "applied"
  PROVE  AppliedBatchIsDone'
<1> SUFFICES ASSUME NEW q \in Question, status'[q] \in Pending PROVE batch'[batchOf'[q]] # "applied"
  BY DEF AppliedBatchIsDone
<1>1. status' = new
  BY RecordKeeps
<1>2. status[q] \in Pending
  BY <1>1
<1>3. batchOf[q] \in Batch
  BY <1>2 DEF RowsOK, Pending, Applicable, NoRow
<1> QED BY <1>2, <1>3 DEF AppliedBatchIsDone

\* A row outside of the transaction that commits stays.
LEMMA OthersStay ==
  ASSUME RowsOK, NEW new \in [Question -> States], NEW S, Record(new, S),
         UNCHANGED <<decided, override>>,
         NEW q \in Question, status[q] \in Pending, new[q] = status[q],
         \A i \in Subjects[q] : scope'[i] = scope[i] \/ i \in S
  PROVE  Stays(q)
<1>1. status'[q] = status[q] /\ (q \in stale => q \in stale') /\ (Subjects[q] \cap S # {} => q \in stale')
  BY RecordKeeps
<1>2. \A i \in Subjects[q] : scope'[i] = scope[i] \/ q \in stale'
  BY <1>1
<1>3. Sure(q) => Sure(q)'
  BY <1>1, <1>2, SureStays
<1> QED BY <1>1, <1>3 DEF Stays

\* A transaction that writes its own rows leaves the others what they have read.
LEMMA OthersFit ==
  ASSUME IInv, NEW new \in [Question -> States], NEW S, Record(new, S),
         UNCHANGED <<decided, override>>, NEW Ours,
         \A q \in Question : status[q] \in Pending /\ q \notin Ours => new[q] = status[q],
         \A q \in Question : \A i \in Subjects[q] : scope'[i] = scope[i] \/ i \in S
  PROVE  /\ \A w \in Worker : work'[w] = work[w] /\ (Applying(w) => work[w].plan \cap Ours = {})
                                => JobFits(w)'
         /\ \A o \in Owner : /\ deal'[o] = deal[o] /\ (Sharing(o) => deal[o].rows \cap Ours = {})
                             /\ deal[o].pc = "role" =>
                                  \A q \in Question : new[q] \in Applicable => status[q] \in Applicable
                             => DealFits(o)'
<1>1. RowsOK /\ (\A w \in Worker : work[w] \in WorkState) /\ \A o \in Owner : deal[o] \in DealState
  BY TypeParts DEF IInv, ActorsOK
<1>2. \A q \in Question : status[q] \in Pending /\ q \notin Ours => Stays(q)
  BY <1>1, OthersStay
<1>3. ASSUME NEW w \in Worker, work'[w] = work[w], Applying(w) => work[w].plan \cap Ours = {}
      PROVE  JobFits(w)'
  <2>1. work[w].plan \subseteq Question
    BY <1>1 DEF WorkState
  <2>2. Applying(w) => \A q \in Live(work[w].plan) : Stays(q)
    BY <1>2, <1>3, <2>1 DEF Live, Pending
  <2>3. JobFits(w)
    BY DEF IInv
  <2> QED BY <1>1, <1>3, <2>2, <2>3, JobStays
<1>4. ASSUME NEW o \in Owner, deal'[o] = deal[o], Sharing(o) => deal[o].rows \cap Ours = {},
             deal[o].pc = "role" =>
               \A q \in Question : new[q] \in Applicable => status[q] \in Applicable
      PROVE  DealFits(o)'
  <2>1. deal[o].rows \subseteq Question
    BY <1>1 DEF DealState
  <2>2. DealFits(o)
    BY DEF IInv
  <2>3. Sharing(o) => \A q \in deal[o].rows : Stays(q)
    BY <1>2, <1>4, <2>1, <2>2 DEF DealFits
  <2>4. deal[o].pc = "role" => NoMoreApplicable
    <3>1. \A q \in Question : new[q] \in Pending /\ q \notin due' => q \notin due
      BY <1>1, RecordKeeps
    <3>2. status' = new
      BY <1>1, RecordKeeps
    <3> QED BY <1>4, <3>1, <3>2 DEF NoMoreApplicable, Pending
  <2> QED BY <1>4, <2>2, <2>3, <2>4, DealStays
<1> QED BY <1>3, <1>4

\* A step that changes no row and no role keeps what everybody has read.
LEMMA StillFit ==
  ASSUME IInv, UNCHANGED <<status, stale, decided, override, scope>>, due \subseteq due'
  PROVE  /\ \A w \in Worker : work'[w] = work[w] => JobFits(w)'
         /\ \A o \in Owner : deal'[o] = deal[o] => DealFits(o)'
<1>1. (\A w \in Worker : work[w] \in WorkState) /\ \A o \in Owner : deal[o] \in DealState
  BY TypeParts DEF IInv, ActorsOK
<1>2. \A q \in Question : Stays(q)
  BY DEF Stays, Sure, AboveObserver, Touched, EffectiveRole, Lower
<1>3. NoMoreApplicable
  BY DEF NoMoreApplicable
<1>4. \A w \in Worker : Live(work[w].plan) \subseteq Question
  BY <1>1 DEF WorkState, Live
<1>5. \A o \in Owner : deal[o].rows \subseteq Question
  BY <1>1 DEF DealState
<1>6. ASSUME NEW w \in Worker, work'[w] = work[w] PROVE JobFits(w)'
  BY <1>1, <1>2, <1>4, <1>6, JobStays DEF IInv
<1>7. ASSUME NEW o \in Owner, deal'[o] = deal[o] PROVE DealFits(o)'
  BY <1>2, <1>3, <1>5, <1>7, DealStays DEF IInv
<1> QED BY <1>6, <1>7

\* Nothing moves: the parts of the invariant that are not about transactions.
LEMMA RowsStill ==
  ASSUME IInv, UNCHANGED <<rows, world>>
  PROVE  RowsOK' /\ WorldOK' /\ AppliedBatchIsDone'
<1>1. RowsOK /\ WorldOK /\ AppliedBatchIsDone
  BY TypeParts DEF IInv
<1>2. RowsOK'
  BY <1>1 DEF RowsOK, rows
<1>3. WorldOK'
  BY <1>1 DEF WorldOK, world
<1>4. AppliedBatchIsDone'
  BY <1>1 DEF AppliedBatchIsDone, rows
<1> QED BY <1>2, <1>3, <1>4
-----------------------------------------------------------------------------
(* Steps that change no row.                                               *)

\* A worker goes on to r.
LEMMA WorkerGoesOn ==
  ASSUME IInv, UNCHANGED <<rows, world, deal>>, QueueOK', upsets' \in 0..MaxUpset,
         NEW w \in Worker, NEW r \in WorkState, Become(w, r), r.pc # "idle" => r.job \in Job,
         r.pc \in {"locks", "commit"} =>
           /\ \/ Applying(w) /\ r.plan = work[w].plan
              \/ ~RoleExclusive /\ r.plan \cap LockedRows = {}
           /\ r.ready \union r.gone \subseteq Live(r.plan)
           /\ \A q \in r.ready : Sure(q)
  PROVE  IInv'
<1>1. ActorsOK /\ RowsApart /\ RoleAlone
  BY TypeParts DEF IInv
<1>2. RowsOK' /\ WorldOK' /\ AppliedBatchIsDone'
  BY RowsStill
<1>3. work'[w] = r /\ \A v \in Worker : v # w => work'[v] = work[v]
  BY <1>1 DEF Become, ActorsOK
<1>4. ActorsOK'
  BY <1>1 DEF ActorsOK, Become
<1>5. RowsApart' /\ RoleAlone'
  BY <1>1, WorkApart DEF ActorsOK
<1>6. /\ \A v \in Worker : work'[v] = work[v] => JobFits(v)'
      /\ \A o \in Owner : deal'[o] = deal[o] => DealFits(o)'
  BY StillFit DEF rows, world
<1>7. JobFits(w)'
  <2>1. ASSUME Applying(w)'
        PROVE  /\ r.ready \union r.gone \subseteq Live(r.plan)'
               /\ \A q \in r.ready : Sure(q)'
    <3>1. r.ready \union r.gone \subseteq Live(r.plan) /\ \A q \in r.ready : Sure(q)
      BY <1>3, <2>1 DEF Applying
    <3>2. Live(r.plan)' = Live(r.plan)
      BY DEF Live, rows
    <3>3. \A q \in r.ready : Sure(q)' <=> Sure(q)
      BY DEF Sure, AboveObserver, Touched, EffectiveRole, Lower, rows, world
    <3> QED BY <3>1, <3>2, <3>3
  <2> QED BY <1>3, <2>1 DEF JobFits
<1>8. (\A v \in Worker : JobFits(v)') /\ \A o \in Owner : DealFits(o)'
  BY <1>3, <1>6, <1>7
<1> QED BY <1>2, <1>4, <1>5, <1>8, TypePartsPrimed DEF IInv

\* An owner's transaction goes on to r.
LEMMA OwnerGoesOn ==
  ASSUME IInv, UNCHANGED <<rows, world, work, rounds, queued, upsets>>,
         NEW o \in Owner, NEW r \in DealState, deal' = [deal EXCEPT ![o] = r],
         r.pc \in {"locks", "commit"} =>
           /\ \/ Sharing(o) /\ r.rows = deal[o].rows
              \/ ~RoleExclusive /\ r.rows \cap LockedRows = {}
           /\ \A q \in r.rows : status[q] \in Pending
           /\ r.to = "applied" => \A q \in r.rows : Sure(q),
         r.pc = "role" => /\ ~RoleShared /\ ~RoleExclusive
                          /\ r.decision \in Decision /\ Counted(r.decision) \subseteq r.rows
  PROVE  IInv'
<1>1. ActorsOK /\ RowsApart /\ RoleAlone /\ QueueOK
  BY TypeParts DEF IInv
<1>2. RowsOK' /\ WorldOK' /\ AppliedBatchIsDone'
  BY RowsStill
<1>3. deal'[o] = r /\ \A p \in Owner : p # o => deal'[p] = deal[p]
  BY <1>1 DEF ActorsOK
<1>4. ActorsOK' /\ QueueOK'
  <2>1. ActorsOK'
    BY <1>1 DEF ActorsOK
  <2> QED BY <1>1, <2>1 DEF QueueOK
<1>5. RowsApart' /\ RoleAlone'
  BY <1>1, DealApart DEF ActorsOK
<1>6. /\ \A w \in Worker : work'[w] = work[w] => JobFits(w)'
      /\ \A p \in Owner : deal'[p] = deal[p] => DealFits(p)'
  BY StillFit DEF rows, world
<1>7. DealFits(o)'
  <2>1. ASSUME Sharing(o)'
        PROVE  /\ \A q \in r.rows : status'[q] \in Pending
               /\ r.to = "applied" => \A q \in r.rows : Sure(q)'
    <3>1. \A q : Sure(q)' <=> Sure(q)
      BY DEF Sure, AboveObserver, Touched, EffectiveRole, Lower, rows, world
    <3> QED BY <1>3, <2>1, <3>1 DEF Sharing, rows
  <2>2. Counted(r.decision)' = Counted(r.decision)
    BY DEF Counted, RoleAfter, Lower, rows, world
  <2> QED BY <1>3, <2>1, <2>2 DEF DealFits
<1>8. (\A w \in Worker : JobFits(w)') /\ \A p \in Owner : DealFits(p)'
  BY <1>3, <1>6, <1>7
<1> QED BY <1>2, <1>4, <1>5, <1>8, TypePartsPrimed DEF IInv

\* Leasing a job takes it from the queue and moves no question.
LEMMA LeaseStep == ASSUME IInv, NEW w \in Worker, NEW j \in Job, Lease(w, j) PROVE IInv'
<1> DEFINE r == [Resting EXCEPT !.pc = "leased", !.job = j]
<1>1. r \in WorkState /\ r.pc = "leased" /\ r.job = j
  BY DEF Resting, WorkState
<1>2. QueueOK' /\ upsets' \in 0..MaxUpset
  BY TypeParts DEF IInv, QueueOK, ActorsOK, Lease
<1>3. UNCHANGED <<rows, world, deal>> /\ Become(w, r)
  BY DEF Lease
<1> HIDE DEF r
<1> QED BY <1>1, <1>2, <1>3, WorkerGoesOn

\* The plan is a snapshot: it locks nothing and moves no question.
LEMMA PlanStep == ASSUME IInv, NEW w \in Worker, Plan(w) PROVE IInv'
<1> DEFINE P == {q \in Question : batchOf[q] = work[w].job[1] /\ status[q] \in Applicable}
           r == [work[w] EXCEPT !.pc = "planned", !.plan = P]
<1>1. work[w] \in WorkState /\ work[w].job \in Job
  BY TypeParts DEF IInv, ActorsOK, JobFits, Plan
<1>2. r \in WorkState /\ r.pc = "planned" /\ r.job = work[w].job
  <2>1. P \in SUBSET Question
    OBVIOUS
  <2> HIDE DEF P
  <2> QED BY <1>1, <2>1 DEF WorkState
<1>3. QueueOK' /\ upsets' \in 0..MaxUpset
  BY TypeParts DEF IInv, QueueOK, ActorsOK, Plan
<1>4. UNCHANGED <<rows, world, deal>> /\ Become(w, r)
  BY DEF Plan
<1> HIDE DEF r
<1> QED BY <1>1, <1>2, <1>3, <1>4, WorkerGoesOn

\* The job locks the rows of its plan against every other holder, and keeps
\* those whose role is above observer.
LEMMA ApplyRowsStep == ASSUME IInv, NEW w \in Worker, ApplyRows(w) PROVE IInv'
<1> DEFINE live == Live(work[w].plan) \ due
           ready == {q \in live : AboveObserver(q)}
           gone == Live(work[w].plan) \cap due
           pc == IF ready = {} THEN "commit" ELSE "locks"
           r == [work[w] EXCEPT !.pc = pc, !.ready = ready, !.gone = gone]
<1>1. work[w] \in WorkState /\ work[w].job \in Job
  BY TypeParts DEF IInv, ActorsOK, JobFits, ApplyRows
<1>2. ready \subseteq Live(work[w].plan) /\ gone \subseteq Live(work[w].plan)
      /\ Live(work[w].plan) \subseteq Question /\ \A q \in ready : Sure(q)
  BY <1>1 DEF Live, Sure, WorkState
<1>3. QueueOK' /\ upsets' \in 0..MaxUpset
  BY TypeParts DEF IInv, QueueOK, ActorsOK, ApplyRows
<1>4. /\ UNCHANGED <<rows, world, deal>> /\ Become(w, r)
      /\ ~RoleExclusive /\ work[w].plan \cap LockedRows = {}
  BY DEF ApplyRows
<1>5. pc \in {"locks", "commit"}
  OBVIOUS
<1> HIDE DEF ready, gone, pc
<1>6. /\ r \in WorkState /\ r.pc = pc /\ r.job = work[w].job /\ r.plan = work[w].plan
      /\ r.ready = ready /\ r.gone = gone
  BY <1>1, <1>2, <1>5 DEF WorkState
<1> HIDE DEF r
<1> QED BY <1>1, <1>2, <1>3, <1>4, <1>6, WorkerGoesOn

\* Waiting for the item locks costs the job only what has expired.
LEMMA ApplyLocksStep == ASSUME IInv, NEW w \in Worker, ApplyLocks(w) PROVE IInv'
<1> DEFINE gone == work[w].gone \union ((work[w].ready \ Widening) \cap due)
           r == [work[w] EXCEPT !.pc = "commit", !.gone = gone]
<1>1. work[w] \in WorkState /\ work[w].job \in Job /\ Applying(w)
  BY TypeParts DEF IInv, ActorsOK, JobFits, ApplyLocks, Applying
<1>2. /\ work[w].ready \union work[w].gone \subseteq Live(work[w].plan)
      /\ \A q \in work[w].ready : Sure(q)
  BY <1>1 DEF IInv, JobFits
<1>3. QueueOK' /\ upsets' \in 0..MaxUpset
  BY TypeParts DEF IInv, QueueOK, ActorsOK, ApplyLocks
<1>4. UNCHANGED <<rows, world, deal>> /\ Become(w, r)
  BY DEF ApplyLocks
<1>5. gone \subseteq Live(work[w].plan) /\ gone \subseteq Question
  BY <1>1, <1>2 DEF WorkState
<1> HIDE DEF gone
<1>6. /\ r \in WorkState /\ r.pc = "commit" /\ r.job = work[w].job /\ r.plan = work[w].plan
      /\ r.ready = work[w].ready /\ r.gone = gone
  BY <1>1, <1>5 DEF WorkState
<1> HIDE DEF r
<1> QED BY <1>1, <1>2, <1>3, <1>4, <1>5, <1>6, WorkerGoesOn

\* A worker that ended its job is well typed and holds nothing.
LEMMA RestingTyped == Resting \in WorkState /\ Resting.pc = "idle"
BY DEF Resting, WorkState

\* The next round of a batch stays within the model's bound.
LEMMA RoundTyped ==
  ASSUME QueueOK, NEW b \in Batch PROVE Round(b) \in [Batch -> 0..(MaxRound + 1)]
<1>1. rounds[b] \in 0..(MaxRound + 1) /\ MaxRound \in Nat
  BY QuestionAssumption DEF QueueOK
<1>2. (IF rounds[b] > MaxRound THEN rounds[b] ELSE rounds[b] + 1) \in 0..(MaxRound + 1)
  BY <1>1
<1> QED BY <1>2 DEF QueueOK, Round

\* A job whose plan is empty ends without touching a question.
LEMMA NotApprovedStep == ASSUME IInv, NEW w \in Worker, NotApproved(w) PROVE IInv'
<1>1. work[w].job[1] \in Batch
  BY DEF IInv, JobFits, NotApproved, Job
<1>2. QueueOK' /\ upsets' \in 0..MaxUpset
  BY <1>1, TypeParts, RoundTyped DEF IInv, QueueOK, ActorsOK, NotApproved
<1>3. UNCHANGED <<rows, world, deal>> /\ Become(w, Resting)
  BY DEF NotApproved
<1> QED BY <1>2, <1>3, RestingTyped, WorkerGoesOn

\* A crash gives up every lock with the transaction and leaves the rows.
LEMMA CrashStep == ASSUME IInv, NEW w \in Worker, Crash(w) PROVE IInv'
<1>1. work[w].job \in Job
  BY DEF IInv, JobFits, Crash
<1>2. QueueOK'
  BY <1>1, TypeParts DEF IInv, QueueOK, Crash
<1>3. upsets' \in 0..MaxUpset
  BY TypeParts, QuestionAssumption DEF IInv, ActorsOK, Crash, Upset
<1>4. UNCHANGED <<rows, world, deal>> /\ Become(w, Resting)
  BY DEF Crash
<1> QED BY <1>2, <1>3, <1>4, RestingTyped, WorkerGoesOn

\* A dealing that has ended is well typed and holds nothing.
LEMMA IdleTyped == Idle \in DealState /\ Idle.pc = "idle"
BY DEF Idle, DealState

\* An answer leads to one of four states, and to 'applied' only under a role
\* above the observer's.
LEMMA VerdictTyped ==
  ASSUME NEW q, NEW verb \in {"accept", "reject", "custom"}
  PROVE  /\ Verdict(q, verb) \in {"rejected", "answered", "applied", "accepted_pending"}
         /\ Verdict(q, verb) = "applied" => AboveObserver(q)
BY DEF Verdict

\* An answer locks its question when nobody else holds it.
LEMMA AnswerRowStep ==
  ASSUME IInv, NEW o \in Owner, NEW q \in Question, AnswerRow(o, q) PROVE IInv'
<1>1. PICK verb \in {"accept", "reject", "custom"} :
        deal' = [deal EXCEPT ![o] = [Idle EXCEPT !.pc = IF Verdict(q, verb) = "applied" THEN "locks" ELSE "commit",
                                                 !.rows = {q}, !.to = Verdict(q, verb)]]
  BY DEF AnswerRow
<1> DEFINE to == Verdict(q, verb)
           pc == IF to = "applied" THEN "locks" ELSE "commit"
           r == [Idle EXCEPT !.pc = pc, !.rows = {q}, !.to = to]
<1>2. to \in {"rejected", "answered", "applied", "accepted_pending"} /\ (to = "applied" => Sure(q))
  BY VerdictTyped DEF Sure
<1>3. pc \in {"locks", "commit"}
  OBVIOUS
<1>4. deal' = [deal EXCEPT ![o] = r]
  BY <1>1
<1> HIDE DEF to, pc
<1>5. r \in DealState /\ r.pc = pc /\ r.rows = {q} /\ r.to = to
  BY <1>2, <1>3 DEF Idle, DealState
<1>6. status[q] \in Pending
  BY DEF AnswerRow, Answerable, Pending
<1>7. /\ UNCHANGED <<rows, world, work, rounds, queued, upsets>>
      /\ ~RoleExclusive /\ {q} \cap LockedRows = {}
  BY DEF AnswerRow
<1> HIDE DEF r
<1> QED BY <1>2, <1>3, <1>4, <1>5, <1>6, <1>7, OwnerGoesOn

\* An answer takes the item locks after its question's row.
LEMMA AnswerLocksStep == ASSUME IInv, NEW o \in Owner, AnswerLocks(o) PROVE IInv'
<1>1. deal[o] \in DealState /\ DealFits(o) /\ Sharing(o)
  BY TypeParts DEF IInv, ActorsOK, AnswerLocks, Sharing
<1> DEFINE r == [deal[o] EXCEPT !.pc = "commit"]
<1>2. r \in DealState /\ r.pc = "commit" /\ r.rows = deal[o].rows /\ r.to = deal[o].to
  BY <1>1 DEF DealState
<1>3. UNCHANGED <<rows, world, work, rounds, queued, upsets>>
  BY DEF AnswerLocks
<1>4. CASE deal' = [deal EXCEPT ![o] = r]
  <2> HIDE DEF r
  <2> QED BY <1>1, <1>2, <1>3, <1>4, OwnerGoesOn DEF DealFits
<1>5. CASE deal' = [deal EXCEPT ![o] = Idle]
  BY <1>3, <1>5, IdleTyped, OwnerGoesOn
<1>6. deal' = [deal EXCEPT ![o] = r] \/ deal' = [deal EXCEPT ![o] = Idle]
  <2>1. deal' = [deal EXCEPT ![o] = IF deal[o].rows \cap due = {} THEN r ELSE Idle]
    BY <1>1, TypeParts DEF AnswerLocks, IInv, ActorsOK
  <2> HIDE DEF r
  <2> QED BY <2>1
<1> QED BY <1>4, <1>5, <1>6

\* A decision locks the open rows of its batch, at once or not at all.
LEMMA DecideRowsStep ==
  ASSUME IInv, NEW o \in Owner, NEW b \in Batch, DecideRows(o, b) PROVE IInv'
<1> DEFINE open == OpenIn(b) \ due
           r == [Idle EXCEPT !.pc = "commit", !.rows = open, !.batch = b]
<1>1. open \subseteq Question /\ \A q \in open : status[q] \in Pending
  BY DEF OpenIn, Pending
<1>2. /\ UNCHANGED <<rows, world, work, rounds, queued, upsets>> /\ deal' = [deal EXCEPT ![o] = r]
      /\ ~RoleExclusive /\ open \cap LockedRows = {}
  BY DEF DecideRows
<1> HIDE DEF open
<1>3. r \in DealState /\ r.pc = "commit" /\ r.rows = open /\ r.to = "open"
  BY <1>1 DEF Idle, DealState
<1> HIDE DEF r
<1> QED BY <1>1, <1>2, <1>3, OwnerGoesOn

\* A withdrawal locks pending rows nobody else holds.
LEMMA WithdrawRowsStep ==
  ASSUME IInv, NEW o \in Owner, NEW S \in SUBSET Question, WithdrawRows(o, S) PROVE IInv'
<1> DEFINE r == [Idle EXCEPT !.pc = "commit", !.rows = S, !.to = "withdrawn"]
<1>1. \A q \in S : status[q] \in Pending
  BY DEF WithdrawRows
<1>2. /\ UNCHANGED <<rows, world, work, rounds, queued, upsets>> /\ deal' = [deal EXCEPT ![o] = r]
      /\ ~RoleExclusive /\ S \cap LockedRows = {}
  BY DEF WithdrawRows
<1>3. r \in DealState /\ r.pc = "commit" /\ r.rows = S /\ r.to = "withdrawn"
  BY DEF Idle, DealState
<1> HIDE DEF r
<1> QED BY <1>1, <1>2, <1>3, OwnerGoesOn

\* An owner who counts for a role decision takes the role order alone, with
\* the questions the decision would release.
LEMMA RoleCountStep ==
  ASSUME IInv, NEW o \in Owner, NEW d \in Decision, RoleCount(o, d) PROVE IInv'
<1> DEFINE R == Counted(d)
           r == [Idle EXCEPT !.pc = "role", !.rows = R, !.decision = d]
<1>1. R \subseteq Question
  BY DEF Counted
<1>2. /\ UNCHANGED <<rows, world, work, rounds, queued, upsets>> /\ deal' = [deal EXCEPT ![o] = r]
      /\ ~RoleShared /\ ~RoleExclusive
  BY DEF RoleCount
<1>3. r \in DealState /\ r.pc = "role" /\ r.rows = R /\ r.decision = d
  <2> HIDE DEF R
  <2> QED BY <1>1 DEF Idle, DealState
<1> HIDE DEF r
<1> QED BY <1>2, <1>3, OwnerGoesOn
-----------------------------------------------------------------------------
(* The world's steps.                                                      *)

\* Nobody's transaction moves.
LEMMA NobodyMoves ==
  ASSUME IInv, UNCHANGED <<work, deal>>
  PROVE  /\ RowsApart' /\ RoleAlone'
         /\ work' \in [Worker -> WorkState] /\ deal' \in [Owner -> DealState]
<1>1. RowsApart /\ RoleAlone /\ ActorsOK
  BY TypeParts DEF IInv
<1>2. (\A w \in Worker : Applying(w)' <=> Applying(w)) /\ \A o \in Owner : Sharing(o)' <=> Sharing(o)
  BY DEF Applying, Sharing
<1>3. RowsApart'
  BY <1>1, <1>2 DEF RowsApart
<1>4. RoleAlone'
  BY <1>1, <1>2 DEF RoleAlone
<1> QED BY <1>1, <1>3, <1>4 DEF ActorsOK

\* The status of no question changes.
LEMMA SameStatus ==
  ASSUME IInv, UNCHANGED <<status, batchOf, batch>>, due' \subseteq Question, stale' \subseteq Question
  PROVE  RowsOK' /\ AppliedBatchIsDone'
<1>1. RowsOK /\ AppliedBatchIsDone
  BY TypeParts DEF IInv
<1> QED BY <1>1 DEF RowsOK, AppliedBatchIsDone

\* The passing of a term changes only what is due.
LEMMA PassTermStep == ASSUME IInv, NEW q \in Question, PassTerm(q) PROVE IInv'
<1>1. RowsOK /\ WorldOK /\ QueueOK /\ ActorsOK
  BY TypeParts DEF IInv
<1>2. RowsOK' /\ AppliedBatchIsDone'
  <2>1. due' \subseteq Question /\ stale' \subseteq Question
    BY <1>1 DEF PassTerm, RowsOK
  <2> QED BY <2>1, SameStatus DEF PassTerm
<1>3. WorldOK' /\ QueueOK'
  BY <1>1 DEF PassTerm, WorldOK, QueueOK, world
<1>4. RowsApart' /\ RoleAlone' /\ ActorsOK'
  BY <1>1, NobodyMoves DEF PassTerm, ActorsOK
<1>5. (\A w \in Worker : JobFits(w)') /\ \A o \in Owner : DealFits(o)'
  <2>1. UNCHANGED <<status, stale, decided, override, scope, work, deal>> /\ due \subseteq due'
    BY DEF PassTerm, world
  <2> QED BY <2>1, StillFit
<1> QED BY <1>2, <1>3, <1>4, <1>5, TypePartsPrimed DEF IInv

\* A change of policy or trust, or jobs that join the queue.
LEMMA NoRowMoves ==
  ASSUME IInv, UNCHANGED <<rows, decided, override, scope, work, deal>>,
         walled' \in BOOLEAN, trusted' \in BOOLEAN, QueueOK', upsets' \in 0..MaxUpset
  PROVE  IInv'
<1>1. RowsOK /\ WorldOK /\ QueueOK /\ ActorsOK
  BY TypeParts DEF IInv
<1>2. RowsOK' /\ AppliedBatchIsDone'
  <2>1. due' \subseteq Question /\ stale' \subseteq Question
    BY <1>1 DEF rows, RowsOK
  <2> QED BY <2>1, SameStatus DEF rows
<1>3. WorldOK'
  BY <1>1 DEF WorldOK
<1>4. RowsApart' /\ RoleAlone' /\ ActorsOK'
  BY <1>1, NobodyMoves DEF ActorsOK
<1>5. (\A w \in Worker : JobFits(w)') /\ \A o \in Owner : DealFits(o)'
  BY StillFit DEF rows
<1> QED BY <1>2, <1>3, <1>4, <1>5, TypePartsPrimed DEF IInv

\* The count of upsets stays within its bound.
LEMMA UpsetTyped == ASSUME ActorsOK, Upset PROVE upsets' \in 0..MaxUpset
BY QuestionAssumption DEF ActorsOK, Upset

\* A change of the policy moves no question and no head.
LEMMA SetPolicyStep == ASSUME IInv, SetPolicy PROVE IInv'
<1>1. upsets' \in 0..MaxUpset /\ QueueOK' /\ walled' \in BOOLEAN /\ trusted' \in BOOLEAN
  BY TypeParts, UpsetTyped DEF IInv, SetPolicy, QueueOK, WorldOK
<1>2. UNCHANGED <<rows, decided, override, scope, work, deal>>
  BY DEF SetPolicy
<1> QED BY <1>1, <1>2, NoRowMoves

\* A change of a device's trust moves no question and no head.
LEMMA SetTrustStep == ASSUME IInv, SetTrust PROVE IInv'
<1>1. upsets' \in 0..MaxUpset /\ QueueOK' /\ walled' \in BOOLEAN /\ trusted' \in BOOLEAN
  BY TypeParts, UpsetTyped DEF IInv, SetTrust, QueueOK, WorldOK
<1>2. UNCHANGED <<rows, decided, override, scope, work, deal>>
  BY DEF SetTrust
<1> QED BY <1>1, <1>2, NoRowMoves

\* A batch is released under a key of its own.
LEMMA ReleasedTyped ==
  ASSUME queued \subseteq Job, NEW S, NEW role PROVE Released(Releasable(S, role)) \subseteq Job
<1>1. ByRelease \in 0..ByRelease
  BY QuestionAssumption DEF ByRelease
<1>2. \A b \in Releasable(S, role) : <<b, ByRelease>> \in Job
  BY <1>1 DEF Releasable, Job
<1> QED BY <1>2 DEF Released

\* A release queues jobs and moves no question.
LEMMA ReleaseStep == ASSUME IInv, NEW S, Release(S) PROVE IInv'
<1>1. QueueOK'
  BY TypeParts, ReleasedTyped DEF IInv, Release, QueueOK
<1>2. upsets' \in 0..MaxUpset /\ walled' \in BOOLEAN /\ trusted' \in BOOLEAN
  BY TypeParts DEF IInv, Release, ActorsOK, WorldOK, world
<1>3. UNCHANGED <<rows, decided, override, scope, work, deal>>
  BY DEF Release, world
<1> QED BY <1>1, <1>2, <1>3, NoRowMoves

\* A revision moves a head: the pending questions judged on it become stale,
\* so Sure still holds of what was checked.
LEMMA ReviseStep == ASSUME IInv, NEW i \in Item, NEW s \in Scope, Revise(i, s) PROVE IInv'
<1>1. RowsOK /\ WorldOK /\ QueueOK /\ ActorsOK /\ status \in [Question -> States]
  BY TypeParts DEF IInv, RowsOK
<1>2. RowsOK' /\ AppliedBatchIsDone'
  <2>1. UNCHANGED status /\ due' \subseteq due /\ stale' \subseteq Question
    BY <1>1 DEF Revise, Record
  <2> QED BY <1>1, <2>1, SameStatus DEF Revise, RowsOK
<1>3. WorldOK' /\ QueueOK'
  <2>1. s \subseteq Project
    BY QuestionAssumption
  <2> QED BY <1>1, <2>1 DEF Revise, WorldOK, QueueOK
<1>4. RowsApart' /\ RoleAlone' /\ ActorsOK'
  BY <1>1, NobodyMoves, UpsetTyped DEF Revise, ActorsOK
<1>5. (\A w \in Worker : JobFits(w)') /\ \A o \in Owner : DealFits(o)'
  <2>1. \A j : j \in Item /\ j # i => scope'[j] = scope[j]
    BY <1>1 DEF Revise, WorldOK
  <2>2. \A q \in Question : \A j \in Subjects[q] : scope'[j] = scope[j] \/ j \in {i}
    BY <2>1, QuestionAssumption
  <2>3. Record(status, {i}) /\ UNCHANGED <<decided, override, work, deal>>
    BY DEF Revise
  <2> DEFINE new == status  none == {}
  <2>4. /\ new \in [Question -> States] /\ Record(new, {i})
        /\ \A q \in Question : new[q] = status[q] /\ (new[q] \in Applicable => status[q] \in Applicable)
        /\ \A w \in Worker : work[w].plan \cap none = {}
        /\ \A o \in Owner : deal[o].rows \cap none = {}
    BY <1>1, <2>3
  <2> HIDE DEF new, none
  <2> QED BY <2>2, <2>3, <2>4, OthersFit
<1> QED BY <1>2, <1>3, <1>4, <1>5, TypePartsPrimed DEF IInv

\* Expiry closes pending questions nobody holds.
LEMMA ExpireDueStep == ASSUME IInv, ExpireDue PROVE IInv'
<1>1. RowsOK /\ WorldOK /\ QueueOK /\ ActorsOK /\ AppliedBatchIsDone
  BY TypeParts DEF IInv
<1> DEFINE gone == {q \in due : status[q] \in Pending /\ q \notin LockedRows}
           new == [q \in Question |-> IF q \in gone THEN "expired" ELSE status[q]]
<1>2. /\ Record(new, {}) /\ UNCHANGED <<batchOf, batch, world, rounds, queued, work, deal, upsets>>
  BY DEF ExpireDue
<1>3. new \in [Question -> States] /\ "expired" \notin NoRow \union Pending
  BY <1>1 DEF RowsOK, States, Final, NoRow, Pending, Applicable
<1>4. /\ \A q \in Question : new[q] = status[q] \/ (status[q] \in Pending /\ new[q] = "expired")
      /\ \A q \in Question : q \notin gone => new[q] = status[q]
      /\ gone \cap LockedRows = {}
  OBVIOUS
<1> HIDE DEF gone, new
<1>5. RowsOK'
  BY <1>1, <1>2, <1>3, <1>4, RowsMove DEF RowsOK
<1>6. AppliedBatchIsDone'
  BY <1>1, <1>2, <1>3, <1>4, BatchMove
<1>7. WorldOK' /\ QueueOK'
  BY <1>1, <1>2 DEF WorldOK, QueueOK, world
<1>8. RowsApart' /\ RoleAlone' /\ ActorsOK'
  BY <1>1, <1>2, NobodyMoves DEF ActorsOK
<1>9. (\A w \in Worker : JobFits(w)') /\ \A o \in Owner : DealFits(o)'
  <2>1. /\ \A w \in Worker : Applying(w) => work[w].plan \cap gone = {}
        /\ \A o \in Owner : Sharing(o) => deal[o].rows \cap gone = {}
    <3>1. /\ \A w \in Worker : Applying(w) => work[w].plan \subseteq LockedRows
          /\ \A o \in Owner : Sharing(o) => deal[o].rows \subseteq LockedRows
      BY DEF LockedRows, Sharing
    <3> HIDE DEF LockedRows
    <3> QED BY <1>4, <3>1
  <2>2. \A q \in Question : new[q] \in Applicable => status[q] \in Applicable
    BY <1>3, <1>4 DEF Pending
  <2>3. UNCHANGED <<decided, override, scope>>
    BY <1>2 DEF world
  <2> QED BY <1>2, <1>3, <1>4, <2>1, <2>2, <2>3, OthersFit
<1> QED BY <1>5, <1>6, <1>7, <1>8, <1>9, TypePartsPrimed DEF IInv

-----------------------------------------------------------------------------
(* A proposal.                                                             *)

\* A proposal is stored open, applied at once, superseded or dropped.
LEMMA ProposedTyped ==
  ASSUME NEW q, NEW old \in BOOLEAN
  PROVE  Proposed(q, old) \in {"dropped", "direct", "superseded", "open"}
BY DEF Proposed

\* The batch that q goes to is open, and no batch becomes done.
LEMMA AssignStep ==
  ASSUME RowsOK, NEW q \in Question, NEW b \in Batch, NEW new, Assign(q, b, new)
  PROVE  /\ batch' \in [Batch -> {"none", "open", "ready", "decided", "applied"}] /\ batch'[b] = "open"
         /\ \A c \in Batch : batch'[c] = batch[c] \/ batch'[c] # "applied"
         /\ batchOf' = [batchOf EXCEPT ![q] = b]
<1> DEFINE accepting == {c \in Batch : batch[c] = "open"}
           full == new = "open" /\ \E c \in accepting : Cardinality(OpenIn(c)) >= BatchMax
<1>1. batchOf' = [batchOf EXCEPT ![q] = b]
  BY DEF Assign
<1>2. CASE accepting = {} \/ full
  <2>1. batch' = [c \in Batch |-> IF c = b THEN "open" ELSE IF c \in accepting THEN "ready" ELSE batch[c]]
    BY <1>2 DEF Assign
  <2> QED BY <1>1, <2>1 DEF RowsOK
<1>3. CASE ~(accepting = {} \/ full)
  <2>1. b \in accepting /\ UNCHANGED batch
    BY <1>3 DEF Assign
  <2> QED BY <1>1, <2>1 DEF RowsOK
<1> QED BY <1>2, <1>3

\* A proposal adds a question that was not asked before.
LEMMA ProposeStep ==
  ASSUME IInv, NEW q \in Question, NEW old \in BOOLEAN, Propose(q, old) PROVE IInv'
<1>1. RowsOK /\ WorldOK /\ QueueOK /\ ActorsOK /\ AppliedBatchIsDone
  BY TypeParts DEF IInv
<1> DEFINE to == Proposed(q, old)
           new == [status EXCEPT ![q] = to]
           S == IF to = "direct" THEN Closes[q] ELSE {}
<1>2. /\ status[q] = "unasked" /\ ~RoleExclusive /\ Record(new, S)
      /\ UNCHANGED <<world, rounds, queued, work, deal, upsets>>
      /\ \/ to \in {"open", "superseded"} /\ \E b \in Batch : Assign(q, b, to)
         \/ to \notin {"open", "superseded"} /\ UNCHANGED <<batchOf, batch>>
  BY DEF Propose
<1>3. to \in {"dropped", "direct", "superseded", "open"}
  BY ProposedTyped
<1> HIDE DEF to, S
<1>4. /\ new \in [Question -> States] /\ new[q] = to
      /\ \A r \in Question : r # q => new[r] = status[r]
  BY <1>1, <1>3 DEF RowsOK, States, Final, Pending
<1> HIDE DEF new
<1>5. status' = new /\ due' \subseteq Question /\ stale' \subseteq Question
  BY <1>1, <1>2, <1>4, RecordKeeps DEF RowsOK
<1>6. Null \notin Batch
  BY QuestionAssumption
<1>7. RowsOK' /\ AppliedBatchIsDone'
  <2>1. CASE to \in {"open", "superseded"}
    <3>1. PICK b \in Batch : Assign(q, b, to)
      BY <1>2, <2>1
    <3>2. /\ batch' \in [Batch -> {"none", "open", "ready", "decided", "applied"}] /\ batch'[b] = "open"
          /\ \A c \in Batch : batch'[c] = batch[c] \/ batch'[c] # "applied"
          /\ batchOf' = [batchOf EXCEPT ![q] = b]
      BY <1>1, <3>1, AssignStep
    <3>3. /\ batchOf' \in [Question -> Batch \union {Null}] /\ batchOf'[q] = b
          /\ \A r \in Question : r # q => batchOf'[r] = batchOf[r]
      BY <1>1, <3>2 DEF RowsOK
    <3>4. \A r \in Question : batchOf'[r] = Null <=> new[r] \in NoRow
      BY <1>1, <1>4, <1>6, <2>1, <3>3 DEF RowsOK, NoRow
    <3>5. RowsOK'
      BY <1>4, <1>5, <3>2, <3>3, <3>4 DEF RowsOK
    <3>6. ASSUME NEW r \in Question, status'[r] \in Pending PROVE batch'[batchOf'[r]] # "applied"
      <4>1. CASE r = q
        BY <3>2, <3>3, <4>1
      <4>2. CASE r # q
        <5>1. status[r] \in Pending /\ batchOf'[r] = batchOf[r]
          BY <1>4, <1>5, <3>3, <3>6, <4>2
        <5>2. batchOf[r] \in Batch
          BY <1>1, <5>1 DEF RowsOK, Pending, Applicable, NoRow
        <5> QED BY <1>1, <3>2, <5>1, <5>2 DEF AppliedBatchIsDone
      <4> QED BY <4>1, <4>2
    <3> QED BY <3>5, <3>6 DEF AppliedBatchIsDone
  <2>2. CASE to \in {"dropped", "direct"}
    <3>1. UNCHANGED <<batchOf, batch>>
      BY <1>2, <2>2
    <3>2. \A r \in Question : batchOf'[r] = Null <=> new[r] \in NoRow
      BY <1>1, <1>2, <1>4, <2>2, <3>1 DEF RowsOK, NoRow
    <3>3. RowsOK'
      BY <1>1, <1>4, <1>5, <3>1, <3>2 DEF RowsOK
    <3>4. \A r \in Question : status'[r] \in Pending => status[r] \in Pending
      BY <1>4, <1>5, <2>2 DEF Pending, Applicable
    <3> QED BY <1>1, <3>1, <3>3, <3>4 DEF AppliedBatchIsDone
  <2> QED BY <1>3, <2>1, <2>2
<1>8. WorldOK' /\ QueueOK'
  BY <1>1, <1>2 DEF WorldOK, QueueOK, world
<1>9. RowsApart' /\ RoleAlone' /\ ActorsOK'
  BY <1>1, <1>2, NobodyMoves DEF ActorsOK
<1>10. (\A w \in Worker : JobFits(w)') /\ \A o \in Owner : DealFits(o)'
  <2>1. UNCHANGED <<decided, override, scope, work, deal>> /\ \A o \in Owner : deal[o].pc # "role"
    BY <1>2 DEF world, RoleExclusive
  <2>2. \A r \in Question : status[r] \in Pending /\ r \notin {} => new[r] = status[r]
    BY <1>2, <1>4 DEF Pending, Applicable
  <2>3. /\ \A w \in Worker : work[w].plan \cap {} = {}
        /\ \A o \in Owner : deal[o].rows \cap {} = {}
    OBVIOUS
  <2> QED BY <1>2, <1>4, <2>1, <2>2, <2>3, OthersFit
<1> QED BY <1>7, <1>8, <1>9, <1>10, TypePartsPrimed DEF IInv
-----------------------------------------------------------------------------
(* The owners' commits.                                                    *)

\* An owner's transaction commits the rows that it locked, or rolls back.
LEMMA OwnerEnds ==
  ASSUME IInv, NEW o \in Owner, Sharing(o), deal' = [deal EXCEPT ![o] = Idle],
         NEW new \in [Question -> States], NEW S, Record(new, S),
         \A q \in Question : new[q] = status[q] \/ (q \in deal[o].rows /\ new[q] \notin NoRow),
         \A q \in Question : \A i \in Subjects[q] : scope'[i] = scope[i] \/ i \in S,
         scope' \in [Item -> SUBSET Project],
         batch' \in [Batch -> {"none", "open", "ready", "decided", "applied"}],
         \A b \in Batch : batch'[b] = batch[b] \/ batch'[b] # "applied",
         UNCHANGED <<batchOf, decided, override, walled, trusted, work, upsets>>, QueueOK'
  PROVE  IInv'
<1>1. RowsOK /\ WorldOK /\ QueueOK /\ ActorsOK /\ AppliedBatchIsDone /\ RowsApart /\ RoleAlone
  BY TypeParts DEF IInv
<1>2. \A q \in deal[o].rows : status[q] \in Pending
  BY DEF IInv, DealFits
<1>3. RowsOK' /\ AppliedBatchIsDone'
  BY <1>1, <1>2, RowsMove, BatchMove
<1>4. WorldOK'
  BY <1>1 DEF WorldOK
<1>5. ActorsOK' /\ RowsApart' /\ RoleAlone'
  <2>1. ActorsOK'
    BY <1>1, IdleTyped DEF ActorsOK
  <2> QED BY <1>1, <2>1, IdleTyped, DealApart DEF ActorsOK
<1>6. \A p \in Owner : p # o => deal'[p] = deal[p] /\ deal[p].pc # "role"
  BY <1>1 DEF RoleAlone, Sharing, ActorsOK
<1>7. /\ \A w \in Worker : JobFits(w)'
      /\ \A p \in Owner : p # o => DealFits(p)'
  <2>1. /\ \A w \in Worker : Applying(w) => work[w].plan \cap deal[o].rows = {}
        /\ \A p \in Owner : p # o /\ Sharing(p) => deal[p].rows \cap deal[o].rows = {}
    BY <1>1 DEF RowsApart
  <2> DEFINE Ours == deal[o].rows
  <2>2. \A q \in Question : status[q] \in Pending /\ q \notin Ours => new[q] = status[q]
    OBVIOUS
  <2> HIDE DEF Ours
  <2>3. /\ \A w \in Worker : work'[w] = work[w] /\ (Applying(w) => work[w].plan \cap Ours = {}) => JobFits(w)'
        /\ \A p \in Owner : /\ deal'[p] = deal[p] /\ (Sharing(p) => deal[p].rows \cap Ours = {})
                            /\ deal[p].pc = "role" =>
                                 \A q \in Question : new[q] \in Applicable => status[q] \in Applicable
                            => DealFits(p)'
    BY <2>2, OthersFit
  <2> QED BY <1>6, <2>1, <2>3 DEF Ours
<1>8. DealFits(o)'
  <2>1. deal'[o].pc = "idle"
    BY <1>1, IdleTyped DEF ActorsOK
  <2> QED BY <2>1 DEF DealFits, Sharing
<1>9. (\A w \in Worker : JobFits(w)') /\ \A p \in Owner : DealFits(p)'
  BY <1>7, <1>8
<1> QED BY <1>3, <1>4, <1>5, <1>9, TypePartsPrimed DEF IInv

\* What an answer comes to when it commits.
LEMMA OutcomeTyped ==
  ASSUME NEW o \in Owner, deal[o] \in DealState, NEW q
  PROVE  /\ Outcome(q, deal[o].to) \in States \ NoRow
         /\ Outcome(q, deal[o].to) = "applied" => deal[o].to = "applied" /\ ~Blocked(q) /\ q \notin stale
<1>1. deal[o].to \in {"open", "rejected", "answered", "applied", "accepted_pending", "withdrawn"}
  BY DEF DealState
<1> QED BY <1>1 DEF Outcome, Accepted, States, Pending, Applicable, Final, NoRow

\* Committing an answer moves its own question; a widening that changes
\* projects leaves the questions judged on the item stale.
LEMMA AnswerCommitStep ==
  ASSUME IInv, NEW o \in Owner, NEW q \in Question, AnswerCommit(o, q) PROVE IInv'
<1>1. RowsOK /\ WorldOK /\ QueueOK /\ deal[o] \in DealState /\ Sharing(o)
  BY TypeParts DEF IInv, ActorsOK, AnswerCommit, Sharing
<1>2. /\ deal' = [deal EXCEPT ![o] = Idle] /\ deal[o].rows = {q}
      /\ UNCHANGED <<batchOf, batch, decided, override, walled, trusted, rounds, queued, work, upsets>>
  BY DEF AnswerCommit
<1>3. QueueOK'
  BY <1>1, <1>2 DEF QueueOK
<1>4. batch' \in [Batch -> {"none", "open", "ready", "decided", "applied"}]
  BY <1>1, <1>2 DEF RowsOK
<1>5. CASE InTime(o)
  <2> DEFINE to == Outcome(q, deal[o].to)
             new == [status EXCEPT ![q] = to]
             S == IF to # "applied" THEN {} ELSE IF q \in Widening THEN Subjects[q] ELSE Closes[q]
  <2>1. Record(new, S) /\ scope' = Widened(q, to)
    BY <1>5 DEF AnswerCommit
  <2>2. to \in States \ NoRow
    BY <1>1, OutcomeTyped
  <2>3. /\ \A i \in Item : scope'[i] = scope[i] \/ i \in S
        /\ scope' \in [Item -> SUBSET Project]
    <3>1. Recorded[q] \subseteq Project
      BY QuestionAssumption
    <3>2. CASE to = "applied" /\ q \in Widening
      <4>1. scope' = [i \in Item |-> IF i \in Subjects[q] THEN scope[i] \union Recorded[q] ELSE scope[i]]
        BY <2>1, <3>2 DEF Widened
      <4>2. S = Subjects[q]
        BY <3>2
      <4> HIDE DEF S, to
      <4> QED BY <1>1, <3>1, <4>1, <4>2 DEF WorldOK
    <3>3. CASE ~(to = "applied" /\ q \in Widening)
      <4>1. scope' = scope
        BY <2>1, <3>3 DEF Widened
      <4> QED BY <1>1, <4>1 DEF WorldOK
    <3> QED BY <3>2, <3>3
  <2> HIDE DEF to, S
  <2>4. /\ new \in [Question -> States]
        /\ \A r \in Question : new[r] = status[r] \/ (r \in deal[o].rows /\ new[r] \notin NoRow)
    BY <1>1, <1>2, <2>2 DEF RowsOK
  <2> HIDE DEF new
  <2>5. \A r \in Question : \A i \in Subjects[r] : scope'[i] = scope[i] \/ i \in S
    BY <2>3, QuestionAssumption
  <2> QED BY <1>1, <1>2, <1>3, <1>4, <2>1, <2>3, <2>4, <2>5, OwnerEnds
<1>6. CASE ~InTime(o)
  <2>1. UNCHANGED <<status, due, stale, scope>>
    BY <1>6 DEF AnswerCommit
  <2>2. UNCHANGED <<rows, world, work, rounds, queued, upsets>>
    BY <1>2, <2>1 DEF rows, world
  <2> QED BY <1>2, <2>2, IdleTyped, OwnerGoesOn
<1> QED BY <1>5, <1>6

\* Committing a batch's decision moves exactly the rows it locked.
LEMMA DecideCommitStep ==
  ASSUME IInv, NEW o \in Owner, NEW S \in SUBSET Question, DecideCommit(o, S) PROVE IInv'
<1>1. RowsOK /\ WorldOK /\ QueueOK /\ deal[o] \in DealState /\ Sharing(o)
  BY TypeParts DEF IInv, ActorsOK, DecideCommit, Sharing
<1> DEFINE b == deal[o].batch
           new == [q \in Question |-> IF q \in S THEN "approved"
                                      ELSE IF q \in deal[o].rows THEN "rejected" ELSE status[q]]
<1>2. /\ deal' = [deal EXCEPT ![o] = Idle] /\ Record(new, {}) /\ S \subseteq deal[o].rows
      /\ batch' = [batch EXCEPT ![b] = "decided"] /\ b # Null /\ rounds[b] <= MaxRound
      /\ queued' = IF S = {} \/ <<b, rounds[b]>> \in Unfinished THEN queued ELSE queued \union {<<b, rounds[b]>>}
      /\ UNCHANGED <<batchOf, world, rounds, work, upsets>>
  BY DEF DecideCommit
<1>3. b \in Batch
  BY <1>1, <1>2 DEF DealState
<1> HIDE DEF b
<1>4. QueueOK'
  <2>1. rounds[b] \in 0..(MaxRound + 1) /\ MaxRound + 1 = ByRelease
    BY <1>1, <1>3 DEF QueueOK, ByRelease
  <2>2. <<b, rounds[b]>> \in Job
    BY <1>3, <2>1 DEF Job
  <2>3. queued' \subseteq Job
    BY <1>1, <1>2, <2>2 DEF QueueOK
  <2> QED BY <1>1, <1>2, <2>3 DEF QueueOK
<1>5. /\ batch' \in [Batch -> {"none", "open", "ready", "decided", "applied"}]
      /\ \A c \in Batch : batch'[c] = batch[c] \/ batch'[c] # "applied"
  BY <1>1, <1>2, <1>3 DEF RowsOK
<1>6. /\ new \in [Question -> States]
      /\ \A r \in Question : new[r] = status[r] \/ (r \in deal[o].rows /\ new[r] \notin NoRow)
  <2>1. {"approved", "rejected"} \subseteq States \ NoRow
    BY DEF States, Pending, Applicable, Final, NoRow
  <2> QED BY <1>1, <1>2, <2>1 DEF RowsOK
<1> HIDE DEF new
<1>7. scope' = scope /\ scope' \in [Item -> SUBSET Project]
  BY <1>1, <1>2 DEF WorldOK, world
<1>8. UNCHANGED <<decided, override, walled, trusted>>
  BY <1>2 DEF world
<1>9. \A r \in Question : \A i \in Subjects[r] : scope'[i] = scope[i] \/ i \in {}
  BY <1>7
<1> QED BY <1>1, <1>2, <1>4, <1>5, <1>6, <1>7, <1>8, <1>9, OwnerEnds

\* Committing a withdrawal ends exactly the rows it locked.
LEMMA WithdrawCommitStep == ASSUME IInv, NEW o \in Owner, WithdrawCommit(o) PROVE IInv'
<1>1. RowsOK /\ WorldOK /\ QueueOK /\ deal[o] \in DealState /\ Sharing(o)
  BY TypeParts DEF IInv, ActorsOK, WithdrawCommit, Sharing
<1> DEFINE new == [q \in Question |-> IF q \in deal[o].rows THEN "withdrawn" ELSE status[q]]
<1>2. /\ deal' = [deal EXCEPT ![o] = Idle] /\ Record(new, {})
      /\ UNCHANGED <<batchOf, batch, world, rounds, queued, work, upsets>>
  BY DEF WithdrawCommit
<1>3. QueueOK' /\ batch' \in [Batch -> {"none", "open", "ready", "decided", "applied"}]
  BY <1>1, <1>2 DEF QueueOK, RowsOK
<1>4. /\ new \in [Question -> States]
      /\ \A r \in Question : new[r] = status[r] \/ (r \in deal[o].rows /\ new[r] \notin NoRow)
  <2>1. "withdrawn" \in States \ NoRow
    BY DEF States, Pending, Applicable, Final, NoRow
  <2> QED BY <1>1, <2>1 DEF RowsOK
<1> HIDE DEF new
<1>5. scope' = scope /\ scope' \in [Item -> SUBSET Project]
  BY <1>1, <1>2 DEF WorldOK, world
<1>6. UNCHANGED <<decided, override, walled, trusted>>
  BY <1>2 DEF world
<1>7. \A r \in Question : \A i \in Subjects[r] : scope'[i] = scope[i] \/ i \in {}
  BY <1>5
<1> QED BY <1>1, <1>2, <1>3, <1>4, <1>5, <1>6, <1>7, OwnerEnds

\* A role changes while no dealing that took the role's lock is in progress.
LEMMA RoleCommitStep == ASSUME IInv, NEW o \in Owner, RoleCommit(o) PROVE IInv'
<1>1. RowsOK /\ WorldOK /\ QueueOK /\ ActorsOK /\ AppliedBatchIsDone /\ RowsApart /\ RoleAlone
  BY TypeParts DEF IInv
<1> DEFINE d == deal[o].decision
<1>2. deal[o].pc = "role" /\ d \in Decision
  BY DEF IInv, DealFits, RoleCommit
<1>3. /\ decided' = IF d.scope = Deployment THEN d.role ELSE decided
      /\ override' = IF d.scope = Deployment THEN override ELSE [override EXCEPT ![d.scope] = d.role]
      /\ queued' = IF d.role = 0 THEN queued
                   ELSE Released(Releasable(Question, [p \in Project |-> RoleAfter(d, p)]))
      /\ deal' = [deal EXCEPT ![o] = Idle]
      /\ UNCHANGED <<rows, scope, walled, trusted, rounds, work, upsets>>
  BY DEF RoleCommit
<1>4. d.scope \in Project \union {Deployment} /\ d.role \in Role
  BY <1>2, QuestionAssumption
<1> HIDE DEF d
<1>5. WorldOK'
  BY <1>1, <1>3, <1>4 DEF WorldOK
<1>6. QueueOK'
  <2>1. queued' \subseteq Job
    BY <1>1, <1>3, ReleasedTyped DEF QueueOK
  <2> QED BY <1>1, <1>3, <2>1 DEF QueueOK
<1>7. RowsOK' /\ AppliedBatchIsDone'
  <2>1. due' \subseteq Question /\ stale' \subseteq Question /\ UNCHANGED <<status, batchOf, batch>>
    BY <1>1, <1>3 DEF rows, RowsOK
  <2> QED BY <2>1, SameStatus
<1>8. ActorsOK' /\ RowsApart' /\ RoleAlone'
  <2>1. ActorsOK'
    BY <1>1, <1>3, IdleTyped DEF ActorsOK
  <2> QED BY <1>1, <1>3, <2>1, IdleTyped, DealApart DEF ActorsOK
<1>9. \A w \in Worker : JobFits(w)'
  <2>1. \A w \in Worker : ~Applying(w) /\ work'[w] = work[w]
    BY <1>1, <1>2, <1>3 DEF RoleAlone
  <2>2. \A w \in Worker : work[w].pc # "idle" => work[w].job \in Job
    BY DEF IInv, JobFits
  <2> QED BY <2>1, <2>2 DEF JobFits, Applying
<1>10. \A p \in Owner : DealFits(p)'
  <2>1. \A p \in Owner : deal'[p].pc = "idle"
    BY <1>1, <1>2, <1>3, IdleTyped DEF RoleAlone, ActorsOK
  <2> QED BY <2>1 DEF DealFits, Sharing
<1> QED BY <1>5, <1>6, <1>7, <1>8, <1>9, <1>10, TypePartsPrimed DEF IInv

-----------------------------------------------------------------------------
(* The worker's commit.                                                    *)

\* Every set that a job sorts its questions into is one of questions that still
\* stand approved or accepted under its locks.
LEMMA Sorted ==
  ASSUME IInv, NEW w \in Worker, work[w].pc = "commit"
  PROVE  /\ Live(work[w].plan) \subseteq Question
         /\ \A q \in Live(work[w].plan) : status[q] \in Applicable
         /\ Expired(w) \subseteq Live(work[w].plan) /\ Deferred(w) \subseteq Live(work[w].plan)
         /\ work[w].ready \subseteq Live(work[w].plan)
         /\ Applied(w) \subseteq Sound(w) /\ Sound(w) \subseteq Judged(w)
         /\ Judged(w) \subseteq work[w].ready /\ Judged(w) \cap Expired(w) = {}
         /\ Judged(w) \cap Deferred(w) = {}
<1>1. work[w] \in WorkState /\ work[w].ready \union work[w].gone \subseteq Live(work[w].plan)
  BY TypeParts DEF IInv, ActorsOK, JobFits, Applying
<1>2. Live(work[w].plan) \subseteq Question /\ \A q \in Live(work[w].plan) : status[q] \in Applicable
  BY <1>1 DEF Live, WorkState
<1>3. Expired(w) \subseteq Live(work[w].plan) /\ Deferred(w) \subseteq Live(work[w].plan)
  BY <1>1 DEF Expired, Deferred
<1>4. Judged(w) \subseteq work[w].ready /\ Judged(w) \cap Expired(w) = {} /\ Sound(w) \subseteq Judged(w)
  BY DEF Judged, Sound, Fresh
<1>5. Judged(w) \cap Deferred(w) = {}
  BY <1>4 DEF Deferred
<1>6. Applied(w) \subseteq Sound(w)
  <2>1. Sound(w) \in SUBSET Question
    BY <1>1, <1>2, <1>4
  <2>2. Kept(Sound(w)) \subseteq Sound(w)
    BY <2>1, KeptExists
  <2> QED BY <2>2 DEF Applied
<1> QED BY <1>1, <1>2, <1>3, <1>4, <1>5, <1>6

\* What a job does to a row: nothing, or an end or a hand-back of a live one; it
\* applies exactly those in Applied(w).
LEMMA AfterRow ==
  ASSUME IInv, NEW w \in Worker, work[w].pc = "commit", NEW q \in Question
  PROVE  /\ \/ After(w)[q] = status[q]
            \/ /\ q \in Live(work[w].plan)
               /\ After(w)[q] \in {"expired", "open", "applied", "superseded", "authority_lost"}
         /\ After(w)[q] = "applied" => q \in Applied(w) \/ status[q] = "applied"
<1>1. /\ Expired(w) \subseteq Live(work[w].plan) /\ Deferred(w) \subseteq Live(work[w].plan)
      /\ work[w].ready \subseteq Live(work[w].plan) /\ Applied(w) \subseteq Judged(w)
      /\ Judged(w) \subseteq work[w].ready
  BY Sorted
<1> DEFINE e == After(w)[q]
<1>2. \/ q \in Expired(w) /\ e = "expired"
      \/ q \in Deferred(w) /\ (e = "open" \/ e = status[q])
      \/ q \in Applied(w) /\ e = "applied"
      \/ q \in Judged(w) /\ e \in {"authority_lost", "superseded"}
      \/ q \in work[w].ready /\ e = "authority_lost"
      \/ e = status[q]
  BY DEF After
<1> HIDE DEF e
<1>3. (e = status[q] \/ (q \in Live(work[w].plan) /\ e \in {"expired", "open", "applied", "superseded", "authority_lost"}))
      /\ (e = "applied" => q \in Applied(w) \/ status[q] = "applied")
  BY <1>1, <1>2
<1> QED BY <1>3 DEF e

\* Committing a job moves only rows its transaction locked, and the batch is
\* marked applied only when nothing in it waits.
LEMMA ApplyCommitStep == ASSUME IInv, NEW w \in Worker, ApplyCommit(w) PROVE IInv'
<1>1. /\ RowsOK /\ WorldOK /\ QueueOK /\ ActorsOK /\ AppliedBatchIsDone /\ RowsApart /\ RoleAlone
      /\ work[w].pc = "commit" /\ Applying(w)
  BY TypeParts DEF IInv, ApplyCommit, Applying
<1> DEFINE b == work[w].job[1]
           new == After(w)
           S == UNION {Closes[q] : q \in Applied(w)}
           L == Live(work[w].plan)
<1>2. /\ Record(new, S) /\ batch' = [batch EXCEPT ![b] = BatchAfter(b, new)] /\ rounds' = Round(b)
      /\ Become(w, Resting) /\ UNCHANGED <<batchOf, world, queued, deal, upsets>>
  BY DEF ApplyCommit
<1>3. b \in Batch
  BY <1>1 DEF IInv, JobFits, Job
<1>4. /\ \A q \in L : status[q] \in Applicable /\ q \in work[w].plan
      /\ \A q \in Question : \/ new[q] = status[q]
                             \/ /\ q \in L
                                /\ new[q] \in {"expired", "open", "applied", "superseded", "authority_lost"}
  BY <1>1, Sorted, AfterRow DEF Live
<1>5. new \in [Question -> States]
  <2>1. {"expired", "open", "applied", "superseded", "authority_lost"} \subseteq States
    BY DEF States, Pending, Final
  <2>2. \A q \in Question : new[q] \in States
    BY <1>1, <1>4, <2>1 DEF RowsOK
  <2>3. new = [q \in Question |-> new[q]]
    BY DEF After
  <2> HIDE DEF new
  <2> QED BY <2>2, <2>3
<1> HIDE DEF b, new, S, L
<1>6. status' = new
  BY <1>1, <1>2, <1>5, RecordKeeps
<1>7. batch' \in [Batch -> {"none", "open", "ready", "decided", "applied"}]
  <2>1. BatchAfter(b, new) \in {"none", "open", "ready", "decided", "applied"}
    BY <1>1, <1>3 DEF BatchAfter, RowsOK
  <2> QED BY <1>1, <1>2, <1>3, <2>1 DEF RowsOK
<1>8. RowsOK'
  <2>1. \A q \in Question : new[q] = status[q] \/ (status[q] \in Pending /\ new[q] \notin NoRow)
    BY <1>4 DEF Pending, NoRow
  <2> QED BY <1>1, <1>2, <1>5, <1>7, <2>1, RowsMove
<1>9. AppliedBatchIsDone'
  <2> SUFFICES ASSUME NEW q \in Question, status'[q] \in Pending PROVE batch'[batchOf'[q]] # "applied"
    BY DEF AppliedBatchIsDone
  <2>1. new[q] \in Pending /\ status[q] \in Pending
    BY <1>4, <1>6 DEF Pending
  <2>2. batchOf[q] \in Batch /\ batch[batchOf[q]] # "applied" /\ batchOf'[q] = batchOf[q]
    BY <1>1, <1>2, <2>1 DEF RowsOK, AppliedBatchIsDone, Pending, Applicable, NoRow
  <2>3. CASE batchOf[q] # b
    BY <1>1, <1>2, <2>2, <2>3 DEF RowsOK
  <2>4. CASE batchOf[q] = b
    <3>1. BatchAfter(b, new) # "applied"
      <4> DEFINE left == {new[r] : r \in {r \in Question : batchOf[r] = b}}
      <4>1. new[q] \in left
        BY <2>4
      <4>2. "open" \in left \/ left \cap Applicable # {}
        BY <2>1, <4>1 DEF Pending
      <4> HIDE DEF left
      <4>3. BatchAfter(b, new) = IF "open" \in left THEN IF batch[b] = "decided" THEN "ready" ELSE batch[b]
                                 ELSE IF left \cap Applicable # {} THEN batch[b] ELSE "applied"
        BY DEF BatchAfter, left
      <4> QED BY <2>2, <2>4, <4>2, <4>3
    <3> QED BY <1>1, <1>2, <1>3, <2>2, <2>4, <3>1 DEF RowsOK
  <2> QED BY <2>3, <2>4
<1>10. WorldOK' /\ QueueOK'
  BY <1>1, <1>2, <1>3, RoundTyped DEF WorldOK, QueueOK, world
<1>11. ActorsOK' /\ RowsApart' /\ RoleAlone'
  <2>1. ActorsOK'
    BY <1>1, <1>2, RestingTyped DEF ActorsOK, Become
  <2> QED BY <1>1, <1>2, <2>1, RestingTyped, WorkApart DEF ActorsOK
<1>12. /\ \A v \in Worker : v # w => JobFits(v)'
       /\ \A o \in Owner : DealFits(o)'
  <2>1. /\ \A v \in Worker : v # w /\ Applying(v) => work[v].plan \cap L = {}
        /\ \A o \in Owner : Sharing(o) => deal[o].rows \cap L = {}
    BY <1>1, <1>4 DEF RowsApart
  <2>2. \A v \in Worker : v # w => work'[v] = work[v]
    BY <1>1, <1>2 DEF Become, ActorsOK
  <2>3. \A o \in Owner : deal'[o] = deal[o] /\ deal[o].pc # "role"
    BY <1>1, <1>2 DEF RoleAlone
  <2>4. \A q \in Question : status[q] \in Pending /\ q \notin L => new[q] = status[q]
    BY <1>4
  <2>5. UNCHANGED <<decided, override, scope>>
    BY <1>2 DEF world
  <2> QED BY <1>2, <1>5, <2>1, <2>2, <2>3, <2>4, <2>5, OthersFit
<1>13. JobFits(w)'
  <2>1. work'[w].pc = "idle"
    BY <1>1, <1>2, RestingTyped DEF Become, ActorsOK
  <2> QED BY <2>1 DEF JobFits, Applying
<1>14. \A v \in Worker : JobFits(v)'
  BY <1>12, <1>13
<1> QED BY <1>8, <1>9, <1>10, <1>11, <1>12, <1>14, TypePartsPrimed DEF IInv
-----------------------------------------------------------------------------
(* The invariant.                                                          *)

\* The invariant holds before anything is proposed.
LEMMA InitIInv == Init => IInv
<1> SUFFICES ASSUME Init PROVE IInv
  OBVIOUS
<1>1. RowsOK
  BY DEF Init, RowsOK, States, NoRow
<1>2. WorldOK
  <2>1. scope \in [Item -> SUBSET Project]
    BY QuestionAssumption DEF Init
  <2>2. 0 \in Role /\ 2 \in Role
    BY DEF Role
  <2>3. decided \in Role /\ override \in [Project -> Role]
    BY <2>2 DEF Init
  <2>4. walled = FALSE /\ trusted = TRUE
    BY DEF Init
  <2> QED BY <2>1, <2>3, <2>4 DEF WorldOK
<1>3. QueueOK
  BY QuestionAssumption DEF Init, QueueOK
<1>4. ActorsOK
  BY QuestionAssumption, RestingTyped, IdleTyped DEF Init, ActorsOK
<1>5. (\A w \in Worker : work[w] = Resting) /\ \A o \in Owner : deal[o] = Idle
  BY DEF Init
<1>6. (\A w \in Worker : ~Applying(w) /\ work[w].pc = "idle") /\ \A o \in Owner : ~Sharing(o) /\ deal[o].pc = "idle"
  BY <1>5, RestingTyped, IdleTyped DEF Applying, Sharing
<1>7. RowsApart /\ RoleAlone
  BY <1>6 DEF RowsApart, RoleAlone
<1>8. (\A w \in Worker : JobFits(w)) /\ \A o \in Owner : DealFits(o)
  BY <1>6 DEF JobFits, DealFits
<1>9. AppliedBatchIsDone
  BY DEF Init, AppliedBatchIsDone, Pending, Applicable
<1> QED BY <1>1, <1>2, <1>3, <1>4, <1>7, <1>8, <1>9, TypeParts DEF IInv

\* Every action, and a step that changes nothing, keeps the invariant.
LEMMA NextIInv == IInv /\ [Next]_vars => IInv'
<1> SUFFICES ASSUME IInv, [Next]_vars PROVE IInv'
  OBVIOUS
<1>1. CASE UNCHANGED vars
  <2>1. QueueOK' /\ upsets' \in 0..MaxUpset /\ walled' \in BOOLEAN /\ trusted' \in BOOLEAN
    BY <1>1, TypeParts DEF vars, world, IInv, QueueOK, ActorsOK, WorldOK
  <2>2. UNCHANGED <<rows, decided, override, scope, work, deal>>
    BY <1>1 DEF vars, world
  <2> QED BY <2>1, <2>2, NoRowMoves
<1>2. ASSUME NEW w \in Worker, WorkerStep(w) \/ Crash(w) \/ \E j \in Job : Lease(w, j) PROVE IInv'
  <2>1. CASE Plan(w)
    BY <2>1, PlanStep
  <2>2. CASE ApplyRows(w)
    BY <2>2, ApplyRowsStep
  <2>3. CASE ApplyLocks(w)
    BY <2>3, ApplyLocksStep
  <2>4. CASE ApplyCommit(w)
    BY <2>4, ApplyCommitStep
  <2>5. CASE NotApproved(w)
    BY <2>5, NotApprovedStep
  <2>6. CASE Crash(w)
    BY <2>6, CrashStep
  <2>7. CASE \E j \in Job : Lease(w, j)
    BY <2>7, LeaseStep
  <2> QED BY <1>2, <2>1, <2>2, <2>3, <2>4, <2>5, <2>6, <2>7 DEF WorkerStep
<1>3. ASSUME NEW o \in Owner, OwnerBegin(o) \/ OwnerStep(o) PROVE IInv'
  <2>1. CASE \E q \in Question : AnswerRow(o, q)
    BY <2>1, AnswerRowStep
  <2>2. CASE \E b \in Batch : DecideRows(o, b)
    BY <2>2, DecideRowsStep
  <2>3. CASE \E S \in SUBSET Question : WithdrawRows(o, S)
    BY <2>3, WithdrawRowsStep
  <2>4. CASE \E d \in Decision : RoleCount(o, d)
    BY <2>4, RoleCountStep
  <2>5. CASE AnswerLocks(o)
    BY <2>5, AnswerLocksStep
  <2>6. CASE \E q \in Question : AnswerCommit(o, q)
    BY <2>6, AnswerCommitStep
  <2>7. CASE \E S \in SUBSET Question : DecideCommit(o, S)
    BY <2>7, DecideCommitStep
  <2>8. CASE WithdrawCommit(o)
    BY <2>8, WithdrawCommitStep
  <2>9. CASE RoleCommit(o)
    BY <2>9, RoleCommitStep
  <2> QED BY <1>3, <2>1, <2>2, <2>3, <2>4, <2>5, <2>6, <2>7, <2>8, <2>9 DEF OwnerBegin, OwnerStep
<1>4. CASE World
  <2>1. CASE \E q \in Question : PassTerm(q)
    BY <2>1, PassTermStep
  <2>2. CASE \E q \in Question : \E old \in BOOLEAN : Propose(q, old)
    BY <2>2, ProposeStep
  <2>3. CASE \E i \in Item : ReleasePending(i)
    BY <2>3, ReleaseStep DEF ReleasePending
  <2>4. CASE \E i \in Item : \E s \in Scope : Revise(i, s)
    BY <2>4, ReviseStep
  <2>5. CASE ExpireDue
    BY <2>5, ExpireDueStep
  <2>6. CASE Sweep
    BY <2>6, ReleaseStep DEF Sweep
  <2>7. CASE SetPolicy
    BY <2>7, SetPolicyStep
  <2>8. CASE SetTrust
    BY <2>8, SetTrustStep
  <2> QED BY <1>4, <2>1, <2>2, <2>3, <2>4, <2>5, <2>6, <2>7, <2>8 DEF World
<1> QED BY <1>1, <1>2, <1>3, <1>4 DEF Next

\* The row locks, the role order and the batch row keep what every transaction
\* has read true until it commits (questions.py, roles.py, worker.py).
THEOREM Invariance == SafeSpec => []IInv
<1>1. Init => IInv
  BY InitIInv
<1>2. IInv /\ [Next]_vars => IInv'
  BY NextIInv
<1> QED BY <1>1, <1>2, PTL DEF SafeSpec

\* Types, and whoever has a row has a batch (librarian_questions.batch_id).
THEOREM TypeCorrect == SafeSpec => []TypeOK
<1>1. IInv => TypeOK
  BY DEF IInv
<1> QED BY <1>1, Invariance, PTL

\* A batch that _batch_after_apply calls applied has no question left that waits.
THEOREM DoneBatchesAreDone == SafeSpec => []AppliedBatchIsDone
<1>1. IInv => AppliedBatchIsDone
  BY DEF IInv
<1> QED BY <1>1, Invariance, PTL

-----------------------------------------------------------------------------
(* What a step does to a question.                                         *)

\* The two ways to be applied: by a job that kept the question, and by an answer
\* in time whose checks passed under its locks.
TakenByJob(q) == \E w \in Worker : ApplyCommit(w) /\ q \in Applied(w)

TakenByAnswer(q) ==
  \E o \in Owner : AnswerCommit(o, q) /\ InTime(o) /\ Outcome(q, deal[o].to) = "applied"

Moved(q) ==
  \/ status'[q] = status[q]
  \/ status[q] = "unasked" /\ UNCHANGED deal /\ status'[q] \in {"dropped", "direct", "superseded", "open"}
  \/ status[q] \in Pending /\ status'[q] \in States \ {"unasked", "direct", "dropped", "applied"}
  \/ status[q] \in Pending /\ status'[q] = "applied" /\ (TakenByJob(q) \/ TakenByAnswer(q))

\* A proposal moves only its own question, along the promise.
LEMMA ProposeMoves ==
  ASSUME IInv, NEW r \in Question, NEW old \in BOOLEAN, Propose(r, old), NEW q \in Question PROVE Moved(q)
<1>1. RowsOK
  BY TypeParts DEF IInv
<1>2. status' = [status EXCEPT ![r] = Proposed(r, old)] /\ status[r] = "unasked" /\ UNCHANGED deal
  BY DEF Propose, Record
<1>3. Proposed(r, old) \in {"dropped", "direct", "superseded", "open"}
  BY ProposedTyped
<1> QED BY <1>1, <1>2, <1>3 DEF Moved, RowsOK

\* An answer moves only its own question, along the promise.
LEMMA AnswerMoves ==
  ASSUME IInv, NEW o \in Owner, NEW r \in Question, AnswerCommit(o, r), NEW q \in Question PROVE Moved(q)
<1>1. RowsOK /\ deal[o] \in DealState /\ r \in deal[o].rows /\ status[r] \in Pending
  BY TypeParts DEF IInv, ActorsOK, AnswerCommit, DealFits, Sharing
<1>2. CASE ~InTime(o)
  BY <1>2 DEF AnswerCommit, Moved
<1>3. CASE InTime(o)
  <2> DEFINE to == Outcome(r, deal[o].to)
  <2>1. status' = [status EXCEPT ![r] = to]
    BY <1>3 DEF AnswerCommit, Record
  <2>2. to \in States \ {"unasked", "direct", "dropped"}
    BY <1>1, OutcomeTyped DEF NoRow
  <2>3. to = "applied" => TakenByAnswer(r)
    BY <1>3 DEF TakenByAnswer
  <2> HIDE DEF to
  <2> QED BY <1>1, <2>1, <2>2, <2>3 DEF Moved, RowsOK
<1> QED BY <1>2, <1>3

\* A batch's decision moves only the open questions it locked, along the
\* promise.
LEMMA DecideMoves ==
  ASSUME IInv, NEW o \in Owner, NEW S \in SUBSET Question, DecideCommit(o, S), NEW q \in Question PROVE Moved(q)
<1>1. \A r \in deal[o].rows : status[r] \in Pending
  BY DEF IInv, DealFits, Sharing, DecideCommit
<1>2. status'[q] = IF q \in S THEN "approved" ELSE IF q \in deal[o].rows THEN "rejected" ELSE status[q]
  BY DEF DecideCommit, Record
<1>3. S \subseteq deal[o].rows
  BY DEF DecideCommit
<1>4. {"approved", "rejected"} \subseteq States \ {"unasked", "direct", "dropped", "applied"}
  BY DEF States, Pending, Applicable, Final
<1> QED BY <1>1, <1>2, <1>3, <1>4 DEF Moved

\* A withdrawal moves only the pending questions it locked, along the promise.
LEMMA WithdrawMoves ==
  ASSUME IInv, NEW o \in Owner, WithdrawCommit(o), NEW q \in Question PROVE Moved(q)
<1>1. \A r \in deal[o].rows : status[r] \in Pending
  BY DEF IInv, DealFits, Sharing, WithdrawCommit
<1>2. status'[q] = IF q \in deal[o].rows THEN "withdrawn" ELSE status[q]
  BY DEF WithdrawCommit, Record
<1>3. "withdrawn" \in States \ {"unasked", "direct", "dropped", "applied"}
  BY DEF States, Pending, Applicable, Final
<1> QED BY <1>1, <1>2, <1>3 DEF Moved

\* Expiry moves pending questions only, along the promise.
LEMMA ExpireMoves == ASSUME IInv, ExpireDue, NEW q \in Question PROVE Moved(q)
<1>1. \/ status'[q] = status[q]
      \/ status[q] \in Pending /\ status'[q] = "expired"
  BY DEF ExpireDue, Record
<1>2. "expired" \in States \ {"unasked", "direct", "dropped", "applied"}
  BY DEF States, Pending, Applicable, Final
<1> QED BY <1>1, <1>2 DEF Moved

\* A job moves only the questions it locked, along the promise.
LEMMA ApplyMoves ==
  ASSUME IInv, NEW w \in Worker, ApplyCommit(w), NEW q \in Question PROVE Moved(q)
<1>1. work[w].pc = "commit" /\ status' = After(w)
  BY DEF ApplyCommit, Record
<1>2. /\ \/ After(w)[q] = status[q]
         \/ /\ q \in Live(work[w].plan)
            /\ After(w)[q] \in {"expired", "open", "applied", "superseded", "authority_lost"}
      /\ After(w)[q] = "applied" => q \in Applied(w) \/ status[q] = "applied"
  BY <1>1, AfterRow
<1>3. q \in Live(work[w].plan) => status[q] \in Pending
  BY DEF Live, Pending
<1>4. {"expired", "open", "superseded", "authority_lost"} \subseteq States \ {"unasked", "direct", "dropped", "applied"}
  BY DEF States, Pending, Applicable, Final
<1>5. q \in Applied(w) => TakenByJob(q)
  BY DEF TakenByJob
<1> QED BY <1>1, <1>2, <1>3, <1>4, <1>5 DEF Moved

\* Every step moves a question in one of these ways.
LEMMA EveryMove == ASSUME IInv, [Next]_vars, NEW q \in Question PROVE Moved(q)
<1>1. CASE UNCHANGED status
  BY <1>1 DEF Moved
<1>2. ASSUME NEW w \in Worker, WorkerStep(w) \/ Crash(w) \/ \E j \in Job : Lease(w, j)
      PROVE  ApplyCommit(w) \/ UNCHANGED status
  BY <1>2 DEF WorkerStep, Crash, Lease, Plan, ApplyRows, ApplyLocks, NotApproved, rows
<1>3. ASSUME NEW o \in Owner, OwnerBegin(o) \/ OwnerStep(o)
      PROVE  \/ \E r \in Question : AnswerCommit(o, r)
             \/ \E S \in SUBSET Question : DecideCommit(o, S)
             \/ WithdrawCommit(o) \/ UNCHANGED status
  BY <1>3 DEF OwnerBegin, OwnerStep, AnswerRow, DecideRows, WithdrawRows, RoleCount, AnswerLocks, RoleCommit, rows
<1>4. ASSUME World
      PROVE  (\E r \in Question : \E old \in BOOLEAN : Propose(r, old)) \/ ExpireDue \/ UNCHANGED status
  BY <1>4 DEF World, PassTerm, ReleasePending, Sweep, Release, Revise, Record, SetPolicy, SetTrust, rows
<1>5. UNCHANGED vars => UNCHANGED status
  BY DEF vars, rows
<1> QED
  BY <1>1, <1>2, <1>3, <1>4, <1>5, ProposeMoves, AnswerMoves, DecideMoves, WithdrawMoves, ExpireMoves,
     ApplyMoves DEF Next

\* Whatever is applied is applied in one of the two ways.
LEMMA TakenHow ==
  ASSUME IInv, [Next]_vars, NEW q \in Question, Takes(q) PROVE TakenByJob(q) \/ TakenByAnswer(q)
<1>1. Moved(q)
  BY EveryMove
<1> QED BY <1>1 DEF Moved, Takes
-----------------------------------------------------------------------------
(* The rules under which a proposal is applied.                            *)

\* D-095: nothing is applied past its term.  _apply_approved and _resolve_owner
\* look at expires_at again once the last lock is theirs.
THEOREM NothingLateIsApplied == SafeSpec => AppliedInTime
<1> DEFINE Act == \A q \in Question : Takes(q) => q \notin due
<1>1. IInv /\ [Next]_vars => Act
  <2> SUFFICES ASSUME IInv, [Next]_vars, NEW q \in Question, Takes(q) PROVE q \notin due
    OBVIOUS
  <2>1. ASSUME NEW w \in Worker, ApplyCommit(w), q \in Applied(w) PROVE q \notin due
    <3>1. q \in Judged(w) /\ q \in work[w].ready /\ q \notin Expired(w)
      BY <2>1, Sorted DEF ApplyCommit
    <3> QED BY <3>1 DEF Expired
  <2>2. ASSUME NEW o \in Owner, AnswerCommit(o, q), InTime(o) PROVE q \notin due
    BY <2>2 DEF AnswerCommit, InTime
  <2> QED BY <2>1, <2>2, TakenHow DEF TakenByJob, TakenByAnswer
<1>2. AppliedInTime <=> [][Act]_vars
  BY DEF AppliedInTime
<1> HIDE DEF Act
<1> QED BY <1>1, <1>2, Invariance, PTL DEF SafeSpec

\* G-Q3: what is applied was judged on the heads that still stand (is_stale).
THEOREM AppliedOnStandingHeads == SafeSpec => AppliedOnHeads
<1> DEFINE Act == \A q \in Question : Takes(q) => q \notin stale
<1>1. IInv /\ [Next]_vars => Act
  <2> SUFFICES ASSUME IInv, [Next]_vars, NEW q \in Question, Takes(q) PROVE q \notin stale
    OBVIOUS
  <2>1. ASSUME NEW w \in Worker, ApplyCommit(w), q \in Applied(w) PROVE q \notin stale
    <3>1. q \in Sound(w)
      BY <2>1, Sorted DEF ApplyCommit
    <3> QED BY <3>1 DEF Sound, Fresh
  <2>2. ASSUME NEW o \in Owner, AnswerCommit(o, q), Outcome(q, deal[o].to) = "applied" PROVE q \notin stale
    BY <2>2, OutcomeTyped, TypeParts DEF IInv, ActorsOK
  <2> QED BY <2>1, <2>2, TakenHow DEF TakenByJob, TakenByAnswer
<1>2. AppliedOnHeads <=> [][Act]_vars
  BY DEF AppliedOnHeads
<1> HIDE DEF Act
<1> QED BY <1>1, <1>2, Invariance, PTL DEF SafeSpec

\* D-074: every project that an applied question touches has a librarian above
\* observer at that moment, although effective_role was read before the item
\* locks: a revision in between moves a head, and a role decision waits.
THEOREM AppliedWithTheRole == SafeSpec => AppliedUnderRole
<1> DEFINE Act == \A q \in Question : Takes(q) => AboveObserver(q) /\ ~Blocked(q)
<1>1. IInv /\ [Next]_vars => Act
  <2> SUFFICES ASSUME IInv, [Next]_vars, NEW q \in Question, Takes(q)
               PROVE  AboveObserver(q) /\ ~Blocked(q)
    OBVIOUS
  <2>1. ASSUME NEW w \in Worker, ApplyCommit(w), q \in Applied(w) PROVE AboveObserver(q) /\ ~Blocked(q)
    <3>1. q \in Sound(w) /\ q \in Judged(w) /\ q \in work[w].ready
      BY <2>1, Sorted DEF ApplyCommit
    <3>2. q \notin stale /\ ~Blocked(q)
      BY <3>1 DEF Sound, Fresh, Judged
    <3>3. Sure(q)
      BY <2>1, <3>1 DEF IInv, JobFits, Applying, ApplyCommit
    <3> QED BY <3>2, <3>3 DEF Sure
  <2>2. ASSUME NEW o \in Owner, AnswerCommit(o, q), Outcome(q, deal[o].to) = "applied"
        PROVE  AboveObserver(q) /\ ~Blocked(q)
    <3>1. deal[o].to = "applied" /\ ~Blocked(q) /\ q \notin stale
      BY <2>2, OutcomeTyped, TypeParts DEF IInv, ActorsOK
    <3>2. Sure(q)
      BY <2>2, <3>1 DEF IInv, DealFits, Sharing, AnswerCommit
    <3> QED BY <3>1, <3>2 DEF Sure
  <2> QED BY <2>1, <2>2, TakenHow DEF TakenByJob, TakenByAnswer
<1>2. AppliedUnderRole <=> [][Act]_vars
  BY DEF AppliedUnderRole
<1> HIDE DEF Act
<1> QED BY <1>1, <1>2, Invariance, PTL DEF SafeSpec

\* Two jobs, or a job and an answer, do not commit in one step.
LEMMA OneAtATime ==
  ASSUME IInv, NEW q, NEW r, q # r,
         TakenByJob(q) \/ TakenByAnswer(q), TakenByJob(r) \/ TakenByAnswer(r)
  PROVE  \E w \in Worker : ApplyCommit(w) /\ q \in Applied(w) /\ r \in Applied(w)
<1>0. ActorsOK
  BY TypeParts DEF IInv
<1>1. ASSUME NEW w \in Worker, ApplyCommit(w)
      PROVE  work[w].pc = "commit" /\ work'[w].pc = "idle" /\ \A v \in Worker : v # w => work'[v] = work[v]
  BY <1>0, <1>1, RestingTyped DEF ApplyCommit, Become, ActorsOK
<1>2. ASSUME NEW o \in Owner, NEW x, AnswerCommit(o, x)
      PROVE  /\ deal[o].pc = "commit" /\ deal[o].rows = {x} /\ deal'[o].pc = "idle" /\ UNCHANGED work
             /\ \A p \in Owner : p # o => deal'[p] = deal[p]
  BY <1>0, <1>2, IdleTyped DEF AnswerCommit, ActorsOK
<1>3. ~(TakenByJob(q) /\ TakenByAnswer(r)) /\ ~(TakenByAnswer(q) /\ TakenByJob(r))
  BY <1>1, <1>2 DEF TakenByJob, TakenByAnswer
<1>4. ~(TakenByAnswer(q) /\ TakenByAnswer(r))
  <2> SUFFICES ASSUME NEW o \in Owner, NEW p \in Owner, AnswerCommit(o, q), AnswerCommit(p, r) PROVE FALSE
    BY DEF TakenByAnswer
  <2>1. o = p
    BY <1>2
  <2>2. {q} = {r}
    BY <1>2, <2>1
  <2> QED BY <2>2
<1>5. TakenByJob(q) /\ TakenByJob(r)
  BY <1>3, <1>4
<1> QED BY <1>1, <1>5 DEF TakenByJob

\* An inverse of a supersession that a job applies is not applied with it
\* (_apply_approved keeps the edges that it has planned).
THEOREM NoJobGoesBothWays == SafeSpec => NeverBothWays
<1> DEFINE Act == \A pair \in Clash : ~(Takes(pair[1]) /\ Takes(pair[2]))
<1>1. IInv /\ [Next]_vars => Act
  <2> SUFFICES ASSUME IInv, [Next]_vars, NEW pair \in Clash, Takes(pair[1]), Takes(pair[2]) PROVE FALSE
    OBVIOUS
  <2>1. PICK q \in Question, r \in Question : pair = <<q, r>>
    BY QuestionAssumption
  <2>2. q # r /\ <<q, r>> \in Clash /\ Takes(q) /\ Takes(r)
    BY <2>1, QuestionAssumption
  <2>3. PICK w \in Worker : ApplyCommit(w) /\ q \in Applied(w) /\ r \in Applied(w)
    BY <2>2, TakenHow, OneAtATime
  <2>4. Sound(w) \subseteq Question
    BY <2>3, Sorted DEF ApplyCommit
  <2>5. q \in Kept(Sound(w)) /\ r \in Kept(Sound(w))
    BY <2>3 DEF Applied
  <2>6. Rank[q] \in Nat /\ Rank[r] \in Nat /\ Rank[q] # Rank[r]
    BY <2>2, QuestionAssumption
  <2>7. ~(Rank[r] < Rank[q]) /\ ~(Rank[q] < Rank[r])
    BY <2>2, <2>4, <2>5, KeptExists
  <2> QED BY <2>6, <2>7
<1>2. NeverBothWays <=> [][Act]_vars
  BY DEF NeverBothWays
<1> HIDE DEF Act
<1> QED BY <1>1, <1>2, Invariance, PTL DEF SafeSpec

\* A role decision is the only step that ends the confirmation of one.
LEMMA RoleEnds ==
  ASSUME IInv, [Next]_vars, NEW o \in Owner, deal[o].pc = "role", deal'[o].pc = "idle"
  PROVE  RoleCommit(o)
<1>1. deal' # deal
  OBVIOUS
<1>2. ASSUME NEW w \in Worker, WorkerStep(w) \/ Crash(w) \/ \E j \in Job : Lease(w, j) PROVE UNCHANGED deal
  BY <1>2 DEF WorkerStep, Crash, Lease, Plan, ApplyRows, ApplyLocks, ApplyCommit, NotApproved
<1>3. ASSUME NEW p \in Owner, OwnerBegin(p) \/ OwnerStep(p) PROVE RoleCommit(o)
  <2>1. \A u \in Owner : u = o \/ deal[u].pc = "idle"
    BY DEF IInv, RoleAlone
  <2>2. \A r : deal' = [deal EXCEPT ![p] = r] => p = o
    BY TypeParts DEF IInv, ActorsOK
  <2>3. \E r : deal' = [deal EXCEPT ![p] = r]
    BY <1>3 DEF OwnerBegin, OwnerStep, AnswerRow, DecideRows, WithdrawRows, RoleCount, AnswerLocks, AnswerCommit,
         DecideCommit, WithdrawCommit, RoleCommit
  <2>4. p = o
    BY <2>2, <2>3
  <2> QED
    BY <1>3, <2>4 DEF OwnerBegin, OwnerStep, AnswerRow, DecideRows, WithdrawRows, RoleCount, AnswerLocks, AnswerCommit,
         DecideCommit, WithdrawCommit
<1>4. World => UNCHANGED deal
  BY DEF World, Propose, PassTerm, ReleasePending, Sweep, Release, Revise, ExpireDue, SetPolicy, SetTrust
<1>5. UNCHANGED vars => UNCHANGED deal
  BY DEF vars
<1> QED BY <1>1, <1>2, <1>3, <1>4, <1>5 DEF Next

\* D-244: whatever a role decision newly lets the librarian apply was in the count
\* that the owner confirmed (promotion_release under the exclusive role order).
THEOREM PromotionsAreConfirmed == SafeSpec => PromotionIsConfirmed
<1> DEFINE Act == \A o \in Owner, q \in Question \ Widening :
                    /\ deal[o].pc = "role" /\ deal'[o].pc = "idle"
                    /\ status[q] \in Applicable /\ q \notin due
                    /\ ~AboveObserver(q) /\ AboveObserver(q)'
                    => q \in deal[o].rows
<1>1. IInv /\ [Next]_vars => Act
  <2> SUFFICES ASSUME IInv, [Next]_vars, NEW o \in Owner, NEW q \in Question \ Widening,
                      deal[o].pc = "role", deal'[o].pc = "idle", status[q] \in Applicable, q \notin due,
                      ~AboveObserver(q), AboveObserver(q)'
               PROVE  q \in deal[o].rows
    OBVIOUS
  <2>1. RoleCommit(o) /\ WorldOK
    BY RoleEnds, TypeParts DEF IInv
  <2> DEFINE d == deal[o].decision
  <2>2. d \in Decision /\ Counted(d) \subseteq deal[o].rows
    BY DEF IInv, DealFits
  <2>3. /\ decided' = IF d.scope = Deployment THEN d.role ELSE decided
        /\ override' = IF d.scope = Deployment THEN override ELSE [override EXCEPT ![d.scope] = d.role]
        /\ scope' = scope
    BY <2>1 DEF RoleCommit
  <2> HIDE DEF d
  <2>4. d.scope \in Project \union {Deployment} /\ d.role \in 0..2
    BY <2>2, QuestionAssumption DEF Role
  <2>5. /\ Deployment \notin Project /\ Configured \in 0..2
        /\ decided \in 0..2 /\ \A p \in Project : override[p] \in 0..2
    BY <2>1, QuestionAssumption DEF WorldOK, Role
  <2>6. Touched(q)' = Touched(q) /\ Recorded[q] \subseteq Touched(q) /\ Touched(q) \subseteq Project
    <3>1. \A i \in Subjects[q] : scope[i] \subseteq Project
      BY <2>1, QuestionAssumption DEF WorldOK
    <3> QED BY <2>3, <3>1, QuestionAssumption DEF Touched
  <2>7. ASSUME NEW p \in Project
        PROVE  override'[p] = IF d.scope = p THEN d.role ELSE override[p]
    BY <2>1, <2>3, <2>4, <2>5 DEF WorldOK
  <2>8. \A p \in Touched(q) : EffectiveRole(p)' > 0
    BY <2>6 DEF AboveObserver
  <2>9. PICK p0 \in Touched(q) : ~(EffectiveRole(p0) > 0)
    BY DEF AboveObserver
  <2>10. ASSUME NEW p \in Project, EffectiveRole(p)' > 0 PROVE RoleAfter(d, p) > 0
    <3>1. EffectiveRole(p)' = Lower(IF Configured = decided' THEN Configured ELSE 0, override'[p])
      BY DEF EffectiveRole, Lower
    <3>2. RoleAfter(d, p) = Lower(decided', override'[p])
      BY <2>3, <2>7 DEF RoleAfter, Lower
    <3>3. decided' \in 0..2 /\ override'[p] \in 0..2
      BY <2>3, <2>4, <2>5, <2>7
    <3> QED BY <2>5, <2>10, <3>1, <3>2, <3>3 DEF Lower
  <2>11. d.role # 0
    <3> SUFFICES ASSUME d.role = 0 PROVE FALSE
      OBVIOUS
    <3>1. p0 \in Project /\ EffectiveRole(p0)' > 0
      BY <2>6, <2>8, <2>9
    <3>2. RoleAfter(d, p0) > 0
      BY <2>10, <3>1
    <3>3. d.scope # Deployment /\ d.scope # p0
      BY <2>4, <2>5, <3>1, <3>2 DEF RoleAfter, Lower
    <3>4. decided' = decided /\ override'[p0] = override[p0]
      BY <2>3, <2>7, <3>1, <3>3
    <3>5. EffectiveRole(p0)' = EffectiveRole(p0)
      BY <3>4 DEF EffectiveRole, Lower
    <3> QED BY <2>9, <3>1, <3>5
  <2>12. q \in Counted(d)
    BY <2>6, <2>8, <2>10, <2>11 DEF Counted
  <2> QED BY <2>2, <2>12
<1>2. PromotionIsConfirmed <=> [][Act]_vars
  BY DEF PromotionIsConfirmed
<1> HIDE DEF Act
<1> QED BY <1>1, <1>2, Invariance, PTL DEF SafeSpec

-----------------------------------------------------------------------------
(* The promise.                                                            *)

Stand(q) ==
  CASE status[q] = "unasked" -> "unasked"
    [] status[q] \in {"applied", "direct"} -> "effective"
    [] status[q] \in Final \ {"applied", "direct"} -> "closed"
    [] OTHER -> IF Consenting(q) THEN "consented" ELSE "asked"

\* How a question stands, by its status.
LEMMA StandOf ==
  ASSUME NEW q, status[q] \in States
  PROVE  /\ status[q] = "unasked" => Stand(q) = "unasked"
         /\ status[q] \in {"applied", "direct"} => Stand(q) = "effective"
         /\ status[q] \in Final \ {"applied", "direct"} => Stand(q) = "closed"
         /\ status[q] \in Pending => Stand(q) = IF Consenting(q) THEN "consented" ELSE "asked"
         /\ Stand(q) \in Promise!Standing
BY DEF Stand, States, Pending, Applicable, Final, Promise!Standing

\* What a state means to the promise, in the next state.
LEMMA StandOfPrimed ==
  ASSUME NEW q, status'[q] \in States
  PROVE  /\ status'[q] = "unasked" => Stand(q)' = "unasked"
         /\ status'[q] \in {"applied", "direct"} => Stand(q)' = "effective"
         /\ status'[q] \in Final \ {"applied", "direct"} => Stand(q)' = "closed"
         /\ status'[q] \in Pending => Stand(q)' = IF Consenting(q)' THEN "consented" ELSE "asked"
         /\ Stand(q)' \in Promise!Standing
BY DEF Stand, States, Pending, Applicable, Final, Promise!Standing

\* Whoever applies a question has the consent of its owner.
LEMMA TakenWithConsent ==
  ASSUME IInv, NEW q, TakenByJob(q) \/ TakenByAnswer(q), status[q] \in Pending PROVE Consenting(q)
<1>1. CASE TakenByJob(q)
  <2>1. PICK w \in Worker : ApplyCommit(w) /\ q \in Applied(w)
    BY <1>1 DEF TakenByJob
  <2>2. status[q] \in Applicable
    BY <2>1, Sorted DEF ApplyCommit
  <2> QED BY <2>2 DEF Consenting
<1>2. CASE TakenByAnswer(q)
  <2>1. PICK o \in Owner : AnswerCommit(o, q) /\ Outcome(q, deal[o].to) = "applied"
    BY <1>2 DEF TakenByAnswer
  <2>2. deal[o].to = "applied"
    BY <2>1, OutcomeTyped, TypeParts DEF IInv, ActorsOK
  <2>3. deal[o].pc = "commit" /\ q \in deal[o].rows
    BY <2>1 DEF AnswerCommit
  <2> QED BY <2>2, <2>3 DEF Consenting, Pending
<1> QED BY <1>1, <1>2

\* No question's standing changes but along the promise's moves.
LEMMA StandMoves ==
  ASSUME IInv, IInv', [Next]_vars, NEW q \in Question
  PROVE  Stand(q)' = Stand(q) \/ <<Stand(q), Stand(q)'>> \in Promise!Moves
<1>1. status[q] \in States /\ status'[q] \in States
  BY TypeParts, TypePartsPrimed DEF IInv, RowsOK
<1>2. Moved(q)
  BY EveryMove
<1>3. CASE status'[q] = status[q]
  <2>1. status[q] \notin Pending => Stand(q)' = Stand(q)
    BY <1>1, <1>3, StandOf, StandOfPrimed DEF States
  <2>2. status[q] \in Pending => Stand(q) \in {"asked", "consented"} /\ Stand(q)' \in {"asked", "consented"}
    BY <1>1, <1>3, StandOf, StandOfPrimed
  <2> QED BY <2>1, <2>2 DEF Promise!Moves
<1>4. CASE status[q] = "unasked" /\ UNCHANGED deal /\ status'[q] \in {"dropped", "direct", "superseded", "open"}
  <2>1. Stand(q) = "unasked"
    BY <1>1, <1>4, StandOf
  <2>2. CASE status'[q] # "open"
    <3>1. status'[q] = "direct" \/ status'[q] \in Final \ {"applied", "direct"}
      BY <1>4, <2>2 DEF Final
    <3>2. Stand(q)' \in {"effective", "closed"}
      BY <1>1, <3>1, StandOfPrimed
    <3> QED BY <2>1, <3>2 DEF Promise!Moves
  <2>3. CASE status'[q] = "open"
    <3>1. \A o \in Owner : Sharing(o) => q \notin deal[o].rows
      <4>1. status[q] \notin Pending
        BY <1>4 DEF Pending, Applicable
      <4> QED BY <4>1 DEF IInv, DealFits
    <3>2. ~Consenting(q)'
      BY <1>4, <2>3, <3>1 DEF Consenting, Applicable, Sharing
    <3>3. Stand(q)' = "asked"
      BY <1>1, <2>3, <3>2, StandOfPrimed DEF Pending
    <3> QED BY <2>1, <3>3 DEF Promise!Moves
  <2> QED BY <2>2, <2>3
<1>5. CASE status[q] \in Pending /\ status'[q] \in States \ {"unasked", "direct", "dropped", "applied"}
  <2>1. Stand(q) \in {"asked", "consented"}
    BY <1>1, <1>5, StandOf
  <2>2. status'[q] \in Pending \/ status'[q] \in Final \ {"applied", "direct"}
    BY <1>5 DEF States
  <2>3. Stand(q)' \in {"asked", "consented", "closed"}
    BY <1>1, <2>2, StandOfPrimed
  <2> QED BY <2>1, <2>3 DEF Promise!Moves
<1>6. CASE status[q] \in Pending /\ status'[q] = "applied" /\ (TakenByJob(q) \/ TakenByAnswer(q))
  <2>1. Stand(q) = "consented"
    BY <1>1, <1>6, StandOf, TakenWithConsent
  <2>2. Stand(q)' = "effective"
    BY <1>1, <1>6, StandOfPrimed
  <2> QED BY <2>1, <2>2 DEF Promise!Moves
<1> QED BY <1>2, <1>3, <1>4, <1>5, <1>6 DEF Moved

\* The refinement mapping, question by question.
LEMMA StandingByQuestion == Standing = [q \in Question |-> Stand(q)]
BY DEF Standing, Stand

\* The refinement mapping of the next state, question by question.
LEMMA StandingByQuestionPrimed == Standing' = [q \in Question |-> Stand(q)']
BY DEF Standing, Stand

\* The questions keep the promise of QuestionPromise: effect only under consent
\* (or, for the auto class, the role that needs none), at most once, and no end is
\* undone by a late job, a sweep or a second owner.
THEOREM PromiseIsKept == SafeSpec => KeepsPromise
<1>1. Init => Promise!Init
  <2> SUFFICES ASSUME Init PROVE Standing = [q \in Question |-> "unasked"]
    BY DEF Promise!Init
  <2>1. \A q \in Question : Stand(q) = "unasked"
    BY StandOf DEF Init, States
  <2> QED BY <2>1, StandingByQuestion
<1>2. IInv /\ IInv' /\ [Next]_vars => [Promise!Next]_Standing
  <2> SUFFICES ASSUME IInv, IInv', [Next]_vars PROVE Promise!Next
    OBVIOUS
  <2>1. \A q \in Question : Stand(q)' \in Promise!Standing
    BY TypePartsPrimed, StandOfPrimed DEF IInv, RowsOK
  <2>2. Standing' \in [Question -> Promise!Standing]
    BY <2>1, StandingByQuestionPrimed
  <2>3. \A q \in Question : Standing'[q] = Standing[q] \/ <<Standing[q], Standing'[q]>> \in Promise!Moves
    <3>1. \A q \in Question : Standing[q] = Stand(q) /\ Standing'[q] = Stand(q)'
      BY StandingByQuestion, StandingByQuestionPrimed
    <3> QED BY <3>1, StandMoves
  <2> QED BY <2>2, <2>3 DEF Promise!Next
<1> QED BY <1>1, <1>2, Invariance, PTL DEF SafeSpec, KeepsPromise, Promise!Spec
=============================================================================
