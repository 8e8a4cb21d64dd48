------------------------- MODULE EmbedWorkerProofs -------------------------
(***************************************************************************)
(* The embed workers keep the promise of EmbedPromise for every number of  *)
(* workers, versions, chunks, pages and failures: the vectors of a version *)
(* appear with its done row, all at once, or not at all.  (That every      *)
(* version is embedded or given up in the end is left to the runs.)        *)
(***************************************************************************)
EXTENDS EmbedWorker, FiniteSetTheorems, WellFoundedInduction, TLAPS

\* A set of natural numbers that is not empty has a least.
LEMMA LeastNatural ==
  ASSUME NEW S \in SUBSET Nat, S # {}
  PROVE  \E m \in S : \A k \in S : m <= k
<1>1. PICK m \in S : \A k \in S : ~(<<k, m>> \in OpToRel(<, Nat))
  BY NatLessThanWellFounded, WFMin
<1>2. \A k \in S : ~(k < m)
  BY <1>1 DEF OpToRel
<1> QED BY <1>2

\* A finite set of natural numbers that is not empty has a largest.
LEMMA LargestNatural ==
  ASSUME NEW S \in SUBSET Nat, S # {}, IsFiniteSet(S)
  PROVE  \E m \in S : \A k \in S : k <= m
<1> DEFINE Above(n) == {k \in S : n < k}
           T == {Above(n) : n \in S}
<1>1. T \subseteq FiniteSubsetsOf(S)
  <2>1. ASSUME NEW n \in S PROVE IsFiniteSet(Above(n)) /\ Above(n) \subseteq S
    <3>1. Above(n) \in SUBSET S
      OBVIOUS
    <3> HIDE DEF Above
    <3> QED BY <3>1, FS_Subset
  <2> HIDE DEF Above
  <2> QED BY <2>1 DEF FiniteSubsetsOf
<1>2. T # {}
  OBVIOUS
<1>3. IsWellFoundedOn(StrictSubsetOrdering(S), FiniteSubsetsOf(S))
  BY FS_StrictSubsetOrderingWellFounded
<1> HIDE DEF T
<1>4. PICK U \in T : \A V \in T : ~(<<V, U>> \in StrictSubsetOrdering(S))
  BY <1>1, <1>2, <1>3, WFMin
<1>5. PICK m \in S : U = Above(m)
  BY DEF T
<1>6. ASSUME NEW k \in S, m < k PROVE FALSE
  <2>1. Above(k) \subseteq Above(m) /\ Above(k) # Above(m)
    <3>1. k \in Above(m) /\ k \notin Above(k)
      BY <1>6
    <3>2. Above(k) \subseteq Above(m)
      <4>1. \A x \in S : x \in Above(k) => x \in Above(m)
        BY <1>6
      <4>2. Above(k) \subseteq S
        OBVIOUS
      <4> HIDE DEF Above
      <4> QED BY <4>1, <4>2
    <3> QED BY <3>1, <3>2
  <2>2. Above(k) \in T
    BY DEF T
  <2>3. Above(k) \subseteq S /\ Above(m) \subseteq S
    OBVIOUS
  <2> HIDE DEF Above
  <2>4. <<Above(k), Above(m)>> \in StrictSubsetOrdering(S)
    BY <2>1, <2>3 DEF StrictSubsetOrdering
  <2> QED BY <1>4, <1>5, <2>2, <2>4
<1> QED BY <1>6

\* A row that is running has a holder, and no other has.
RowsOK == /\ row \in [Job -> Row]
          /\ \A j \in Job : row[j].holder # Null <=> row[j].status = "running"

\* TypeOK's part about one worker, and PagesCovered's.
Working(p) ==
  /\ p \in Progress
  /\ p.pc = "idle" <=> p.batch = {}
  /\ p.pc # "idle" => p.job \in p.batch
  /\ p.pc \in {"idle", "fail"} => p.mine = {}
  /\ p.pc = "insert" <=> p.copies \union p.infer # {}

Covered(p, V) ==
  /\ p.pc \in {"page", "insert", "mark"} =>
       /\ p.mine \union p.copies \union p.infer \subseteq ChunksOf[p.job]
       /\ \A c \in ChunksOf[p.job] :
            c <= p.after => c \in V \union p.mine \union p.copies \union p.infer
  /\ p.pc = "mark" => ChunksOf[p.job] \subseteq V \union p.mine

Apart == \A w, v \in Worker : w # v => worker[w].mine \intersect worker[v].mine = {}

\* The invariant, worker by worker.
LEMMA IInvByWorker ==
  ASSUME IInv
  PROVE  /\ RowsOK /\ vec \subseteq Chunk /\ faults \in Nat
         /\ worker \in [Worker -> Progress]
         /\ \A w \in Worker : Working(worker[w]) /\ Covered(worker[w], vec)
         /\ Apart /\ VectorsOfDone
<1>1. /\ RowsOK /\ vec \subseteq Chunk /\ faults \in Nat
      /\ worker \in [Worker -> Progress] /\ Apart /\ VectorsOfDone
  BY DEF IInv, TypeOK, RowsOK, Apart
<1>2. \A w \in Worker : Working(worker[w])
  BY DEF IInv, TypeOK, Working, ToInsert
<1>3. \A w \in Worker : Covered(worker[w], vec)
  BY DEF IInv, PagesCovered, Covered, ToInsert
<1> QED BY <1>1, <1>2, <1>3

-----------------------------------------------------------------------------
(* The model's operators.                                                  *)

\* A set of numbers that is not empty holds its smallest.
LEMMA SmallestIn ==
  ASSUME NEW S \in SUBSET Nat, S # {} PROVE Smallest(S) \in S
BY LeastNatural DEF Smallest

\* A finite set of numbers that is not empty holds its largest.
LEMMA LargestIn ==
  ASSUME NEW S \in SUBSET Nat, S # {}, IsFiniteSet(S)
  PROVE  Largest(S) \in S /\ \A k \in S : k <= Largest(S)
BY LargestNatural DEF Largest

\* The chunks of a job are a finite set of chunk ids.
LEMMA ChunkIds ==
  /\ \A j \in Job : ChunksOf[j] \subseteq Chunk /\ IsFiniteSet(ChunksOf[j])
  /\ \A c \in Chunk : c \in Nat /\ 0 < c
BY ConstantsAssumption

\* A worker with nothing in hand is well typed and owes no vector.
LEMMA IdleType == Working(Idle) /\ \A V : Covered(Idle, V)
BY DEF Working, Covered, Idle, Progress

\* A batch is worked on from its first job's beginning.
LEMMA WorkOnType ==
  ASSUME NEW B \in SUBSET Job
  PROVE  /\ Working(WorkOn(B)) /\ WorkOn(B).mine = {}
         /\ \A V : Covered(WorkOn(B), V)
<1>1. CASE B = {}
  <2>1. WorkOn(B) = Idle
    BY <1>1 DEF WorkOn
  <2>2. Idle.mine = {}
    BY DEF Idle
  <2> QED BY <2>1, <2>2, IdleType
<1>2. CASE B # {}
  <2> DEFINE j == Smallest(B)
             k == IF j \in Foreign THEN "fail" ELSE "page"
  <2>1. B \subseteq Nat
    BY ConstantsAssumption
  <2>2. j \in B
    BY <1>2, <2>1, SmallestIn
  <2>3. WorkOn(B) = [pc |-> k, batch |-> B, job |-> j, after |-> 0,
                     copies |-> {}, infer |-> {}, mine |-> {}]
    BY <1>2 DEF WorkOn, Idle
  <2>4. k \in {"fail", "page"}
    OBVIOUS
  <2> HIDE DEF j, k
  <2>5. PICK p : p = WorkOn(B)
    OBVIOUS
  <2>6. /\ p.pc = k /\ p.batch = B /\ p.job = j /\ p.after = 0
        /\ p.copies = {} /\ p.infer = {} /\ p.mine = {}
    BY <2>3, <2>5
  <2>7. p \in Progress
    BY <2>2, <2>3, <2>4, <2>5 DEF Progress
  <2>8. Working(p)
    BY <1>2, <2>2, <2>4, <2>6, <2>7 DEF Working
  <2>9. \A c \in ChunksOf[j] : ~(c <= 0)
    BY <2>2, ChunkIds
  <2>10. ASSUME NEW V PROVE Covered(p, V)
    BY <2>4, <2>6, <2>9 DEF Covered
  <2> QED BY <2>5, <2>6, <2>8, <2>10
<1> QED BY <1>1, <1>2

\* One worker's record changes.
LEMMA WorkerUpdate ==
  ASSUME worker \in [Worker -> Progress], NEW w \in Worker,
         NEW p \in Progress, Set(w, p)
  PROVE  /\ worker' \in [Worker -> Progress]
         /\ worker'[w] = p
         /\ \A v \in Worker \ {w} : worker'[v] = worker[v]
BY DEF Set

\* One job's row changes.
LEMMA RowUpdate ==
  ASSUME RowsOK, NEW j \in Job, NEW r \in Row,
         r.holder # Null <=> r.status = "running",
         row' = [row EXCEPT ![j] = r]
  PROVE  /\ RowsOK' /\ row'[j] = r
         /\ \A k \in Job \ {j} : row'[k] = row[k]
BY DEF RowsOK

\* What is covered stays so when more chunks have vectors.
LEMMA CoveredMore ==
  ASSUME NEW p, NEW V, NEW U, V \subseteq U, Covered(p, V)
  PROVE  Covered(p, U)
BY DEF Covered

-----------------------------------------------------------------------------
\* A step of one worker, when its new record, the rows and the vectors are
\* as they should be.
LEMMA SetStep ==
  ASSUME IInv, NEW w \in Worker, NEW p, Set(w, p), Working(p),
         Covered(p, vec'), \A v \in Worker \ {w} : p.mine \intersect worker[v].mine = {},
         RowsOK', vec \subseteq vec', vec' \subseteq Chunk, faults' \in Nat,
         VectorsOfDone'
  PROVE  IInv'
<1>1. /\ RowsOK /\ vec \subseteq Chunk /\ faults \in Nat
      /\ worker \in [Worker -> Progress]
      /\ \A v \in Worker : Working(worker[v]) /\ Covered(worker[v], vec)
      /\ Apart /\ VectorsOfDone
  BY IInvByWorker
<1>2. p \in Progress
  BY DEF Working
<1>3. /\ worker' \in [Worker -> Progress] /\ worker'[w] = p
      /\ \A v \in Worker \ {w} : worker'[v] = worker[v]
  BY <1>1, <1>2, WorkerUpdate
<1>4. ASSUME NEW v \in Worker
      PROVE  Working(worker'[v]) /\ Covered(worker'[v], vec')
  <2>1. CASE v = w
    BY <1>3, <2>1
  <2>2. CASE v # w
    BY <1>1, <1>3, <2>2, CoveredMore
  <2> QED BY <2>1, <2>2
<1>5. Apart'
  BY <1>1, <1>3 DEF Apart
<1>6. TypeOK'
  BY <1>3, <1>4, <1>5 DEF TypeOK, RowsOK, Apart, Working, ToInsert
<1>7. PagesCovered'
  BY <1>4 DEF PagesCovered, Covered, ToInsert
<1> QED BY <1>6, <1>7 DEF IInv

\* A worker's own steps that touch no row and no vector.
LEMMA LocalStep ==
  ASSUME IInv, NEW w \in Worker, NEW p, Set(w, p), Working(p),
         Covered(p, vec), \A v \in Worker \ {w} : p.mine \intersect worker[v].mine = {},
         UNCHANGED <<row, vec>>, faults' \in Nat
  PROVE  IInv'
<1>1. RowsOK' /\ VectorsOfDone' /\ vec' \subseteq Chunk
  BY IInvByWorker DEF RowsOK, VectorsOfDone
<1> QED BY <1>1, SetStep

\* A worker's transaction is rolled back.
LEMMA RolledBackStep ==
  ASSUME IInv, NEW w \in Worker, worker[w].pc # "idle", Set(w, RolledBack(w)),
         UNCHANGED <<row, vec>>, faults' \in Nat
  PROVE  IInv'
<1>1. Working(worker[w])
  BY IInvByWorker
<1>2. PICK p : p = RolledBack(w)
  OBVIOUS
<1>3. Working(p) /\ p.pc = "fail" /\ p.mine = {}
  BY <1>1, <1>2 DEF Working, RolledBack, Progress
<1>4. Covered(p, vec)
  BY <1>3 DEF Covered
<1> QED BY <1>2, <1>3, <1>4, LocalStep

\* The next job of a batch is begun, or the batch is over.
LEMMA NextJobType ==
  ASSUME IInv, NEW w \in Worker
  PROVE  /\ Working(NextJob(w)) /\ NextJob(w).mine = {}
         /\ \A V : Covered(NextJob(w), V)
<1>1. worker[w].batch \ {worker[w].job} \in SUBSET Job
  BY IInvByWorker DEF Progress
<1> QED BY <1>1, WorkOnType DEF NextJob

\* An exception that ends the worker's job leaves rows and vectors as they
\* were: only the fault count and the worker change.
LEMMA RaiseStep == ASSUME NEW w \in Worker PROVE IInv /\ Raise(w) => IInv'
<1> SUFFICES ASSUME IInv, Raise(w) PROVE IInv'
  OBVIOUS
<1>1. faults' \in Nat
  BY IInvByWorker DEF Raise, Fault
<1> QED BY <1>1, RolledBackStep DEF Raise

\* A worker Postgres chose as the deadlock's victim keeps none of the rows it
\* inserted.
LEMMA DeadlockVictimStep ==
  ASSUME NEW w \in Worker PROVE IInv /\ DeadlockVictim(w) => IInv'
<1> SUFFICES ASSUME IInv, DeadlockVictim(w) PROVE IInv'
  OBVIOUS
<1>1. worker[w].pc = "insert"
  BY DEF DeadlockVictim, InDeadlock, Waits
<1>2. faults' \in Nat
  BY IInvByWorker DEF DeadlockVictim
<1> QED BY <1>1, <1>2, RolledBackStep DEF DeadlockVictim

\* A crash rolls the worker's inserts back and leaves its leases standing.
LEMMA CrashStep == ASSUME NEW w \in Worker PROVE IInv /\ Crash(w) => IInv'
<1> SUFFICES ASSUME IInv, Crash(w) PROVE IInv'
  OBVIOUS
<1>1. faults' \in Nat
  BY IInvByWorker DEF Crash, Fault
<1>2. Idle.mine = {}
  BY DEF Idle
<1> QED BY <1>1, <1>2, IdleType, LocalStep DEF Crash

\* A failed attempt to record a failure leaves the row leased.
LEMMA MarkFailedRaisesStep ==
  ASSUME NEW w \in Worker PROVE IInv /\ MarkFailedRaises(w) => IInv'
<1> SUFFICES ASSUME IInv, MarkFailedRaises(w) PROVE IInv'
  OBVIOUS
<1>1. faults' \in Nat
  BY IInvByWorker DEF MarkFailedRaises, Fault
<1> QED BY <1>1, NextJobType, LocalStep DEF MarkFailedRaises

\* When the cursor passes the last chunk, every chunk of the job is in vec or
\* among the worker's own inserts.
LEMMA NoPageLeftStep ==
  ASSUME NEW w \in Worker PROVE IInv /\ NoPageLeft(w) => IInv'
<1> SUFFICES ASSUME IInv, NoPageLeft(w) PROVE IInv'
  OBVIOUS
<1>1. PICK q : q = worker[w]
  OBVIOUS
<1>2. Working(q) /\ Covered(q, vec) /\ q.pc = "page"
  BY <1>1, IInvByWorker DEF NoPageLeft
<1>3. PICK p : p = [q EXCEPT !.pc = "mark"]
  OBVIOUS
<1>4. Working(p) /\ p.job = q.job /\ p.after = q.after /\ p.mine = q.mine
      /\ p.copies = {} /\ p.infer = {} /\ p.pc = "mark"
  BY <1>2, <1>3 DEF Working, Progress
<1>5. q.copies = {} /\ q.infer = {} /\ q.after \in Nat /\ q.job \in Job
  BY <1>2 DEF Working, Progress
<1>6. ChunksOf[q.job] \subseteq vec \union q.mine
  <2> SUFFICES ASSUME NEW c \in ChunksOf[q.job], ~(c <= q.after)
               PROVE  c \in vec \union q.mine
    BY <1>2, <1>5 DEF Covered
  <2>1. c > q.after
    BY <1>5, ChunkIds
  <2> QED BY <1>1, <2>1 DEF NoPageLeft, Pending
<1>7. Covered(p, vec)
  BY <1>2, <1>4, <1>5, <1>6 DEF Covered
<1>8. \A v \in Worker \ {w} : p.mine \intersect worker[v].mine = {}
  BY <1>1, <1>4, IInvByWorker DEF Apart
<1>9. Set(w, p) /\ UNCHANGED <<row, vec>> /\ faults' \in Nat
  BY <1>1, <1>3, IInvByWorker DEF NoPageLeft
<1> QED BY <1>4, <1>7, <1>8, <1>9, LocalStep

\* A page holds every pending chunk up to its last.
LEMMA PageIsPrefix ==
  ASSUME NEW S \in SUBSET Nat, IsFiniteSet(S), PageOf(S) # {}
  PROVE  /\ PageOf(S) \subseteq S
         /\ Largest(PageOf(S)) \in PageOf(S)
         /\ \A c \in S : c <= Largest(PageOf(S)) => c \in PageOf(S)
         /\ \A c \in PageOf(S) : c <= Largest(PageOf(S))
<1> DEFINE Below(c) == {d \in S : d < c}
<1>1. PageOf(S) \in SUBSET S
  BY DEF PageOf
<1>2. IsFiniteSet(PageOf(S)) /\ PageOf(S) \in SUBSET Nat
  BY <1>1, FS_Subset
<1>3. PICK m : m = Largest(PageOf(S))
  OBVIOUS
<1>4. m \in PageOf(S) /\ \A c \in PageOf(S) : c <= m
  BY <1>2, <1>3, LargestIn
<1>5. ASSUME NEW c \in S, c <= m PROVE c \in PageOf(S)
  <2>1. m \in S /\ Cardinality(Below(m)) < Page
    BY <1>4 DEF PageOf
  <2>2. Below(c) \in SUBSET Below(m)
    <3>1. c \in Nat /\ m \in Nat /\ \A d \in S : d < c => d < m
      BY <1>5, <2>1
    <3> QED BY <3>1
  <2>3. Below(m) \in SUBSET S
    OBVIOUS
  <2>4. PageOf(S) = {x \in S : Cardinality(Below(x)) < Page}
    BY DEF PageOf
  <2> HIDE DEF Below
  <2>5. IsFiniteSet(Below(m))
    BY <2>3, FS_Subset
  <2>6. Cardinality(Below(c)) <= Cardinality(Below(m)) /\ IsFiniteSet(Below(c))
    BY <2>2, <2>5, FS_Subset
  <2>7. Cardinality(Below(c)) \in Nat /\ Cardinality(Below(m)) \in Nat
        /\ Page \in Nat
    BY <2>5, <2>6, FS_CardinalityType, ConstantsAssumption
  <2> QED BY <2>1, <2>4, <2>6, <2>7
<1> QED BY <1>1, <1>3, <1>4, <1>5

\* A page is the beginning of what is left, so moving the cursor past its last
\* chunk skips none.
LEMMA ReadPageStep == ASSUME NEW w \in Worker PROVE IInv /\ ReadPage(w) => IInv'
<1> SUFFICES ASSUME IInv, ReadPage(w) PROVE IInv'
  OBVIOUS
<1> DEFINE S == Pending(w)
           P == PageOf(S)
           m == Largest(P)
           C == Copyable(P)
           D == P \ C
<1>1. PICK q : q = worker[w]
  OBVIOUS
<1>2. Working(q) /\ Covered(q, vec) /\ q.pc = "page" /\ q.job \in Job
      /\ q.copies = {} /\ q.infer = {} /\ q.after \in Nat
  BY <1>1, IInvByWorker DEF ReadPage, Working, Progress
<1>3. S \in SUBSET ChunksOf[q.job]
      /\ \A c \in ChunksOf[q.job] \ S : c <= q.after \/ c \in vec \union q.mine
  <2>1. \A c \in ChunksOf[q.job] : c \in Nat
    BY <1>2, ChunkIds
  <2> QED BY <1>1, <1>2, <2>1 DEF Pending
<1>4. S \in SUBSET Nat /\ IsFiniteSet(S) /\ S \in SUBSET Chunk
  BY <1>2, <1>3, ChunkIds, FS_Subset
<1>5. P # {} /\ Set(w, [q EXCEPT !.pc = "insert", !.copies = C, !.infer = D,
                                 !.after = m])
      /\ UNCHANGED <<row, vec, faults>>
  BY <1>1 DEF ReadPage
<1>6. C \union D = P
  BY DEF Copyable
<1> HIDE DEF S
<1>7. /\ P \subseteq S /\ m \in P
      /\ \A c \in S : c <= m => c \in P
  BY <1>4, <1>5, PageIsPrefix
<1>8. m \in Nat
  BY <1>4, <1>7
<1> HIDE DEF P, C, D, m
<1>9. PICK p : p = [q EXCEPT !.pc = "insert", !.copies = C, !.infer = D,
                             !.after = m]
  OBVIOUS
<1>10. /\ p.pc = "insert" /\ p.copies = C /\ p.infer = D /\ p.after = m
       /\ p.job = q.job /\ p.batch = q.batch /\ p.mine = q.mine
  BY <1>2, <1>9 DEF Working, Progress
<1>11. C \in SUBSET Chunk /\ D \in SUBSET Chunk
  BY <1>4, <1>6, <1>7
<1>12. p \in Progress
  BY <1>2, <1>8, <1>9, <1>11 DEF Working, Progress
<1>13. Working(p)
  BY <1>2, <1>5, <1>6, <1>10, <1>12 DEF Working
<1>14. q.mine \subseteq ChunksOf[q.job]
       /\ \A c \in ChunksOf[q.job] : c <= q.after => c \in vec \union q.mine
  BY <1>2 DEF Covered
<1>15. \A c \in ChunksOf[q.job] : c <= m => c \in vec \union q.mine \union P
  BY <1>3, <1>7, <1>14
<1>16. Covered(p, vec)
  BY <1>3, <1>6, <1>7, <1>10, <1>14, <1>15 DEF Covered
<1>17. \A v \in Worker \ {w} : p.mine \intersect worker[v].mine = {}
  BY <1>1, <1>10, IInvByWorker DEF Apart
<1>18. faults' \in Nat
  BY <1>5, IInvByWorker
<1> QED BY <1>5, <1>9, <1>13, <1>16, <1>17, <1>18, LocalStep

\* Writing a chunk, or waiting for another worker's row, keeps what the cursor
\* has passed covered, and two workers never hold the same uncommitted row.
LEMMA InsertStep == ASSUME NEW w \in Worker PROVE IInv /\ Insert(w) => IInv'
<1> SUFFICES ASSUME IInv, Insert(w) PROVE IInv'
  OBVIOUS
<1>1. PICK q : q = worker[w]
  OBVIOUS
<1>2. Working(q) /\ Covered(q, vec) /\ q.pc = "insert"
      /\ q \in Progress /\ ToInsert(w) = q.copies \union q.infer
  BY <1>1, IInvByWorker DEF Insert, Working, ToInsert
<1>3. PICK c : c = NextChunk(w)
  OBVIOUS
<1>4. c \in q.copies \union q.infer /\ c \in Chunk
  <2>1. q.copies \subseteq Nat /\ q.infer \subseteq Nat
        /\ q.copies \union q.infer # {} /\ q.copies \union q.infer \subseteq Chunk
    BY <1>2, ChunkIds DEF Working, Progress
  <2>2. c = Smallest(IF q.copies # {} THEN q.copies ELSE q.infer)
    BY <1>1, <1>3 DEF NextChunk
  <2>3. CASE q.copies # {}
    BY <2>1, <2>2, <2>3, SmallestIn
  <2>4. CASE q.copies = {}
    BY <2>1, <2>2, <2>4, SmallestIn
  <2> QED BY <2>1, <2>3, <2>4
<1> DEFINE M == q.mine \union ({c} \ vec)
           C == q.copies \ {c}
           D == q.infer \ {c}
           k == IF q.copies \union q.infer = {c} THEN "page" ELSE "insert"
<1>5. /\ \A v \in Worker : ~Waits(w, v)
      /\ Set(w, [q EXCEPT !.mine = M, !.copies = C, !.infer = D, !.pc = k])
      /\ UNCHANGED <<row, vec, faults>>
  BY <1>1, <1>2, <1>3 DEF Insert, Progress
<1>6. /\ M \in SUBSET Chunk /\ C \in SUBSET Chunk /\ D \in SUBSET Chunk
      /\ k \in {"page", "insert"} /\ (k = "insert" <=> C \union D # {})
      /\ M \union C \union D \subseteq ChunksOf[q.job]
      /\ vec \union q.mine \union q.copies \union q.infer
           = vec \union M \union C \union D
  BY <1>2, <1>4 DEF Working, Progress, Covered
<1>7. \A v \in Worker \ {w} : M \intersect worker[v].mine = {}
  <2> SUFFICES ASSUME NEW v \in Worker \ {w} PROVE M \intersect worker[v].mine = {}
    OBVIOUS
  <2>1. c \notin worker[v].mine
    BY <1>1, <1>2, <1>3, <1>5 DEF Waits
  <2>2. q.mine \intersect worker[v].mine = {}
    BY <1>1, IInvByWorker DEF Apart
  <2> QED BY <2>1, <2>2
<1> HIDE DEF M, C, D, k
<1>8. PICK p : p = [q EXCEPT !.mine = M, !.copies = C, !.infer = D, !.pc = k]
  OBVIOUS
<1>9. /\ p.pc = k /\ p.copies = C /\ p.infer = D /\ p.after = q.after
      /\ p.job = q.job /\ p.batch = q.batch /\ p.mine = M
  BY <1>2, <1>8 DEF Progress
<1>10. p \in Progress
  BY <1>2, <1>6, <1>8 DEF Progress
<1>11. Working(p)
  BY <1>2, <1>6, <1>9, <1>10 DEF Working
<1>12. Covered(p, vec)
  BY <1>2, <1>6, <1>9 DEF Covered
<1>13. faults' \in Nat
  BY <1>5, IInvByWorker
<1> QED BY <1>5, <1>7, <1>8, <1>9, <1>11, <1>12, <1>13, LocalStep

-----------------------------------------------------------------------------
(* The steps that change rows and vectors.                                 *)

\* A row's new status, with nobody's lease on it.
LEMMA UnleasedType ==
  ASSUME NEW status \in {"absent", "queued", "done", "failed"}, NEW n \in Nat
  PROVE  /\ Unleased(status, n) \in Row
         /\ Unleased(status, n).status = status
         /\ Unleased(status, n).holder = Null
BY DEF Unleased, Row

\* The lease of a worker at work is on the row of its job.
LEMMA HeldRow ==
  ASSUME IInv, NEW w \in Worker, worker[w].pc # "idle"
  PROVE  /\ worker[w].job \in Job
         /\ row[worker[w].job] \in Row
         /\ row[worker[w].job].attempts \in Nat
         /\ Held(w) => row[worker[w].job].status = "running"
<1>1. worker[w].job \in Job
  BY IInvByWorker DEF Working, Progress
<1>2. row[worker[w].job] \in Row
  BY <1>1, IInvByWorker DEF RowsOK
<1> QED BY <1>1, <1>2 DEF Row, Held

\* A job is done, and the vectors of its transaction appear.
LEMMA DoneRows ==
  ASSUME IInv, NEW w \in Worker, worker[w].pc = "mark", Held(w),
         row' = [row EXCEPT ![worker[w].job] = Unleased("done", @.attempts)],
         vec' = vec \union worker[w].mine
  PROVE  /\ RowsOK' /\ VectorsOfDone' /\ vec \subseteq vec'
         /\ vec' \subseteq Chunk
         /\ worker[w].job \in Job /\ row[worker[w].job].status = "running"
         /\ row'[worker[w].job].status = "done"
         /\ \A k \in Job \ {worker[w].job} : row'[k] = row[k]
         /\ vec' = vec \union ChunksOf[worker[w].job]
<1>1. PICK j : j = worker[w].job
  OBVIOUS
<1>2. j \in Job /\ row[j].status = "running" /\ row[j].attempts \in Nat
  BY <1>1, HeldRow
<1>3. PICK r : r = Unleased("done", row[j].attempts)
  OBVIOUS
<1>4. r \in Row /\ r.status = "done" /\ r.holder = Null
  BY <1>2, <1>3, UnleasedType
<1>5. row' = [row EXCEPT ![j] = r] /\ RowsOK
  BY <1>1, <1>3, IInvByWorker DEF RowsOK
<1>6. RowsOK' /\ row'[j] = r /\ \A k \in Job \ {j} : row'[k] = row[k]
  BY <1>2, <1>4, <1>5, RowUpdate
<1>7. Working(worker[w]) /\ Covered(worker[w], vec) /\ vec \subseteq Chunk
  BY IInvByWorker
<1>8. vec' = vec \union ChunksOf[j]
  BY <1>1, <1>7 DEF Covered
<1>9. vec' \subseteq Chunk /\ vec \subseteq vec'
  BY <1>2, <1>7, <1>8, ChunkIds
<1>10. VectorsOfDone'
  <2> DEFINE D == {k \in Job : row[k].status = "done"}
             E == {k \in Job : row'[k].status = "done"}
  <2>1. E = D \union {j}
    BY <1>2, <1>4, <1>6
  <2>2. vec = UNION {ChunksOf[k] : k \in D}
    BY IInvByWorker DEF VectorsOfDone
  <2> HIDE DEF D
  <2>3. vec' = UNION {ChunksOf[k] : k \in E}
    BY <1>8, <2>1, <2>2
  <2> QED BY <2>3 DEF VectorsOfDone
<1> QED BY <1>1, <1>2, <1>4, <1>6, <1>8, <1>9, <1>10

\* The commit that marks a job done publishes the vectors it owes.
LEMMA MarkDoneStep == ASSUME NEW w \in Worker PROVE IInv /\ MarkDone(w) => IInv'
<1> SUFFICES ASSUME IInv, MarkDone(w) PROVE IInv'
  OBVIOUS
<1>1. faults' \in Nat /\ Set(w, NextJob(w)) /\ worker[w].pc = "mark"
  BY IInvByWorker DEF MarkDone
<1>2. \A v \in Worker \ {w} : NextJob(w).mine \intersect worker[v].mine = {}
  BY NextJobType
<1>3. CASE Held(w)
  <2>1. RowsOK' /\ VectorsOfDone' /\ vec \subseteq vec' /\ vec' \subseteq Chunk
    BY <1>1, <1>3, DoneRows DEF MarkDone
  <2> QED BY <1>1, <1>2, <2>1, NextJobType, SetStep
<1>4. CASE ~Held(w)
  BY <1>1, <1>2, <1>4, NextJobType, LocalStep DEF MarkDone
<1> QED BY <1>3, <1>4

\* The same commit with its answer lost: the rows are stored and the worker
\* goes on as after an exception.
LEMMA MarkDoneUnacknowledgedStep ==
  ASSUME NEW w \in Worker PROVE IInv /\ MarkDoneUnacknowledged(w) => IInv'
<1> SUFFICES ASSUME IInv, MarkDoneUnacknowledged(w) PROVE IInv'
  OBVIOUS
<1>1. faults' \in Nat /\ Set(w, RolledBack(w)) /\ worker[w].pc = "mark"
  BY IInvByWorker DEF MarkDoneUnacknowledged, Fault
<1>2. RowsOK' /\ VectorsOfDone' /\ vec \subseteq vec' /\ vec' \subseteq Chunk
  BY <1>1, DoneRows DEF MarkDoneUnacknowledged
<1>3. PICK p : p = RolledBack(w)
  OBVIOUS
<1>4. Working(p) /\ p.pc = "fail" /\ p.mine = {}
  BY <1>1, <1>3, IInvByWorker DEF Working, RolledBack, Progress
<1>5. Covered(p, vec')
  BY <1>4 DEF Covered
<1> QED BY <1>1, <1>2, <1>3, <1>4, <1>5, SetStep

\* Rows may change as long as the done ones stay the same.
LEMMA SameDone ==
  ASSUME IInv, vec' = vec,
         \A k \in Job : row'[k].status = "done" <=> row[k].status = "done"
  PROVE  VectorsOfDone' /\ vec \subseteq vec' /\ vec' \subseteq Chunk
BY IInvByWorker DEF VectorsOfDone

\* Recording a failure changes a row that is not done, or requeues it.
LEMMA MarkFailedStep ==
  ASSUME NEW w \in Worker PROVE IInv /\ MarkFailed(w) => IInv'
<1> SUFFICES ASSUME IInv, MarkFailed(w) PROVE IInv'
  OBVIOUS
<1>1. /\ faults' \in Nat /\ vec' = vec /\ Set(w, NextJob(w))
      /\ worker[w].pc = "fail" /\ RowsOK
  BY IInvByWorker DEF MarkFailed
<1>2. \A v \in Worker \ {w} : NextJob(w).mine \intersect worker[v].mine = {}
  BY NextJobType
<1>3. CASE Held(w)
  <2>1. PICK j : j = worker[w].job
    OBVIOUS
  <2>2. j \in Job /\ row[j].status = "running" /\ row[j].attempts \in Nat
    BY <1>1, <1>3, <2>1, HeldRow
  <2> DEFINE s == IF row[j].attempts >= MaxAttempts THEN "failed" ELSE "queued"
  <2>3. row' = [row EXCEPT ![j] = Unleased(s, row[j].attempts)]
    BY <1>1, <1>3, <2>1, <2>2 DEF MarkFailed, RowsOK
  <2>4. s \in {"failed", "queued"}
    OBVIOUS
  <2> HIDE DEF s
  <2>5. PICK r : r = Unleased(s, row[j].attempts)
    OBVIOUS
  <2>6. r \in Row /\ r.status = s /\ r.holder = Null
    BY <2>2, <2>4, <2>5, UnleasedType
  <2>7. RowsOK' /\ row'[j] = r /\ \A k \in Job \ {j} : row'[k] = row[k]
    BY <1>1, <2>2, <2>3, <2>4, <2>5, <2>6, RowUpdate
  <2>8. VectorsOfDone' /\ vec \subseteq vec' /\ vec' \subseteq Chunk
    BY <1>1, <2>2, <2>4, <2>6, <2>7, SameDone
  <2> QED BY <1>1, <1>2, <2>7, <2>8, NextJobType, SetStep
<1>4. CASE ~Held(w)
  BY <1>1, <1>2, <1>4, NextJobType, LocalStep DEF MarkFailed
<1> QED BY <1>3, <1>4

\* A step that leaves the workers alone.
LEMMA RowStep ==
  ASSUME IInv, RowsOK', worker' = worker, vec' \subseteq Chunk, faults' \in Nat,
         \A w \in Worker : Covered(worker[w], vec'), VectorsOfDone'
  PROVE  IInv'
<1>1. TypeOK'
  BY IInvByWorker DEF TypeOK, RowsOK, Apart, Working, ToInsert
<1>2. PagesCovered'
  BY DEF PagesCovered, Covered, ToInsert
<1> QED BY <1>1, <1>2 DEF IInv

\* A row that was not done and is not done now.
LEMMA OneRowStep ==
  ASSUME IInv, NEW j \in Job, NEW r \in Row, r.holder # Null <=> r.status = "running",
         row' = [row EXCEPT ![j] = r], r.status # "done", row[j].status # "done",
         UNCHANGED <<vec, worker>>, faults' \in Nat
  PROVE  IInv'
<1>1. RowsOK' /\ row'[j] = r /\ \A k \in Job \ {j} : row'[k] = row[k]
  BY RowUpdate, IInvByWorker
<1>2. VectorsOfDone' /\ vec' \subseteq Chunk
  BY <1>1, SameDone
<1> QED BY <1>1, <1>2, RowStep, IInvByWorker

\* A new write queues a job that owes vectors nobody has promised yet.
LEMMA EnqueueStep == ASSUME NEW j \in Job PROVE IInv /\ Enqueue(j) => IInv'
<1> SUFFICES ASSUME IInv, Enqueue(j) PROVE IInv'
  OBVIOUS
<1>1. PICK r : r = [Unleased("queued", 0) EXCEPT !.due = TRUE]
  OBVIOUS
<1>2. r \in Row /\ r.status = "queued" /\ r.holder = Null
  BY <1>1 DEF Unleased, Row
<1>3. row' = [row EXCEPT ![j] = r] /\ row[j].status = "absent"
      /\ UNCHANGED <<vec, worker, faults>>
  BY <1>1 DEF Enqueue
<1> QED BY <1>2, <1>3, OneRowStep, IInvByWorker

\* The passing of a retry's delay changes no status.
LEMMA BecomeDueStep == ASSUME NEW j \in Job PROVE IInv /\ BecomeDue(j) => IInv'
<1> SUFFICES ASSUME IInv, BecomeDue(j) PROVE IInv'
  OBVIOUS
<1>1. PICK r : r = [row[j] EXCEPT !.due = TRUE]
  OBVIOUS
<1>2. r \in Row /\ r.status = row[j].status /\ r.holder = row[j].holder
      /\ (row[j].holder # Null <=> row[j].status = "running")
  BY <1>1, IInvByWorker DEF RowsOK, Row
<1>3. row' = [row EXCEPT ![j] = r] /\ row[j].status = "queued"
      /\ UNCHANGED <<vec, worker, faults>>
  BY <1>1, IInvByWorker DEF BecomeDue, RowsOK, Row
<1> QED BY <1>2, <1>3, OneRowStep, IInvByWorker

\* A lease that runs out, whoever is at work under it.
LEMMA ExpireStep ==
  ASSUME NEW j \in Job PROVE IInv /\ (ExpireAbandoned(j) \/ ExpireHeld(j)) => IInv'
<1> SUFFICES ASSUME IInv, ExpireAbandoned(j) \/ ExpireHeld(j) PROVE IInv'
  OBVIOUS
<1>1. PICK r : r = [row[j] EXCEPT !.expired = TRUE]
  OBVIOUS
<1>2. r \in Row /\ r.status = row[j].status /\ r.holder = row[j].holder
      /\ (row[j].holder # Null <=> row[j].status = "running")
  BY <1>1, IInvByWorker DEF RowsOK, Row
<1>3. row' = [row EXCEPT ![j] = r] /\ row[j].status = "running"
      /\ UNCHANGED <<vec, worker>> /\ faults' \in Nat
  BY <1>1, IInvByWorker DEF ExpireAbandoned, ExpireHeld, Fault, RowsOK, Row
<1> QED BY <1>2, <1>3, OneRowStep

\* A lease takes rows that are queued or whose lease ran out, and keeps the
\* ones that are done.
LEMMA LeaseStep == ASSUME NEW w \in Worker PROVE IInv /\ Lease(w) => IInv'
<1> SUFFICES ASSUME IInv, Lease(w) PROVE IInv'
  OBVIOUS
<1>1. PICK B \in SUBSET {j \in Job : Ready(j)} :
        /\ row' = [j \in Job |->
                     IF j \in B
                     THEN [status |-> "running", attempts |-> row[j].attempts + 1,
                           holder |-> w, due |-> FALSE, expired |-> FALSE]
                     ELSE row[j]]
        /\ Set(w, WorkOn(B))
  BY DEF Lease
<1>2. RowsOK /\ vec' = vec /\ faults' \in Nat /\ B \in SUBSET Job
  BY IInvByWorker DEF Lease
<1>3. \A j \in B : row[j].status # "done"
  BY DEF Ready
<1>4. ASSUME NEW j \in Job
      PROVE  /\ row'[j] \in Row
             /\ row'[j].holder # Null <=> row'[j].status = "running"
             /\ row'[j].status = "done" <=> row[j].status = "done"
  <2>1. CASE j \in B
    <3>1. row'[j] = [status |-> "running", attempts |-> row[j].attempts + 1,
                     holder |-> w, due |-> FALSE, expired |-> FALSE]
      BY <1>1, <2>1
    <3>2. row[j].attempts + 1 \in Nat
      BY <1>2 DEF RowsOK, Row
    <3>3. w \in Worker \union {Null} /\ w # Null
      BY ConstantsAssumption
    <3>4. row'[j].status = "running" /\ row'[j].holder = w
      BY <3>1
    <3>5. row'[j] \in Row
      BY <3>1, <3>2, <3>3 DEF Row
    <3> QED BY <1>3, <2>1, <3>3, <3>4, <3>5
  <2>2. CASE j \notin B
    BY <1>1, <1>2, <2>2 DEF RowsOK
  <2> QED BY <2>1, <2>2
<1>5. RowsOK'
  <2>1. row' \in [Job -> Row]
    BY <1>1, <1>4
  <2> QED BY <1>4, <2>1 DEF RowsOK
<1>6. VectorsOfDone' /\ vec \subseteq vec' /\ vec' \subseteq Chunk
  BY <1>2, <1>4, SameDone
<1>7. Working(WorkOn(B)) /\ Covered(WorkOn(B), vec') /\ WorkOn(B).mine = {}
  BY <1>2, WorkOnType
<1>8. \A v \in Worker \ {w} : WorkOn(B).mine \intersect worker[v].mine = {}
  BY <1>7
<1> QED BY <1>1, <1>2, <1>5, <1>6, <1>7, <1>8, SetStep

\* A rebuild finds no transaction that has read, so no worker counts on
\* vectors that it takes away.
LEMMA RebuildStep == IInv /\ Rebuild => IInv'
<1> SUFFICES ASSUME IInv, Rebuild PROVE IInv'
  OBVIOUS
<1>1. PICK r : r = [Unleased("queued", 0) EXCEPT !.due = TRUE]
  OBVIOUS
<1>2. r \in Row /\ r.status = "queued" /\ r.holder = Null
  BY <1>1 DEF Unleased, Row
<1>3. /\ row' = [j \in Job |-> IF row[j].status = "absent" THEN row[j] ELSE r]
      /\ vec' = {} /\ worker' = worker /\ faults' \in Nat /\ RowsOK
  BY <1>1, IInvByWorker DEF Rebuild, Fault
<1>4. RowsOK' /\ \A j \in Job : row'[j].status # "done"
  BY <1>2, <1>3 DEF RowsOK
<1>5. VectorsOfDone'
  BY <1>3, <1>4 DEF VectorsOfDone
<1>6. ASSUME NEW w \in Worker PROVE Covered(worker[w], vec')
  <2>1. Working(worker[w])
    BY IInvByWorker
  <2>2. worker[w].pc \in {"idle", "fail"}
        \/ (worker[w].pc = "page" /\ worker[w].after = 0)
    <3>1. worker[w].after \in Nat
          /\ worker[w].pc \in {"idle", "page", "insert", "mark", "fail"}
      BY <2>1 DEF Working, Progress
    <3>2. /\ worker[w].pc \notin {"insert", "mark"}
          /\ worker[w].pc = "page" => ~(worker[w].after > 0)
      BY DEF Rebuild, InTransaction
    <3>3. ~(worker[w].after > 0) => worker[w].after = 0
      BY <3>1
    <3>4. worker[w].pc \in {"idle", "page", "fail"}
      BY <3>1, <3>2
    <3>5. worker[w].pc = "page" => worker[w].after = 0
      BY <3>2, <3>3
    <3> QED BY <3>4, <3>5
  <2>3. CASE worker[w].pc \in {"idle", "fail"}
    BY <2>3 DEF Covered
  <2>4. CASE worker[w].pc = "page" /\ worker[w].after = 0
    <3>1. worker[w].job \in Job
      BY <2>1, <2>4 DEF Working, Progress
    <3>2. \A c \in ChunksOf[worker[w].job] : ~(c <= 0)
      BY <3>1, ChunkIds
    <3>3. Covered(worker[w], vec)
      BY IInvByWorker
    <3> QED BY <2>4, <3>2, <3>3 DEF Covered
  <2> QED BY <2>2, <2>3, <2>4
<1> QED BY <1>3, <1>4, <1>5, <1>6, RowStep

\* A step that changes nothing keeps the invariant.
LEMMA StutterStep == IInv /\ UNCHANGED vars => IInv'
<1> SUFFICES ASSUME IInv, UNCHANGED vars PROVE IInv'
  OBVIOUS
<1>1. row' = row /\ vec' = vec /\ worker' = worker /\ faults' = faults
  BY DEF vars
<1>2. RowsOK' /\ VectorsOfDone'
  BY <1>1, IInvByWorker DEF RowsOK, VectorsOfDone
<1> QED BY <1>1, <1>2, RowStep, IInvByWorker

\* The invariant holds of an empty queue and idle workers.
LEMMA InitIInv == Init => IInv
<1> SUFFICES ASSUME Init PROVE IInv
  OBVIOUS
<1>1. PICK r : r = Unleased("absent", 0)
  OBVIOUS
<1>2. r \in Row /\ r.status = "absent" /\ r.holder = Null
  BY <1>1, UnleasedType
<1>3. /\ row = [j \in Job |-> r] /\ vec = {} /\ faults = 0
      /\ worker = [w \in Worker |-> Idle]
  BY <1>1 DEF Init
<1>4. Working(Idle) /\ \A V : Covered(Idle, V)
  BY IdleType
<1>5. Idle.mine = {}
  BY DEF Idle
<1>6. TypeOK
  BY <1>2, <1>3, <1>4, <1>5 DEF TypeOK, Working, ToInsert
<1>7. PagesCovered
  BY <1>3, <1>4 DEF PagesCovered, Covered, ToInsert
<1>8. VectorsOfDone
  BY <1>2, <1>3 DEF VectorsOfDone
<1> QED BY <1>6, <1>7, <1>8 DEF IInv

\* Every step keeps the invariant.
LEMMA NextIInv == IInv /\ [Next]_vars => IInv'
<1> SUFFICES ASSUME IInv, [Next]_vars PROVE IInv'
  OBVIOUS
<1>1. ASSUME NEW w \in Worker, WorkerStep(w) PROVE IInv'
  BY <1>1, ReadPageStep, NoPageLeftStep, InsertStep, MarkDoneStep,
     MarkDoneUnacknowledgedStep, RaiseStep, DeadlockVictimStep,
     MarkFailedStep, MarkFailedRaisesStep DEF WorkerStep
<1>2. CASE \E w \in Worker : Lease(w) \/ Crash(w)
  BY <1>2, LeaseStep, CrashStep
<1>3. CASE \E j \in Job : Enqueue(j) \/ BecomeDue(j) \/ ExpireAbandoned(j)
                          \/ ExpireHeld(j)
  BY <1>3, EnqueueStep, BecomeDueStep, ExpireStep
<1>4. CASE Rebuild
  BY <1>4, RebuildStep
<1>5. CASE UNCHANGED vars
  BY <1>5, StutterStep
<1> QED BY <1>1, <1>2, <1>3, <1>4, <1>5 DEF Next

-----------------------------------------------------------------------------
\* Every page read is inserted or still to insert, and the vectors are those
\* of the done jobs (worker/main.py: process_jobs).
THEOREM Invariance == SafeSpec => []IInv
<1>1. Init => IInv
  BY InitIInv
<1>2. IInv /\ [Next]_vars => IInv'
  BY NextIInv
<1> QED BY <1>1, <1>2, PTL DEF SafeSpec

\* The types, one holder for every running row, and no chunk inserted by two
\* open transactions.
THEOREM TypeCorrect == SafeSpec => []TypeOK
<1>1. IInv => TypeOK
  BY DEF IInv
<1> QED BY <1>1, Invariance, PTL

\* The vectors of a version are all there when its job is done, and none is
\* there before or when it has failed (worker/main.py: the fenced final
\* transaction of process_jobs).
THEOREM AllOrNothing == SafeSpec => []VectorsOfDone
<1>1. IInv => VectorsOfDone
  BY DEF IInv
<1> QED BY <1>1, Invariance, PTL

-----------------------------------------------------------------------------
(* The refinement.                                                         *)

\* What a row tells of its version.
LEMMA PromisedIs ==
  ASSUME RowsOK, NEW j \in Job
  PROVE  /\ Promised(j) = "absent" <=> row[j].status = "absent"
         /\ Promised(j) = "owed" <=> row[j].status \in {"queued", "running"}
         /\ Promised(j) = "embedded" <=> row[j].status = "done"
         /\ Promised(j) = "abandoned" <=> row[j].status = "failed"
<1>1. row[j].status \in {"absent", "queued", "running", "done", "failed"}
  BY DEF RowsOK, Row
<1> QED BY <1>1 DEF Promised

\* A step that changes what no row tells is a stutter of the promise.
LEMMA StutterKeepsPromise ==
  ASSUME vec' = vec, \A k \in Job : Promised(k)' = Promised(k)
  PROVE  UNCHANGED Promise!vars
BY DEF Promise!vars

\* A row that tells the same as before.
LEMMA SameStatus ==
  ASSUME NEW j \in Job,
         \/ row'[j].status = row[j].status
         \/ /\ row[j].status \in {"queued", "running"}
            /\ row'[j].status \in {"queued", "running"}
  PROVE  Promised(j)' = Promised(j)
BY DEF Promised

\* One version's fate changes.
LEMMA StateUpdate ==
  ASSUME NEW j \in Job, NEW s, Promised(j)' = s,
         \A k \in Job \ {j} : Promised(k)' = Promised(k)
  PROVE  [k \in Job |-> Promised(k)']
           = [[k \in Job |-> Promised(k)] EXCEPT ![j] = s]
OBVIOUS

\* Nothing is written and nothing is searchable at first, as the promise has
\* it.
LEMMA InitPromise == Init => Promise!Init
<1> SUFFICES ASSUME Init PROVE Promise!Init
  OBVIOUS
<1>1. \A j \in Job : row[j].status = "absent"
  BY DEF Init, Unleased
<1>2. \A j \in Job : Promised(j) = "absent"
  BY <1>1 DEF Promised
<1> QED BY <1>2 DEF Init, Promise!Init

\* Queueing a job is the promise's write of it.
LEMMA EnqueuePromise ==
  ASSUME IInv, NEW j \in Job, Enqueue(j) PROVE Promise!Write(j)
<1>1. row \in [Job -> Row]
  BY IInvByWorker DEF RowsOK
<1>2. row[j].status = "absent" /\ row'[j].status = "queued"
      /\ \A k \in Job \ {j} : row'[k] = row[k]
  BY <1>1 DEF Enqueue, Unleased, Row
<1>3. Promised(j) = "absent" /\ Promised(j)' = "owed"
  BY <1>2 DEF Promised
<1>4. \A k \in Job \ {j} : Promised(k)' = Promised(k)
  BY <1>2, SameStatus
<1>5. vec' = vec
  BY DEF Enqueue
<1> QED BY <1>3, <1>4, <1>5, StateUpdate DEF Promise!Write

\* The done row and the vectors appear in one step.
LEMMA DonePromise ==
  ASSUME IInv, NEW w \in Worker, worker[w].pc = "mark", Held(w),
         row' = [row EXCEPT ![worker[w].job] = Unleased("done", @.attempts)],
         vec' = vec \union worker[w].mine
  PROVE  \E j \in Job : Promise!Embed(j)
<1>1. PICK j : j = worker[w].job
  OBVIOUS
<1>2. /\ j \in Job /\ row[j].status = "running" /\ row'[j].status = "done"
      /\ \A k \in Job \ {j} : row'[k] = row[k]
      /\ vec' = vec \union ChunksOf[j]
  BY <1>1, DoneRows
<1>3. Promised(j) = "owed" /\ Promised(j)' = "embedded"
  BY <1>2 DEF Promised
<1>4. \A k \in Job \ {j} : Promised(k)' = Promised(k)
  BY <1>2, SameStatus
<1>5. Promise!Embed(j)
  BY <1>2, <1>3, <1>4, StateUpdate DEF Promise!Embed
<1> QED BY <1>2, <1>5

\* A failure gives the version up, or leaves it owed.
LEMMA MarkFailedPromise ==
  ASSUME IInv, NEW w \in Worker, MarkFailed(w)
  PROVE  (\E j \in Job : Promise!GiveUp(j)) \/ UNCHANGED Promise!vars
<1>1. vec' = vec /\ row \in [Job -> Row] /\ worker[w].pc # "idle"
  BY IInvByWorker DEF MarkFailed, RowsOK
<1>2. CASE Held(w)
  <2>1. PICK j : j = worker[w].job
    OBVIOUS
  <2>2. j \in Job /\ row[j].status = "running"
    BY <1>1, <1>2, <2>1, HeldRow
  <2>3. /\ row'[j].status \in {"failed", "queued"}
        /\ \A k \in Job \ {j} : row'[k] = row[k]
    BY <1>1, <1>2, <2>1, <2>2 DEF MarkFailed, Unleased
  <2>4. \A k \in Job \ {j} : Promised(k)' = Promised(k)
    BY <2>3, SameStatus
  <2>5. CASE row'[j].status = "queued"
    <3>1. Promised(j)' = Promised(j)
      BY <2>2, <2>5, SameStatus
    <3> QED BY <1>1, <2>4, <3>1, StutterKeepsPromise
  <2>6. CASE row'[j].status = "failed"
    <3>1. Promised(j) = "owed" /\ Promised(j)' = "abandoned"
      BY <2>2, <2>6 DEF Promised
    <3>2. Promise!GiveUp(j)
      BY <1>1, <2>2, <2>4, <3>1, StateUpdate DEF Promise!GiveUp
    <3> QED BY <2>2, <3>2
  <2> QED BY <2>3, <2>5, <2>6
<1>3. CASE ~Held(w)
  <2>1. row' = row
    BY <1>3 DEF MarkFailed
  <2>2. \A k \in Job : Promised(k)' = Promised(k)
    BY <2>1, SameStatus
  <2> QED BY <1>1, <2>2, StutterKeepsPromise
<1> QED BY <1>2, <1>3

\* Dropping the vectors and requeueing the finished jobs is the promise's
\* rebuild.
LEMMA RebuildPromise == IInv /\ Rebuild => Promise!Rebuild
<1> SUFFICES ASSUME IInv, Rebuild PROVE Promise!Rebuild
  OBVIOUS
<1>1. ASSUME NEW j \in Job
      PROVE  Promised(j)' = IF Promised(j) = "absent" THEN "absent" ELSE "owed"
  <2>1. CASE row[j].status = "absent"
    <3>1. row'[j].status = "absent"
      BY <2>1 DEF Rebuild
    <3> QED BY <2>1, <3>1 DEF Promised
  <2>2. CASE row[j].status # "absent"
    <3>1. row'[j].status = "queued"
      BY <2>2 DEF Rebuild, Unleased
    <3>2. Promised(j)' = "owed"
      BY <3>1 DEF Promised
    <3>3. Promised(j) # "absent"
      BY <2>2, PromisedIs, IInvByWorker
    <3> QED BY <3>2, <3>3
  <2> QED BY <2>1, <2>2
<1>2. vec' = {}
  BY DEF Rebuild
<1> QED BY <1>1, <1>2 DEF Promise!Rebuild

\* A step that changes no row's status, or leases rows, is a stutter.
LEMMA QuietRows ==
  ASSUME vec' = vec, row' = row PROVE UNCHANGED Promise!vars
<1>1. \A k \in Job : Promised(k)' = Promised(k)
  BY SameStatus
<1> QED BY <1>1, StutterKeepsPromise

\* A lease is invisible to the promise: no job starts or stops being
\* searchable.
LEMMA LeasePromise ==
  ASSUME IInv, NEW w \in Worker, Lease(w) PROVE UNCHANGED Promise!vars
<1>1. PICK B \in SUBSET {j \in Job : Ready(j)} :
        row' = [j \in Job |->
                  IF j \in B
                  THEN [status |-> "running", attempts |-> row[j].attempts + 1,
                        holder |-> w, due |-> FALSE, expired |-> FALSE]
                  ELSE row[j]]
  BY DEF Lease
<1>2. ASSUME NEW j \in Job PROVE Promised(j)' = Promised(j)
  <2>1. CASE j \in B
    BY <1>1, <2>1, SameStatus DEF Ready
  <2>2. CASE j \notin B
    BY <1>1, <2>2, SameStatus
  <2> QED BY <2>1, <2>2
<1>3. vec' = vec
  BY DEF Lease
<1> QED BY <1>2, <1>3, StutterKeepsPromise

\* The clocks change no status.
LEMMA ClockPromise ==
  ASSUME IInv, NEW j \in Job, BecomeDue(j) \/ ExpireAbandoned(j) \/ ExpireHeld(j)
  PROVE  UNCHANGED Promise!vars
<1>1. row \in [Job -> Row] /\ vec' = vec
  BY IInvByWorker DEF RowsOK, BecomeDue, ExpireAbandoned, ExpireHeld
<1>2. \A k \in Job : row'[k].status = row[k].status
  BY <1>1 DEF BecomeDue, ExpireAbandoned, ExpireHeld, Row
<1> QED BY <1>1, <1>2, SameStatus, StutterKeepsPromise

\* Each step keeps the promise or changes nothing of it.
LEMMA StepKeepsPromise == IInv /\ [Next]_vars => [Promise!Next]_(Promise!vars)
<1> SUFFICES ASSUME IInv, [Next]_vars PROVE [Promise!Next]_(Promise!vars)
  OBVIOUS
<1>1. ASSUME NEW w \in Worker, WorkerStep(w)
      PROVE  [Promise!Next]_(Promise!vars)
  <2>1. CASE MarkDone(w) /\ ~Held(w)
    BY <2>1, QuietRows DEF MarkDone
  <2>2. CASE (MarkDone(w) /\ Held(w)) \/ MarkDoneUnacknowledged(w)
    <3>1. \E j \in Job : Promise!Embed(j)
      BY <2>2, DonePromise DEF MarkDone, MarkDoneUnacknowledged
    <3> QED BY <3>1 DEF Promise!Next
  <2>3. CASE MarkFailed(w)
    BY <2>3, MarkFailedPromise DEF Promise!Next
  <2>4. CASE ReadPage(w) \/ NoPageLeft(w) \/ Insert(w) \/ Raise(w)
             \/ DeadlockVictim(w) \/ MarkFailedRaises(w)
    <3>1. row' = row /\ vec' = vec
      BY <2>4 DEF ReadPage, NoPageLeft, Insert, Raise, DeadlockVictim,
                  MarkFailedRaises
    <3> QED BY <3>1, QuietRows
  <2> QED BY <1>1, <2>1, <2>2, <2>3, <2>4 DEF WorkerStep
<1>2. CASE \E w \in Worker : Lease(w)
  BY <1>2, LeasePromise
<1>3. CASE (\E w \in Worker : Crash(w)) \/ UNCHANGED vars
  BY <1>3, QuietRows DEF Crash, vars
<1>4. CASE \E j \in Job : Enqueue(j)
  BY <1>4, EnqueuePromise DEF Promise!Next
<1>5. CASE \E j \in Job : BecomeDue(j) \/ ExpireAbandoned(j) \/ ExpireHeld(j)
  BY <1>5, ClockPromise
<1>6. CASE Rebuild
  BY <1>6, RebuildPromise DEF Promise!Next
<1> QED BY <1>1, <1>2, <1>3, <1>4, <1>5, <1>6 DEF Next

\* Whatever slow batches, crashes, lost replies, deadlocks and rebuilds, the
\* workers do what EmbedPromise allows and nothing else (worker/main.py: "a
\* worker whose lease expired cannot clobber a re-leased job").
THEOREM PromiseIsKept == SafeSpec => KeepsPromiseSafely
<1>1. Init => Promise!Init
  BY InitPromise
<1>2. IInv /\ [Next]_vars => [Promise!Next]_(Promise!vars)
  BY StepKeepsPromise
<1> QED BY <1>1, <1>2, Invariance, PTL
        DEF SafeSpec, KeepsPromiseSafely, Promise!SafeSpec
=============================================================================
