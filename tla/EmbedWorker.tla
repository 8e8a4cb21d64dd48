---------------------------- MODULE EmbedWorker ----------------------------
(***************************************************************************)
(* The embed workers (worker/main.py): each leases a batch of jobs, one    *)
(* per version, and for each job inserts the vectors of the version's      *)
(* chunks, page by page, in one transaction whose last statement marks the *)
(* job done under the lease.  The lease is not renewed, so a slow worker   *)
(* may find that another embeds the same version beside it.                *)
(*                                                                         *)
(* A statement that can wait is an action: every insertion of a vector.    *)
(* Clocks are not modelled: a row knows whether its run_after has come     *)
(* (due) and whether its lease has run out (expired).  The lease token is  *)
(* drawn for the batch, and a worker has one batch at a time: the token in *)
(* a row is named by the worker whose batch drew it (holder).              *)
(***************************************************************************)
EXTENDS Naturals, FiniteSets

CONSTANTS
  Job,          \* job ids: one job for each version, in the order of writing
  Chunk,        \* chunk ids
  ChunksOf,     \* the chunks of the version a job embeds
  Prev,         \* the chunk with the same text in the superseded version
  Worker,
  Null,
  Foreign,      \* jobs that name a model this build does not have
  Limit,        \* settings.worker_max_jobs_per_batch
  Page,         \* settings.worker_batch_chunks
  MaxAttempts,  \* main.MAX_ATTEMPTS
  MaxFaults     \* bound on failures, crashes, slow batches and rebuilds

ASSUME ConstantsAssumption ==
  /\ Job \subseteq Nat
  /\ Chunk \subseteq Nat \ {0}
  /\ ChunksOf \in [Job -> SUBSET Chunk]
  /\ \A j \in Job : IsFiniteSet(ChunksOf[j])
  /\ \A j, k \in Job : j # k => ChunksOf[j] \intersect ChunksOf[k] = {}
  /\ Prev \in [Chunk -> Chunk \union {Null}]
  /\ Foreign \subseteq Job
  /\ Null \notin Worker
  /\ Null \notin Chunk
  /\ Null \notin Job
  /\ Limit \in Nat \ {0}
  /\ Page \in Nat \ {0}
  /\ MaxAttempts \in Nat \ {0}
  /\ MaxFaults \in Nat

VARIABLES
  row,      \* the jobs table
  vec,      \* the chunks with a committed row in embeddings
  worker,   \* the batch of each worker and how far it got
  faults

vars == <<row, vec, worker, faults>>

Row == [status : {"absent", "queued", "running", "done", "failed"},
        attempts : Nat, holder : Worker \union {Null},
        due : BOOLEAN, expired : BOOLEAN]

\* mine: the vectors inserted by the open transaction; after: the last chunk
\* of the pages read so far; copies and infer: the chunks of this page still
\* to insert, by where their vectors come from.
Progress == [pc : {"idle", "page", "insert", "mark", "fail"},
             batch : SUBSET Job, job : Job \union {Null},
             after : Nat, copies : SUBSET Chunk, infer : SUBSET Chunk,
             mine : SUBSET Chunk]

Unleased(status, n) ==
  [status |-> status, attempts |-> n, holder |-> Null, due |-> FALSE, expired |-> FALSE]

Idle == [pc |-> "idle", batch |-> {}, job |-> Null, after |-> 0,
         copies |-> {}, infer |-> {}, mine |-> {}]

Init ==
  /\ row = [j \in Job |-> Unleased("absent", 0)]
  /\ vec = {}
  /\ worker = [w \in Worker |-> Idle]
  /\ faults = 0

-----------------------------------------------------------------------------
(* Statements.                                                             *)

Smallest(S) == CHOOSE x \in S : \A y \in S : x <= y

Largest(S) == CHOOSE x \in S : \A y \in S : y <= x

\* WHERE lease_token = ours AND status = 'running'
Held(w) ==
  LET r == row[worker[w].job] IN r.holder = w /\ r.status = "running"

Ready(j) ==
  \/ row[j].status = "queued" /\ row[j].due
  \/ row[j].status = "running" /\ row[j].expired

\* The loop over the jobs of a batch, in job order.  _check_job_model raises
\* before the first statement.
WorkOn(B) ==
  IF B = {} THEN Idle
  ELSE [Idle EXCEPT !.batch = B, !.job = Smallest(B),
                    !.pc = IF Smallest(B) \in Foreign THEN "fail" ELSE "page"]

NextJob(w) == WorkOn(worker[w].batch \ {worker[w].job})

\* _pending_chunks: what its own transaction inserted is not pending.
Pending(w) ==
  {c \in ChunksOf[worker[w].job] :
     c > worker[w].after /\ c \notin vec /\ c \notin worker[w].mine}

PageOf(S) == {c \in S : Cardinality({d \in S : d < c}) < Page}

Copyable(S) == {c \in S : Prev[c] \in vec}

ToInsert(w) == worker[w].copies \union worker[w].infer

\* A page is written copies first (one INSERT ... SELECT in chunk order),
\* then what was inferred, in chunk order.
NextChunk(w) == Smallest(IF worker[w].copies # {} THEN worker[w].copies
                         ELSE worker[w].infer)

\* An insertion waits for another transaction that inserted the same key.
Waits(w, v) ==
  /\ v # w
  /\ worker[w].pc = "insert"
  /\ NextChunk(w) \in worker[v].mine

\* A ring of transactions that wait for each other.
InDeadlock(w) ==
  \E S \in SUBSET Worker :
    /\ w \in S
    /\ \A v \in S : (\E u \in S : Waits(v, u)) /\ (\E u \in S : Waits(u, v))

Fault == faults < MaxFaults /\ faults' = faults + 1

Set(w, p) == worker' = [worker EXCEPT ![w] = p]

\* Seeded faults (operators named Faulty...) stand beside the definition they
\* replace when the runs are tested; nothing else uses them.

FaultyRolledBackToSavepoint(w) ==
  [worker[w] EXCEPT !.pc = "fail", !.copies = {}, !.infer = {}]

\* The transaction is over without a trace; mark_failed comes next.
RolledBack(w) == [worker[w] EXCEPT !.pc = "fail", !.copies = {}, !.infer = {},
                                   !.mine = {}]

\* Its transaction has read: it holds locks that TRUNCATE waits for.
InTransaction(w) ==
  \/ worker[w].pc \in {"insert", "mark"}
  \/ worker[w].pc = "page" /\ worker[w].after > 0

-----------------------------------------------------------------------------
(* Actions.                                                                *)

\* A write commits: the version, its chunks and the outbox row.
Enqueue(j) ==
  /\ row[j].status = "absent"
  /\ \A k \in Job : k < j => row[k].status # "absent"
  /\ row' = [row EXCEPT ![j] = [Unleased("queued", 0) EXCEPT !.due = TRUE]]
  /\ UNCHANGED <<vec, worker, faults>>

\* The back-off is over.
BecomeDue(j) ==
  /\ row[j].status = "queued" /\ ~row[j].due
  /\ row' = [row EXCEPT ![j].due = TRUE]
  /\ UNCHANGED <<vec, worker, faults>>

\* lease_jobs: one statement takes up to Limit ready rows.
Lease(w) ==
  /\ worker[w].pc = "idle"
  /\ \E B \in SUBSET {j \in Job : Ready(j)} :
       /\ B # {}
       /\ Cardinality(B) <= Limit
       /\ Cardinality(B) < Limit => B = {j \in Job : Ready(j)}
       /\ row' = [j \in Job |->
                    IF j \in B
                    THEN [status |-> "running", attempts |-> row[j].attempts + 1,
                          holder |-> w, due |-> FALSE, expired |-> FALSE]
                    ELSE row[j]]
       /\ Set(w, WorkOn(B))
  /\ UNCHANGED <<vec, faults>>

\* The next page, and which of its chunks can be copied.
ReadPage(w) ==
  LET P == PageOf(Pending(w)) IN
  /\ worker[w].pc = "page"
  /\ P # {}
  /\ Set(w, [worker[w] EXCEPT !.pc = "insert", !.copies = Copyable(P),
                              !.infer = P \ Copyable(P), !.after = Largest(P)])
  /\ UNCHANGED <<row, vec, faults>>

NoPageLeft(w) ==
  /\ worker[w].pc = "page"
  /\ Pending(w) = {}
  /\ Set(w, [worker[w] EXCEPT !.pc = "mark"])
  /\ UNCHANGED <<row, vec, faults>>

\* INSERT ... ON CONFLICT DO NOTHING of the next vector.
Insert(w) ==
  LET c == NextChunk(w)
  IN /\ worker[w].pc = "insert"
     /\ \A v \in Worker : ~Waits(w, v)
     /\ Set(w, [worker[w] EXCEPT !.mine = @ \union ({c} \ vec),
                                 !.copies = @ \ {c}, !.infer = @ \ {c},
                                 !.pc = IF ToInsert(w) = {c} THEN "page" ELSE "insert"])
     /\ UNCHANGED <<row, vec, faults>>

FaultyMarkDoneVectorsFirst(w) ==
  /\ worker[w].pc = "mark"
  /\ row' = IF Held(w) THEN [row EXCEPT ![worker[w].job] = Unleased("done", @.attempts)]
            ELSE row
  /\ vec' = vec \union worker[w].mine
  /\ Set(w, NextJob(w))
  /\ UNCHANGED faults

\* The last statement and the commit: all vectors of the job appear with it,
\* or (_LeaseLost) nothing does.
MarkDone(w) ==
  /\ worker[w].pc = "mark"
  /\ IF Held(w)
     THEN /\ row' = [row EXCEPT ![worker[w].job] = Unleased("done", @.attempts)]
          /\ vec' = vec \union worker[w].mine
     ELSE UNCHANGED <<row, vec>>
  /\ Set(w, NextJob(w))
  /\ UNCHANGED faults

\* The commit succeeds and its reply is lost: _handle_failure takes over.
MarkDoneUnacknowledged(w) ==
  /\ worker[w].pc = "mark"
  /\ Held(w)
  /\ row' = [row EXCEPT ![worker[w].job] = Unleased("done", @.attempts)]
  /\ vec' = vec \union worker[w].mine
  /\ Set(w, RolledBack(w))
  /\ Fault

\* Inference or the database fails somewhere in the transaction.
Raise(w) ==
  /\ worker[w].pc \in {"page", "insert", "mark"}
  /\ Set(w, RolledBack(w))
  /\ Fault
  /\ UNCHANGED <<row, vec>>

\* PostgreSQL aborts one transaction of a ring.
DeadlockVictim(w) ==
  /\ InDeadlock(w)
  /\ Set(w, RolledBack(w))
  /\ UNCHANGED <<row, vec, faults>>

\* _mark_failed.  While the lease is held the attempts of the leased job are
\* those of its row.
MarkFailed(w) ==
  /\ worker[w].pc = "fail"
  /\ row' = IF Held(w)
            THEN [row EXCEPT ![worker[w].job] =
                    Unleased(IF @.attempts >= MaxAttempts THEN "failed" ELSE "queued",
                             @.attempts)]
            ELSE row
  /\ Set(w, NextJob(w))
  /\ UNCHANGED <<vec, faults>>

\* ... which may fail itself: the row waits for its lease to run out.
MarkFailedRaises(w) ==
  /\ worker[w].pc = "fail"
  /\ Set(w, NextJob(w))
  /\ Fault
  /\ UNCHANGED <<row, vec>>

\* The worker is killed or stopped; the server rolls its transaction back.
Crash(w) ==
  /\ worker[w].pc # "idle"
  /\ Set(w, Idle)
  /\ Fault
  /\ UNCHANGED <<row, vec>>

AtWork(j) == row[j].holder # Null /\ j \in worker[row[j].holder].batch

\* lease_until passes, for a lease nobody works under any more ...
ExpireAbandoned(j) ==
  /\ row[j].status = "running" /\ ~row[j].expired /\ ~AtWork(j)
  /\ row' = [row EXCEPT ![j].expired = TRUE]
  /\ UNCHANGED <<vec, worker, faults>>

\* ... and under a batch that takes longer than its lease.
ExpireHeld(j) ==
  /\ row[j].status = "running" /\ ~row[j].expired /\ AtWork(j)
  /\ row' = [row EXCEPT ![j].expired = TRUE]
  /\ Fault
  /\ UNCHANGED <<vec, worker>>

\* rebuild_projections: TRUNCATE waits for the open transactions; every
\* embed job is inserted anew from its write's event.
Rebuild ==
  /\ \A w \in Worker : ~InTransaction(w)
  /\ row' = [j \in Job |->
               IF row[j].status = "absent" THEN row[j]
               ELSE [Unleased("queued", 0) EXCEPT !.due = TRUE]]
  /\ vec' = {}
  /\ row' # row
  /\ Fault
  /\ UNCHANGED worker

-----------------------------------------------------------------------------
WorkerStep(w) ==
  \/ ReadPage(w) \/ NoPageLeft(w) \/ Insert(w)
  \/ MarkDone(w) \/ MarkDoneUnacknowledged(w)
  \/ Raise(w) \/ DeadlockVictim(w) \/ MarkFailed(w) \/ MarkFailedRaises(w)

Next ==
  \/ \E j \in Job : Enqueue(j) \/ BecomeDue(j) \/ ExpireAbandoned(j) \/ ExpireHeld(j)
  \/ \E w \in Worker : Lease(w) \/ WorkerStep(w) \/ Crash(w)
  \/ Rebuild

SafeSpec == Init /\ [][Next]_vars

\* run_forever leases again and again, inference ends, and clocks pass for a
\* row that waits for its run_after or whose worker is gone.
Fairness ==
  /\ \A w \in Worker : WF_vars(Lease(w)) /\ WF_vars(WorkerStep(w))
  /\ \A j \in Job : WF_vars(BecomeDue(j)) /\ WF_vars(ExpireAbandoned(j))

Spec == SafeSpec /\ Fairness

-----------------------------------------------------------------------------
(* Properties.                                                             *)

\* Types; a row has a holder exactly while it is running, a worker is idle
\* exactly when its batch is empty, nothing is uncommitted outside the
\* transaction, and no two open transactions hold the same chunk.
TypeOK ==
  /\ row \in [Job -> Row]
  /\ vec \subseteq Chunk
  /\ worker \in [Worker -> Progress]
  /\ faults \in Nat
  /\ \A j \in Job : row[j].holder # Null <=> row[j].status = "running"
  /\ \A w \in Worker :
       /\ worker[w].pc = "idle" <=> worker[w].batch = {}
       /\ worker[w].pc # "idle" => worker[w].job \in worker[w].batch
       /\ worker[w].pc \in {"idle", "fail"} => worker[w].mine = {}
       /\ worker[w].pc = "insert" <=> ToInsert(w) # {}
  /\ \A w, v \in Worker : w # v => worker[w].mine \intersect worker[v].mine = {}

\* What has become of a version, as its row tells it.
Promised(j) ==
  CASE row[j].status = "absent" -> "absent"
    [] row[j].status \in {"queued", "running"} -> "owed"
    [] row[j].status = "done" -> "embedded"
    [] row[j].status = "failed" -> "abandoned"

Promise == INSTANCE EmbedPromise
             WITH state <- [j \in Job |-> Promised(j)], searchable <- vec

\* "every write is fenced by the job's lease_token so a worker whose lease
\* expired cannot clobber a re-leased job" (worker/main.py): whatever slow
\* batches, crashes, lost replies, deadlocks and rebuilds, the vectors of a
\* version appear together with its done row or not at all, a failed job
\* leaves none, and every version is embedded or given up in the end.
KeepsPromise == Promise!Spec

\* The same without the liveness, for the proof.
KeepsPromiseSafely == Promise!SafeSpec

-----------------------------------------------------------------------------
(* The inductive invariant behind the promise.                             *)

\* A chunk of the pages read so far has a vector, or waits to be inserted,
\* and what an open transaction inserts is of the job it works on.
PagesCovered ==
  \A w \in Worker :
    LET p == worker[w] IN
    /\ p.pc \in {"page", "insert", "mark"} =>
         /\ p.mine \union p.copies \union p.infer \subseteq ChunksOf[p.job]
         /\ \A c \in ChunksOf[p.job] :
              c <= p.after => c \in vec \union p.mine \union ToInsert(w)
    /\ p.pc = "mark" => ChunksOf[p.job] \subseteq vec \union p.mine

\* All or nothing: the chunks with a vector are those of the done jobs.
VectorsOfDone ==
  vec = UNION {ChunksOf[j] : j \in {k \in Job : row[k].status = "done"}}

IInv == TypeOK /\ PagesCovered /\ VectorsOfDone
=============================================================================
