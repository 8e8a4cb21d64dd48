---------------------------- MODULE QuestionLife ----------------------------
(***************************************************************************)
(* The life of the librarian's questions (librarian/questions.py,          *)
(* roles.py, withdraw.py and the apply half of worker.py): a proposal      *)
(* waits in a batch for its owner, is answered, decided with its batch,    *)
(* withdrawn or expires, and is applied by a job once every project it     *)
(* touches has a librarian above observer.                                 *)
(*                                                                         *)
(* Every transaction is cut where it waits for a lock and can find the     *)
(* world changed: its row locks, its item and policy locks, its commit.    *)
(* What a transaction holds follows from how far it got.                   *)
(***************************************************************************)
EXTENDS Naturals, FiniteSets

CONSTANTS
  Question, Batch, Item, Project,
  Worker,      \* slots of the librarian worker that run apply_batch jobs
  Owner,       \* sessions that answer, decide, withdraw and set roles
  Subjects,    \* the items whose heads the proposal of a question assessed
  Closes,      \* of these, the items that it closes
  Recorded,    \* its home and its project_ids
  Clash,       \* pairs of questions that supersede each other's item
  Rank,        \* the order by close cut in which one job applies them
  Widening,    \* questions of kind widen_scope
  AutoClass,   \* proposals of the auto-rule class
  Scope,       \* the project sets that a revision may give to an item
  Configured,  \* HLM_LIBRARIAN_ROLE: 0 observer, 1 assistant, 2 autonomous
  Decision,    \* role decisions that owners may take
  Deployment,  \* the scope of a decision for the whole deployment
  BatchMax,    \* BATCH_MAX
  MaxRound,    \* bound: decision rounds of a batch after the first
  MaxUpset,    \* bound: revisions, changes of policy or trust, and crashes
  Null

Role == 0..2

ASSUME QuestionAssumption ==
  /\ Subjects \in [Question -> SUBSET Item] /\ Closes \in [Question -> SUBSET Item]
  /\ \A q \in Question : Closes[q] \subseteq Subjects[q]
  /\ Recorded \in [Question -> SUBSET Project]
  /\ Rank \in [Question -> Nat] /\ \A q, r \in Question : Rank[q] = Rank[r] => q = r
  /\ Clash \subseteq Question \X Question /\ \A q \in Question : <<q, q>> \notin Clash
  /\ Widening \subseteq Question /\ AutoClass \subseteq Question
  /\ Scope \subseteq SUBSET Project
  /\ Configured \in Role
  /\ Decision \subseteq [scope : Project \union {Deployment}, role : Role]
  /\ Deployment \notin Project
  /\ BatchMax \in Nat \ {0} /\ MaxRound \in Nat /\ MaxUpset \in Nat
  /\ Null \notin Batch

VARIABLES
  status,    \* librarian_questions.status; "unasked", "dropped" and "direct" have no row
  batchOf,   \* librarian_questions.batch_id
  due,       \* pending questions whose expires_at has passed
  stale,     \* questions with an assessed item whose head has moved on
  batch,     \* librarian_batches.status
  rounds,    \* recorded apply_batch events of a batch
  queued,    \* queued apply_batch jobs
  decided,   \* the latest role decision of the deployment
  override,  \* the latest role decision of each project, 2 when there is none
  scope,     \* project_ids of the head of each item
  walled,    \* whether policy keeps the projects apart
  trusted,   \* whether the proposing device may still act
  work,      \* the job of each worker slot and how far its transaction got
  deal,      \* the transaction of each owner session
  upsets     \* revisions, changes of policy or trust, and crashes so far

rows == <<status, batchOf, due, stale, batch>>
world == <<decided, override, scope, walled, trusted>>
vars == <<rows, world, rounds, queued, work, deal, upsets>>

Upset == upsets < MaxUpset /\ upsets' = upsets + 1

Applicable == {"approved", "accepted_pending"}
Pending == {"open"} \union Applicable
Final == {"rejected", "answered", "applied", "superseded", "expired", "authority_lost",
          "withdrawn", "dropped", "direct"}

\* The keys of apply_batch jobs: a batch with a decision round, or with ByRelease
\* (the key of a promotion or sweep holds an event id, so it is always new).
ByRelease == MaxRound + 1

Job == Batch \X (0..ByRelease)

Resting == [pc |-> "idle", job |-> Null, plan |-> {}, ready |-> {}, gone |-> {}]
Idle == [pc |-> "idle", rows |-> {}, to |-> "open", batch |-> Null, decision |-> Null]

Init ==
  /\ status = [q \in Question |-> "unasked"]
  /\ batchOf = [q \in Question |-> Null]
  /\ due = {} /\ stale = {}
  /\ batch = [b \in Batch |-> "none"]
  /\ rounds = [b \in Batch |-> 0]
  /\ queued = {}
  /\ decided = 0
  /\ override = [p \in Project |-> 2]
  /\ scope \in [Item -> Scope]
  /\ walled = FALSE /\ trusted = TRUE
  /\ work = [w \in Worker |-> Resting]
  /\ deal = [o \in Owner |-> Idle]
  /\ upsets = 0

-----------------------------------------------------------------------------
(* Roles and projects.  Operators named Faulty... are seeded faults, used   *)
(* only to test that the runs notice them.                                 *)

Lower(a, b) == IF a <= b THEN a ELSE b

\* effective_role: the configured role counts only while it is the decided one.
EffectiveRole(p) == Lower(IF Configured = decided THEN Configured ELSE 0, override[p])

\* _role_after: the role of p once decision d is recorded.
RoleAfter(d, p) ==
  Lower(IF d.scope = Deployment THEN d.role ELSE decided,
        IF d.scope = p THEN d.role ELSE override[p])

\* The projects that q touches on the current rows (action_projects).
Touched(q) == Recorded[q] \union UNION {scope[i] : i \in Subjects[q]}

\* lowest_role # observer
AboveObserver(q) == \A p \in Touched(q) : EffectiveRole(p) > 0

\* policy_blocked
Blocked(q) == walled /\ Cardinality(Touched(q)) > 1

-----------------------------------------------------------------------------
(* Locks, from how far the transactions got.                               *)

Applying(w) == work[w].pc \in {"locks", "commit"}

FaultyNotByWorkers == \E o \in Owner : deal[o].pc \in {"locks", "commit"}
FaultyNotByOwners == \E w \in Worker : Applying(w)

\* lock_role_order: everything here but a role decision shares it.
RoleShared == (\E w \in Worker : Applying(w)) \/ (\E o \in Owner : deal[o].pc \in {"locks", "commit"})
RoleExclusive == \E o \in Owner : deal[o].pc = "role"

\* Question rows locked FOR UPDATE.
LockedRows ==
  (UNION {work[w].plan : w \in {v \in Worker : Applying(v)}}) \union
  (UNION {deal[o].rows : o \in {v \in Owner : deal[v].pc \in {"locks", "commit"}}})

\* Questions whose items and whose projects' policy rows are locked.
Held ==
  (UNION {work[w].ready \ Widening : w \in {v \in Worker : work[v].pc = "commit"}}) \union
  (UNION {deal[o].rows : o \in {v \in Owner : deal[v].pc = "commit" /\ deal[v].to = "applied"}})

LockedItems == UNION {Subjects[q] : q \in Held}

\* set_question_status to new, with the heads of the items in S moving on.  The
\* clock and the heads matter to pending questions only.
Record(new, S) ==
  /\ status' = new
  /\ due' = {q \in due : new[q] \in Pending}
  /\ stale' = {q \in Question : new[q] \in Pending /\ (q \in stale \/ Subjects[q] \cap S # {})}

\* Jobs that are queued or still run.
Unfinished == queued \union {work[w].job : w \in {v \in Worker : work[v].pc # "idle"}}

-----------------------------------------------------------------------------
(* Proposals (write_review and the proposal half of LibrarianWorker.apply). *)

OpenIn(b) == {q \in Question : batchOf[q] = b /\ status[q] = "open"}

FaultyAssign(q, b, new) == UNCHANGED <<batch, batchOf>>

\* _assign_batches: q goes to the open batch b of its project, or to a new one
\* when there is none or it is full.
Assign(q, b, new) ==
  LET accepting == {c \in Batch : batch[c] = "open"}
      full == new = "open" /\ \E c \in accepting : Cardinality(OpenIn(c)) >= BatchMax
  IN /\ IF accepting = {} \/ full
        THEN /\ batch[b] = "none"
             /\ batch' = [c \in Batch |-> IF c = b THEN "open" ELSE IF c \in accepting THEN "ready" ELSE batch[c]]
        ELSE b \in accepting /\ UNCHANGED batch
     /\ batchOf' = [batchOf EXCEPT ![q] = b]

\* What becomes of a proposal; old tells whether a subject was revised while the
\* model thought about it.
Proposed(q, old) ==
  IF ~trusted \/ Blocked(q) THEN "dropped"
  ELSE IF q \in AutoClass /\ \A p \in Recorded[q] : EffectiveRole(p) = 2
  THEN IF old THEN "dropped" ELSE "direct"
  ELSE IF old THEN "superseded" ELSE "open"

\* _plan_questions and _assign_batches, with the items locked.
Propose(q, old) ==
  /\ status[q] = "unasked"
  /\ ~RoleExclusive
  /\ Subjects[q] \cap LockedItems = {}
  /\ LET new == Proposed(q, old) IN
     /\ Record([status EXCEPT ![q] = new], IF new = "direct" THEN Closes[q] ELSE {})
     /\ IF new \in {"open", "superseded"}
        THEN \E b \in Batch : Assign(q, b, new)
        ELSE UNCHANGED <<batchOf, batch>>
  /\ UNCHANGED <<world, rounds, queued, work, deal, upsets>>

-----------------------------------------------------------------------------
(* memory.answer (questions.answer).                                       *)

\* A widening may still be answered once it is approved: no job applies it.
Answerable(q) == status[q] = "open" \/ (q \in Widening /\ status[q] \in Applicable)

\* What the owner's verb writes.  Under an observer an accept is a label.
Verdict(q, verb) ==
  CASE verb = "reject" -> "rejected"
    [] verb = "custom" -> "answered"
    [] verb = "accept" -> IF AboveObserver(q) THEN "applied" ELSE "accepted_pending"

\* Role order shared, the question row FOR UPDATE, then the checks.
AnswerRow(o, q) ==
  /\ deal[o].pc = "idle" /\ ~RoleExclusive /\ q \notin LockedRows
  /\ Answerable(q) /\ q \notin due
  /\ \E verb \in {"accept", "reject", "custom"} :
       deal' = [deal EXCEPT ![o] = [Idle EXCEPT !.pc = IF Verdict(q, verb) = "applied" THEN "locks" ELSE "commit",
                                                !.rows = {q}, !.to = Verdict(q, verb)]]
  /\ UNCHANGED <<rows, world, rounds, queued, work, upsets>>

\* The item locks and the policy rows, then the TTL on a fresh clock.
AnswerLocks(o) ==
  /\ deal[o].pc = "locks"
  /\ \A q \in deal[o].rows : Subjects[q] \cap LockedItems = {}
  /\ deal' = [deal EXCEPT ![o] = IF deal[o].rows \cap due = {} THEN [@ EXCEPT !.pc = "commit"] ELSE Idle]
  /\ UNCHANGED <<rows, world, rounds, queued, work, upsets>>

\* What an accept comes to when its locks are held.
Accepted(q) ==
  IF Blocked(q) THEN "authority_lost"
  ELSE IF q \in stale THEN "superseded" ELSE "applied"

\* A label is written as it is; an accept that applies is judged first.
Outcome(q, to) == IF to = "applied" THEN Accepted(q) ELSE to

\* _widen revises the item; the projects that it adds are those of q.
Widened(q, new) ==
  IF new = "applied" /\ q \in Widening
  THEN [i \in Item |-> IF i \in Subjects[q] THEN scope[i] \union Recorded[q] ELSE scope[i]]
  ELSE scope

\* The TTL where all locks are held (D-095).
InTime(o) == deal[o].rows \cap due = {}

\* Past the TTL the transaction rolls back; else the answer event commits.
AnswerCommit(o, q) ==
  /\ deal[o].pc = "commit" /\ deal[o].batch = Null /\ deal[o].to # "withdrawn" /\ deal[o].rows = {q}
  /\ deal' = [deal EXCEPT ![o] = Idle]
  /\ IF InTime(o)
     THEN LET new == Outcome(q, deal[o].to) IN
          /\ Record([status EXCEPT ![q] = new],
                    IF new # "applied" THEN {} ELSE IF q \in Widening THEN Subjects[q] ELSE Closes[q])
          /\ scope' = Widened(q, new)
     ELSE UNCHANGED <<status, due, stale, scope>>
  /\ UNCHANGED <<batchOf, batch, decided, override, walled, trusted, rounds, queued, work, upsets>>

-----------------------------------------------------------------------------
(* A decision on a batch (record_batch_decision).                          *)

\* batch_questions: the open questions of b that are in time, locked.
DecideRows(o, b) ==
  /\ deal[o].pc = "idle" /\ ~RoleExclusive
  /\ LET open == OpenIn(b) \ due IN
     /\ open # {} /\ open \cap LockedRows = {}
     /\ deal' = [deal EXCEPT ![o] = [Idle EXCEPT !.pc = "commit", !.rows = open, !.batch = b]]
  /\ UNCHANGED <<rows, world, rounds, queued, work, upsets>>

\* With the batch row locked: those in S are approved, the others rejected.
\* insert_recorded_jobs does nothing when the key of the round is taken.
DecideCommit(o, S) ==
  /\ deal[o].pc = "commit" /\ deal[o].batch # Null
  /\ S \subseteq deal[o].rows
  /\ LET b == deal[o].batch
         job == <<b, rounds[b]>>
     IN /\ rounds[b] <= MaxRound
        /\ Record([q \in Question |-> IF q \in S THEN "approved"
                                      ELSE IF q \in deal[o].rows THEN "rejected" ELSE status[q]], {})
        /\ batch' = [batch EXCEPT ![b] = "decided"]
        /\ queued' = IF S = {} \/ job \in Unfinished THEN queued ELSE queued \union {job}
  /\ deal' = [deal EXCEPT ![o] = Idle]
  /\ UNCHANGED <<batchOf, world, rounds, work, upsets>>

-----------------------------------------------------------------------------
(* Withdrawal and expiry.                                                  *)

Running(b) == \E w \in Worker : work[w].pc # "idle" /\ work[w].job[1] = b

\* Refused as a whole while a job of one of their batches runs.
WithdrawRows(o, S) ==
  /\ deal[o].pc = "idle" /\ ~RoleExclusive
  /\ S # {} /\ S \cap LockedRows = {}
  /\ \A q \in S : status[q] \in Pending
  /\ \A q \in S : ~Running(batchOf[q])
  /\ deal' = [deal EXCEPT ![o] = [Idle EXCEPT !.pc = "commit", !.rows = S, !.to = "withdrawn"]]
  /\ UNCHANGED <<rows, world, rounds, queued, work, upsets>>

WithdrawCommit(o) ==
  /\ deal[o].pc = "commit" /\ deal[o].to = "withdrawn"
  /\ Record([q \in Question |-> IF q \in deal[o].rows THEN "withdrawn" ELSE status[q]], {})
  /\ deal' = [deal EXCEPT ![o] = Idle]
  /\ UNCHANGED <<batchOf, batch, world, rounds, queued, work, upsets>>

\* The clock passes expires_at of q.
PassTerm(q) ==
  /\ status[q] \in Pending /\ q \notin due
  /\ due' = due \union {q}
  /\ UNCHANGED <<status, batchOf, stale, batch, world, rounds, queued, work, deal, upsets>>

\* expire_due: SKIP LOCKED leaves the rows of other transactions to a later sweep.
ExpireDue ==
  LET gone == {q \in due : status[q] \in Pending /\ q \notin LockedRows} IN
  /\ gone # {}
  /\ Record([q \in Question |-> IF q \in gone THEN "expired" ELSE status[q]], {})
  /\ UNCHANGED <<batchOf, batch, world, rounds, queued, work, deal, upsets>>

-----------------------------------------------------------------------------
(* Roles and the release of accepted answers.                              *)

\* promotion_release: the pending questions that the librarian may apply after d.
Counted(d) ==
  IF d.role = 0 THEN {}
  ELSE {q \in Question \ Widening : /\ status[q] \in Applicable /\ q \notin due
                                    /\ \A p \in Recorded[q] : RoleAfter(d, p) > 0}

FaultyReleasable(S, role) ==
  {b \in Batch : /\ batch[b] = "decided" /\ \A j \in queued : j[1] # b
                 /\ \E q \in S \ Widening : batchOf[q] = b /\ status[q] = "accepted_pending"}

\* releasable: batches with an accepted answer among S whose projects all have a
\* role above observer, unless a job of the batch has not planned yet.
Releasable(S, role) ==
  {b \in Batch : /\ \A j \in queued : j[1] # b
                 /\ \E q \in S \ Widening : /\ batchOf[q] = b /\ status[q] = "accepted_pending"
                                            /\ \A p \in Touched(q) : role[p] > 0}

Released(bs) == queued \union {<<b, ByRelease>> : b \in bs}

\* record_role_decision: the owner confirms the questions that it counts under
\* the exclusive role order; rows keeps what was confirmed.
RoleCount(o, d) ==
  /\ deal[o].pc = "idle" /\ ~RoleShared /\ ~RoleExclusive
  /\ deal' = [deal EXCEPT ![o] = [Idle EXCEPT !.pc = "role", !.rows = Counted(d), !.decision = d]]
  /\ UNCHANGED <<rows, world, rounds, queued, work, upsets>>

RoleCommit(o) ==
  /\ deal[o].pc = "role"
  /\ LET d == deal[o].decision
         after == [p \in Project |-> RoleAfter(d, p)]
     IN /\ decided' = IF d.scope = Deployment THEN d.role ELSE decided
        /\ override' = IF d.scope = Deployment THEN override ELSE [override EXCEPT ![d.scope] = d.role]
        /\ queued' = IF d.role = 0 THEN queued ELSE Released(Releasable(Question, after))
  /\ deal' = [deal EXCEPT ![o] = Idle]
  /\ UNCHANGED <<rows, scope, walled, trusted, rounds, work, upsets>>

\* maybe_release looks at every question; a release_pending job at those that
\* name the items which a revision gave to other projects.
Release(S) ==
  /\ Configured > 0 /\ ~RoleExclusive
  /\ LET bs == Releasable(S, [p \in Project |-> EffectiveRole(p)]) IN
     /\ bs # {}
     /\ queued' = Released(bs)
  /\ UNCHANGED <<rows, world, rounds, work, deal, upsets>>

Sweep == Release(Question)

ReleasePending(i) == Release({q \in Question : i \in Subjects[q]})

-----------------------------------------------------------------------------
(* The world: revisions by others, policy, and the trust of a device.      *)

Revise(i, s) ==
  /\ i \notin LockedItems /\ Upset
  /\ Record(status, {i})
  /\ scope' = [scope EXCEPT ![i] = s]
  /\ UNCHANGED <<batchOf, batch, decided, override, walled, trusted, rounds, queued, work, deal>>

\* The policy rows are read FOR SHARE.
SetPolicy ==
  /\ Held = {} /\ Upset
  /\ walled' = ~walled
  /\ UNCHANGED <<rows, decided, override, scope, trusted, rounds, queued, work, deal>>

\* The device-access lock is held from the question rows to the commit.
SetTrust ==
  /\ Upset /\ \A w \in Worker : ~Applying(w)
  /\ trusted' = ~trusted
  /\ UNCHANGED <<rows, decided, override, scope, walled, rounds, queued, work, deal>>

-----------------------------------------------------------------------------
(* The apply_batch job (tasks/apply_batch.py, LibrarianWorker.apply).      *)

Become(w, r) == work' = [work EXCEPT ![w] = r]

\* A librarian that is configured as an observer leases no apply_batch job.
Lease(w, j) ==
  /\ Configured > 0
  /\ work[w].pc = "idle" /\ j \in queued
  /\ queued' = queued \ {j}
  /\ Become(w, [Resting EXCEPT !.pc = "leased", !.job = j])
  /\ UNCHANGED <<rows, world, rounds, deal, upsets>>

\* ApplyBatch.plan: a snapshot, taken in a transaction of its own.
Plan(w) ==
  /\ work[w].pc = "leased"
  /\ Become(w, [work[w] EXCEPT !.pc = "planned",
                               !.plan = {q \in Question : batchOf[q] = work[w].job[1] /\ status[q] \in Applicable}])
  /\ UNCHANGED <<rows, world, rounds, queued, deal, upsets>>

FaultyLive(S) == S

\* _lock_approved: a question decided otherwise since the plan is left alone.
Live(S) == {q \in S : status[q] \in Applicable}

\* Role order shared, the devices, the question rows; then _split_by_role.
ApplyRows(w) ==
  /\ work[w].pc = "planned" /\ work[w].plan # {}
  /\ ~RoleExclusive /\ work[w].plan \cap LockedRows = {}
  /\ LET live == Live(work[w].plan) \ due
         ready == {q \in live : AboveObserver(q)}
     IN Become(w, [work[w] EXCEPT !.pc = IF ready = {} THEN "commit" ELSE "locks", !.ready = ready,
                                  !.gone = Live(work[w].plan) \cap due])
  /\ UNCHANGED <<rows, world, rounds, queued, deal, upsets>>

\* The item locks and the policy rows, then the TTL on a fresh clock.
ApplyLocks(w) ==
  /\ work[w].pc = "locks"
  /\ \A q \in work[w].ready \ Widening : Subjects[q] \cap LockedItems = {}
  /\ Become(w, [work[w] EXCEPT !.pc = "commit", !.gone = @ \union ((work[w].ready \ Widening) \cap due)])
  /\ UNCHANGED <<rows, world, rounds, queued, deal, upsets>>

FaultyExpired(w) == work[w].gone

\* What has expired when every lock is held, the batch row included (D-095).
Expired(w) == work[w].gone \union (work[w].ready \cap due)

\* Neither applied nor expired: its role was denied.
Deferred(w) == Live(work[w].plan) \ (work[w].gone \union work[w].ready)

FaultyKept(S) == S

\* Of the questions in S, those that apply: an inverse of one already kept conflicts.
Kept(S) ==
  CHOOSE K \in SUBSET S : \A q \in S :
    q \in K <=> ~\E r \in K : Rank[r] < Rank[q] /\ (<<q, r>> \in Clash \/ <<r, q>> \in Clash)

FaultyFresh(S) == S

\* is_stale: an assessed head has moved on since the proposal.
Fresh(S) == S \ stale

\* Policy, staleness, the authority of the device, conflicts.
Judged(w) == {q \in work[w].ready \ (Expired(w) \union Widening) : ~Blocked(q)}

Sound(w) == Fresh(Judged(w))

Applied(w) == IF trusted THEN Kept(Sound(w)) ELSE {}

\* The status of every question once the job of w has committed.
After(w) ==
  [q \in Question |->
    CASE q \in Expired(w) -> "expired"
      [] q \in Deferred(w) -> IF status[q] = "approved" THEN "open" ELSE status[q]
      [] q \in Applied(w) -> "applied"
      [] q \in Judged(w) \ Applied(w) -> IF q \in Sound(w) /\ ~trusted THEN "authority_lost" ELSE "superseded"
      [] q \in work[w].ready \ (Expired(w) \union Widening \union Judged(w)) -> "authority_lost"
      [] OTHER -> status[q]]

FaultyBatchAfter(b, new) == "applied"

\* _batch_after_apply, under the lock of the batch row.
BatchAfter(b, new) ==
  LET left == {new[q] : q \in {r \in Question : batchOf[r] = b}} IN
  IF "open" \in left THEN IF batch[b] = "decided" THEN "ready" ELSE batch[b]
  ELSE IF left \cap Applicable # {} THEN batch[b] ELSE "applied"

\* One more recorded apply_batch event of b; MaxRound + 1 stands for more.
Round(b) == [rounds EXCEPT ![b] = IF @ > MaxRound THEN @ ELSE @ + 1]

ApplyCommit(w) ==
  /\ work[w].pc = "commit"
  /\ LET b == work[w].job[1] IN
     /\ Record(After(w), UNION {Closes[q] : q \in Applied(w)})
     /\ batch' = [batch EXCEPT ![b] = BatchAfter(b, After(w))]
     /\ rounds' = Round(b)
  /\ Become(w, Resting)
  /\ UNCHANGED <<batchOf, world, queued, deal, upsets>>

\* The plan found nothing: the event is recorded, nothing changes.
NotApproved(w) ==
  /\ work[w].pc = "planned" /\ work[w].plan = {}
  /\ ~RoleExclusive
  /\ rounds' = Round(work[w].job[1])
  /\ Become(w, Resting)
  /\ UNCHANGED <<rows, world, queued, deal, upsets>>

\* The worker dies, its transaction is rolled back and the lease runs out.
Crash(w) ==
  /\ work[w].pc # "idle" /\ Upset
  /\ queued' = queued \union {work[w].job}
  /\ Become(w, Resting)
  /\ UNCHANGED <<rows, world, rounds, deal>>

-----------------------------------------------------------------------------
WorkerStep(w) == Plan(w) \/ ApplyRows(w) \/ ApplyLocks(w) \/ ApplyCommit(w) \/ NotApproved(w)

OwnerStep(o) ==
  \/ AnswerLocks(o) \/ (\E q \in Question : AnswerCommit(o, q))
  \/ (\E S \in SUBSET Question : DecideCommit(o, S)) \/ WithdrawCommit(o) \/ RoleCommit(o)

OwnerBegin(o) ==
  \/ \E q \in Question : AnswerRow(o, q)
  \/ \E b \in Batch : DecideRows(o, b)
  \/ \E S \in SUBSET Question : WithdrawRows(o, S)
  \/ \E d \in Decision : RoleCount(o, d)

World ==
  \/ \E q \in Question : PassTerm(q) \/ \E old \in BOOLEAN : Propose(q, old)
  \/ \E i \in Item : ReleasePending(i) \/ \E s \in Scope : Revise(i, s)
  \/ ExpireDue \/ Sweep \/ SetPolicy \/ SetTrust

Next ==
  \/ \E w \in Worker : WorkerStep(w) \/ Crash(w) \/ \E j \in Job : Lease(w, j)
  \/ \E o \in Owner : OwnerBegin(o) \/ OwnerStep(o)
  \/ World

SafeSpec == Init /\ [][Next]_vars

\* A transaction that began goes on, the queue is served and the sweeper
\* returns; PostgreSQL grants a lock in the order of the requests, so whoever
\* waits for the role order gets it between two role decisions.  Nothing makes
\* owners answer or the clock pass a term.
Spec ==
  /\ SafeSpec
  /\ \A w \in Worker : SF_vars(WorkerStep(w)) /\ WF_vars(\E j \in Job : Lease(w, j))
  /\ \A o \in Owner : WF_vars(OwnerStep(o))
  /\ SF_vars(Sweep)

-----------------------------------------------------------------------------
(* Properties.                                                             *)

WorkState ==
  [pc : {"idle", "leased", "planned", "locks", "commit"}, job : Job \union {Null},
   plan : SUBSET Question, ready : SUBSET Question, gone : SUBSET Question]

DealState ==
  [pc : {"idle", "locks", "commit", "role"}, rows : SUBSET Question,
   to : {"open", "rejected", "answered", "applied", "accepted_pending", "withdrawn"},
   batch : Batch \union {Null}, decision : Decision \union {Null}]

\* Every variable has its type, and whoever has a row has a batch.
TypeOK ==
  /\ status \in [Question -> {"unasked"} \union Pending \union Final]
  /\ batchOf \in [Question -> Batch \union {Null}]
  /\ \A q \in Question : batchOf[q] = Null <=> status[q] \in {"unasked", "dropped", "direct"}
  /\ due \subseteq Question /\ stale \subseteq Question
  /\ batch \in [Batch -> {"none", "open", "ready", "decided", "applied"}]
  /\ rounds \in [Batch -> 0..(MaxRound + 1)]
  /\ queued \subseteq Job
  /\ decided \in Role /\ override \in [Project -> Role]
  /\ scope \in [Item -> SUBSET Project]
  /\ walled \in BOOLEAN /\ trusted \in BOOLEAN
  /\ work \in [Worker -> WorkState] /\ deal \in [Owner -> DealState]
  /\ upsets \in 0..MaxUpset

\* This step applies the proposal of q.
Takes(q) == status[q] # "applied" /\ status'[q] = "applied"

\* D-095: nothing is applied past its 30 days, however long the item, policy or
\* batch row locks were waited for.
AppliedInTime == [][\A q \in Question : Takes(q) => q \notin due]_vars

\* G-Q3: what is applied was judged on the heads that still stand; a revision
\* between the review and the commit supersedes the question.
AppliedOnHeads == [][\A q \in Question : Takes(q) => q \notin stale]_vars

\* D-074: when a question is applied, every project that it touches at that
\* moment has a role above observer and policy lets them meet, although roles and
\* projects were read before the item locks.
AppliedUnderRole == [][\A q \in Question : Takes(q) => AboveObserver(q) /\ ~Blocked(q)]_vars

\* Two questions that supersede each other are not applied by one job.
NeverBothWays == [][\A pair \in Clash : ~(Takes(pair[1]) /\ Takes(pair[2]))]_vars

\* D-244: whatever a role decision newly lets the librarian apply was in the
\* count that the owner confirmed.
PromotionIsConfirmed ==
  [][\A o \in Owner, q \in Question \ Widening :
       /\ deal[o].pc = "role" /\ deal'[o].pc = "idle"
       /\ status[q] \in Applicable /\ q \notin due
       /\ ~AboveObserver(q) /\ AboveObserver(q)'
       => q \in deal[o].rows]_vars

\* A batch that says applied has no question left that waits for anyone.
AppliedBatchIsDone ==
  \A q \in Question : status[q] \in Pending => batch[batchOf[q]] # "applied"

\* An accepted answer whose projects all stay above observer is applied or ends
\* otherwise: the sweeper finds it, a job runs, crashes or not.
AcceptedEnds ==
  \A q \in Question \ Widening :
    status[q] = "accepted_pending" /\ AboveObserver(q)
      ~> status[q] # "accepted_pending" \/ ~AboveObserver(q)

\* roles.py: "when anything is approved, the last one enqueues the batch's
\* apply_batch job": an approved question has a job that will read it.
ApprovedHasAJob ==
  \A q \in Question \ Widening : status[q] = "approved" =>
    \/ \E j \in queued : j[1] = batchOf[q]
    \/ \E w \in Worker : /\ work[w].pc # "idle" /\ work[w].job[1] = batchOf[q]
                         /\ work[w].pc = "leased" \/ q \in work[w].plan

\* An owner's accept that is being applied is consent, until it rolls back.
Consenting(q) ==
  \/ status[q] \in Applicable
  \/ status[q] = "open" /\ \E o \in Owner :
       deal[o].pc \in {"locks", "commit"} /\ deal[o].to = "applied" /\ q \in deal[o].rows

Standing ==
  [q \in Question |->
    CASE status[q] = "unasked" -> "unasked"
      [] status[q] \in {"applied", "direct"} -> "effective"
      [] status[q] \in Final \ {"applied", "direct"} -> "closed"
      [] OTHER -> IF Consenting(q) THEN "consented" ELSE "asked"]

Promise == INSTANCE QuestionPromise WITH standing <- Standing

\* The detailed life keeps the promise: effect only under consent, at most once,
\* and no end is undone by a late job, a sweep or a second owner.
KeepsPromise == Promise!Spec
-----------------------------------------------------------------------------
(* The inductive invariant behind the safety properties.                   *)

Sharing(o) == deal[o].pc \in {"locks", "commit"}

\* Two transactions never hold the row of one question.
RowsApart ==
  /\ \A v, w \in Worker : v # w /\ Applying(v) /\ Applying(w) => work[v].plan \cap work[w].plan = {}
  /\ \A w \in Worker, o \in Owner : Applying(w) /\ Sharing(o) => work[w].plan \cap deal[o].rows = {}
  /\ \A o, p \in Owner : o # p /\ Sharing(o) /\ Sharing(p) => deal[o].rows \cap deal[p].rows = {}

\* A role decision has the role order to itself.
RoleAlone ==
  \A o \in Owner : deal[o].pc = "role" =>
    /\ \A w \in Worker : ~Applying(w)
    /\ \A p \in Owner : p = o \/ deal[p].pc = "idle"

\* The role checked before the item locks still stands, or a head has moved.
Sure(q) == AboveObserver(q) \/ q \in stale

\* What a job has read of its questions stays true under their row locks.
JobFits(w) ==
  /\ work[w].pc # "idle" => work[w].job \in Job
  /\ Applying(w) => /\ work[w].ready \union work[w].gone \subseteq Live(work[w].plan)
                    /\ \A q \in work[w].ready : Sure(q)

\* So does what an owner's transaction has read, and what an owner confirms.
DealFits(o) ==
  /\ Sharing(o) => /\ \A q \in deal[o].rows : status[q] \in Pending
                   /\ deal[o].to = "applied" => \A q \in deal[o].rows : Sure(q)
  /\ deal[o].pc = "role" => /\ deal[o].decision \in Decision
                            /\ Counted(deal[o].decision) \subseteq deal[o].rows

IInv ==
  /\ TypeOK
  /\ RowsApart
  /\ RoleAlone
  /\ \A w \in Worker : JobFits(w)
  /\ \A o \in Owner : DealFits(o)
  /\ AppliedBatchIsDone
=============================================================================
