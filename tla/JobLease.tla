------------------------------ MODULE JobLease ------------------------------
(***************************************************************************)
(* The outbox: the rows of `jobs`, leased by the slots of several          *)
(* librarian processes (worker/lease.py, LibrarianWorker in                *)
(* librarian/worker.py) and the events that record how each job ended.     *)
(*                                                                         *)
(* One database transaction is one action.  Clocks are not modelled: a     *)
(* row knows whether its run_after has come (due) and whether its lease    *)
(* has run out (expired).  A lease token is a uuid4: a value that no row   *)
(* and no process holds when it is drawn.                                  *)
(***************************************************************************)
EXTENDS Naturals, Sequences, FiniteSets

CONSTANTS
  Job,          \* dedupe keys
  Proc,         \* librarian processes
  Slot,         \* job slots of all processes
  ProcOf,       \* the process a slot belongs to
  Token,        \* lease tokens
  Null,
  Priority,     \* priority of a job, the smallest value first
  UnknownOp,    \* jobs whose payload names no handler
  ApplyOp,      \* jobs whose op is apply_batch
  Observer,     \* processes configured with the role observer
  MaxAttempts,  \* lease.MAX_ATTEMPTS
  MaxFaults     \* bound on crashes, rebuilds, late renewals, lost replies and
                \* failures of the database

ASSUME ConstantsAssumption ==
  /\ ProcOf \in [Slot -> Proc]
  /\ Priority \in [Job -> Nat]
  /\ UnknownOp \subseteq Job
  /\ ApplyOp \subseteq Job
  /\ Observer \subseteq Proc
  /\ Null \notin Token
  /\ Null \notin Job
  /\ Null \notin Slot
  /\ MaxAttempts \in Nat \ {0}
  /\ MaxFaults \in Nat

VARIABLES
  row,       \* the jobs table
  log,       \* the events of each job after its enqueue, in event-id order
  slot,      \* the LeasedJob each slot works on, and how far it got
  lost,      \* the lost event of the slot's watch
  watched,   \* _LeaseRenewer._jobs of each process: at most one slot per job
  paused,    \* processes with a pause_reason: they lease nothing
  faults

vars == <<row, log, slot, lost, watched, paused, faults>>

Status == {"absent", "queued", "running", "done", "failed"}
Terminal == {"done", "failed"}

Row == [status : Status, attempts : Nat, token : Token \union {Null},
        due : BOOLEAN, expired : BOOLEAN]

Event == [kind : {"deferred", "done", "failed"}, attempts : Nat]

LeasedJob == [pc : {"idle", "plan", "apply", "handback", "backoff", "fail"},
              job : Job \union {Null}, token : Token \union {Null},
              attempts : Nat]

Idle == [pc |-> "idle", job |-> Null, token |-> Null, attempts |-> 0]

Unleased(status, n) ==
  [status |-> status, attempts |-> n, token |-> Null, due |-> FALSE, expired |-> FALSE]

\* A key that was never enqueued has no row.
NoRow == Unleased("absent", 0)

Init ==
  /\ row = [j \in Job |-> NoRow]
  /\ log = [j \in Job |-> <<>>]
  /\ slot = [s \in Slot |-> Idle]
  /\ lost = [s \in Slot |-> FALSE]
  /\ watched = [p \in Proc |-> [j \in Job |-> Null]]
  /\ paused = {}
  /\ faults = 0

-----------------------------------------------------------------------------
(* The statements of lease.py and worker.py, on one row.                   *)

\* Seeded faults (operators named Faulty...) stand beside the definition they
\* replace when the runs are tested; nothing else uses them.

FaultyHeldByStatus(s) == row[slot[s].job].status = "running"

\* The WHERE clause of every update of a leased row: the token of the slot's
\* lease is still the row's token.
Held(s) ==
  LET r == row[slot[s].job] IN
  r.token = slot[s].token /\ r.status = "running"

Leased(r, t) ==
  [status |-> "running", attempts |-> r.attempts + 1, token |-> t,
   due |-> FALSE, expired |-> FALSE]

FaultyDoneKeepsToken(r) == [r EXCEPT !.status = "done"]

Done(r) == Unleased("done", r.attempts)

FaultyHandedBackResets(r) == Unleased("queued", 0)

\* Systemic hand-back: the attempt is not consumed.
HandedBack(r) ==
  Unleased("queued", IF r.attempts > 0 THEN r.attempts - 1 ELSE 0)

\* Back-off, or the permanent failure of an exhausted job.
BackedOff(r, permanent) ==
  Unleased(IF permanent THEN "failed" ELSE "queued", r.attempts)

\* The event's request id: one per back-off attempt, and ONE that the
\* completion and the permanent failure share (0 here).
RequestId(e) == IF e.kind = "deferred" THEN e.attempts ELSE 0

Recorded(j, e) == \E i \in DOMAIN log[j] : RequestId(log[j][i]) = RequestId(e)

\* INSERT ... ON CONFLICT DO NOTHING
Insert(j, e) ==
  IF Recorded(j, e) THEN log ELSE [log EXCEPT ![j] = Append(@, e)]

FaultyReadyQueuedOnly(j) == row[j].status = "queued" /\ row[j].due

Ready(j) ==
  \/ row[j].status = "queued" /\ row[j].due
  \/ row[j].status = "running" /\ row[j].expired

\* An observer can never apply: it does not even lease an apply_batch job.
Leasable(s, j) == ~(j \in ApplyOp /\ ProcOf[s] \in Observer)

Candidate(s, j) == Ready(j) /\ Leasable(s, j)

FreshToken(t) ==
  /\ \A j \in Job : row[j].token # t
  /\ \A s \in Slot : slot[s].token # t

\* The uuid4 of a lease.  Tokens are only compared, so it does not matter which
\* of the fresh ones it is.
NewToken == CHOOSE t \in Token : FreshToken(t)

\* Leaving `async with self._renewer.watch(job)`: the entry is popped by job
\* id, whichever slot put it there.
Unwatch(s) ==
  IF slot[s].job \in UnknownOp THEN watched
  ELSE [watched EXCEPT ![ProcOf[s]][slot[s].job] = Null]

Release(s) ==
  /\ slot' = [slot EXCEPT ![s] = Idle]
  /\ lost' = [lost EXCEPT ![s] = FALSE]
  /\ watched' = Unwatch(s)

GoTo(s, pc) ==
  /\ slot' = [slot EXCEPT ![s].pc = pc]
  /\ UNCHANGED <<lost, watched>>

Fault == faults < MaxFaults /\ faults' = faults + 1

-----------------------------------------------------------------------------
(* Actions.                                                                *)

\* The job row and the event that records it are one transaction; a key
\* enqueued before is left alone (ON CONFLICT (dedupe_key) DO NOTHING).
Enqueue(j) ==
  /\ row[j].status = "absent"
  /\ \E due \in BOOLEAN :
       row' = [row EXCEPT ![j] = [Unleased("queued", 0) EXCEPT !.due = due]]
  /\ UNCHANGED <<log, slot, lost, watched, paused, faults>>

\* run_after comes.
BecomeDue(j) ==
  /\ row[j].status = "queued" /\ ~row[j].due
  /\ row' = [row EXCEPT ![j].due = TRUE]
  /\ UNCHANGED <<log, slot, lost, watched, paused, faults>>

\* The pause is over.
Resume(p) ==
  /\ p \in paused
  /\ paused' = paused \ {p}
  /\ UNCHANGED <<row, log, slot, lost, watched, faults>>

\* lease_one, then the start of process: the renewer watches the job.  A
\* job without a handler is failed at once and never watched.
Lease(s) ==
  /\ slot[s].pc = "idle"
  /\ ProcOf[s] \notin paused
  /\ \E t \in Token : FreshToken(t)
  /\ \E j \in Job :
       /\ Candidate(s, j)
       /\ \A k \in Job : Candidate(s, k) => Priority[j] <= Priority[k]
       /\ row' = [row EXCEPT ![j] = Leased(@, NewToken)]
       /\ slot' = [slot EXCEPT ![s] =
                     [pc |-> IF j \in UnknownOp THEN "fail" ELSE "plan",
                      job |-> j, token |-> NewToken, attempts |-> row[j].attempts + 1]]
       /\ lost' = [lost EXCEPT ![s] = FALSE]
       /\ watched' = IF j \in UnknownOp THEN watched
                     ELSE [watched EXCEPT ![ProcOf[s]][j] = s]
  /\ UNCHANGED <<log, paused, faults>>

\* The plan returned.  With the lost event set nothing is applied.
PlanReturns(s) ==
  /\ slot[s].pc = "plan"
  /\ IF lost[s] THEN Release(s) ELSE GoTo(s, "apply")
  /\ UNCHANGED <<row, log, paused, faults>>

\* The plan raised: a systemic cause (provider outage, budget used up, inputs
\* not ready, LLM off), as often as the cause lasts ...
PlanRaisesSystemic(s) ==
  /\ slot[s].pc = "plan"
  /\ GoTo(s, "handback")
  /\ UNCHANGED <<row, log, paused, faults>>

\* ... or the call ceiling of the lineage, or anything else.
PlanRaises(s) ==
  /\ slot[s].pc = "plan"
  /\ \E pc \in {"fail", "backoff"} : GoTo(s, pc)
  /\ UNCHANGED <<row, log, paused, faults>>

FaultyCommitEventFirst(s) ==
  LET j == slot[s].job
      e == [kind |-> "done", attempts |-> slot[s].attempts]
  IN /\ row' = IF Held(s) THEN [row EXCEPT ![j] = Done(@)] ELSE row
     /\ log' = Insert(j, e)

\* The one transaction that applies the plan, up to its last statement.
Commit(s) ==
  LET j == slot[s].job
      e == [kind |-> "done", attempts |-> slot[s].attempts]
  IN /\ row' = IF Held(s) THEN [row EXCEPT ![j] = Done(@)] ELSE row
     /\ log' = IF Held(s) THEN Insert(j, e) ELSE log

\* apply: event, mutations and the fenced mark_done, all or nothing.  If the
\* event exists already (_Duplicate) only mark_done runs, fenced as well.
Apply(s) ==
  /\ slot[s].pc = "apply"
  /\ Commit(s)
  /\ Release(s)
  /\ UNCHANGED <<paused, faults>>

\* The transaction commits but the reply is lost: the slot sees an exception
\* and goes on to back the job off.
ApplyUnacknowledged(s) ==
  /\ slot[s].pc = "apply"
  /\ Commit(s)
  /\ GoTo(s, "backoff")
  /\ Fault
  /\ UNCHANGED paused

\* The transaction raises and rolls back (a connection that the envelope
\* refuses is a systemic cause).
ApplyRaises(s) ==
  /\ slot[s].pc = "apply"
  /\ \E pc \in {"backoff", "handback"} : GoTo(s, pc)
  /\ Fault
  /\ UNCHANGED <<row, log, paused>>

\* defer with release_s: the job row only, no event.  A budget used up pauses
\* the process as well.
HandBack(s) ==
  /\ slot[s].pc = "handback"
  /\ row' = IF Held(s) THEN [row EXCEPT ![slot[s].job] = HandedBack(@)] ELSE row
  /\ Release(s)
  /\ paused' \in {paused, paused \union {ProcOf[s]}}
  /\ UNCHANGED <<log, faults>>

\* max_attempts is 1 for a failure that no retry can mend.
Permanent(s) ==
  slot[s].attempts >= (IF slot[s].pc = "fail" THEN 1 ELSE MaxAttempts)

\* defer without release_s: row and event in one transaction.  The call ceiling
\* of a lineage fails the job and pauses the process.
BackOff(s) ==
  LET j == slot[s].job
      e == [kind |-> IF Permanent(s) THEN "failed" ELSE "deferred",
            attempts |-> row[j].attempts]
  IN /\ slot[s].pc \in {"backoff", "fail"}
     /\ row' = IF Held(s) THEN [row EXCEPT ![j] = BackedOff(@, Permanent(s))] ELSE row
     /\ log' = IF Held(s) THEN Insert(j, e) ELSE log
     /\ Release(s)
     /\ paused' = IF slot[s].pc = "fail" /\ j \notin UnknownOp
                  THEN paused \union {ProcOf[s]} ELSE paused
     /\ UNCHANGED faults

\* defer itself fails (database down): _guarded logs it and the slot is free
\* again; the row waits for its lease to run out.
DeferRaises(s) ==
  /\ slot[s].pc \in {"handback", "backoff", "fail"}
  /\ Release(s)
  /\ Fault
  /\ UNCHANGED <<row, log, paused>>

\* One statement renews every watched lease; a watched slot whose row no
\* longer matches gets its lost event.
Renew(p) ==
  LET W == {j \in Job : watched[p][j] # Null}
      Renewed == {j \in W : Held(watched[p][j])}
  IN /\ W # {}
     /\ row' = [j \in Job |->
                  IF j \in Renewed THEN [row[j] EXCEPT !.expired = FALSE] ELSE row[j]]
     /\ lost' = [s \in Slot |->
                  lost[s] \/ \E j \in W \ Renewed : watched[p][j] = s]
     /\ UNCHANGED <<log, slot, watched, paused, faults>>

AtWork(j) == \E s \in Slot : slot[s].job = j /\ Held(s)

RunOut(j) ==
  /\ row[j].status = "running" /\ ~row[j].expired
  /\ row' = [row EXCEPT ![j].expired = TRUE]
  /\ UNCHANGED <<log, slot, lost, watched, paused>>

\* lease_until passes for a lease nobody works under any more ...
ExpireAbandoned(j) == ~AtWork(j) /\ RunOut(j) /\ UNCHANGED faults

\* ... and while a slot still does: no renewal came for a whole lease.
ExpireHeld(j) == AtWork(j) /\ RunOut(j) /\ Fault

\* The process dies with everything it keeps in memory; it is restarted.
Crash(p) ==
  /\ \E s \in Slot : ProcOf[s] = p /\ slot[s].pc # "idle"
  /\ slot' = [s \in Slot |-> IF ProcOf[s] = p THEN Idle ELSE slot[s]]
  /\ lost' = [s \in Slot |-> IF ProcOf[s] = p THEN FALSE ELSE lost[s]]
  /\ watched' = [watched EXCEPT ![p] = [j \in Job |-> Null]]
  /\ paused' = paused \ {p}
  /\ Fault
  /\ UNCHANGED <<row, log>>

\* What a replay of the job's events leaves in its row: the last recorded
\* back-off or end overwrites status, attempts and run_after.
Replayed(j) ==
  LET n == Len(log[j]) IN
  IF row[j].status = "absent" THEN NoRow
  ELSE IF n = 0 THEN [Unleased("queued", 0) EXCEPT !.due = TRUE]
  ELSE Unleased(IF log[j][n].kind = "deferred" THEN "queued" ELSE log[j][n].kind,
                log[j][n].attempts)

\* rebuild_projections.  Nothing stops the workers meanwhile: TRUNCATE waits
\* for the transactions on jobs to end, and a slot at work finds its lease gone.
Rebuild ==
  /\ row' = [j \in Job |-> Replayed(j)]
  /\ row' # row
  /\ Fault
  /\ UNCHANGED <<log, slot, lost, watched, paused>>

-----------------------------------------------------------------------------
SlotStep(s) ==
  \/ PlanReturns(s) \/ PlanRaisesSystemic(s) \/ PlanRaises(s)
  \/ Apply(s) \/ ApplyUnacknowledged(s) \/ ApplyRaises(s)
  \/ HandBack(s) \/ BackOff(s) \/ DeferRaises(s)

Next ==
  \/ \E j \in Job : Enqueue(j) \/ BecomeDue(j) \/ ExpireAbandoned(j) \/ ExpireHeld(j)
  \/ \E s \in Slot : Lease(s) \/ SlotStep(s)
  \/ \E p \in Proc : Renew(p) \/ Crash(p) \/ Resume(p)
  \/ Rebuild

SafeSpec == Init /\ [][Next]_vars

\* A plan of the job ends with an answer, good or bad, of its own.
Planned(j) ==
  \E s \in Slot : slot[s].job = j /\ (PlanReturns(s) \/ PlanRaises(s))

\* Every slot keeps asking for work (run_forever), every plan ends (the
\* provider chain has a deadline), pauses end and clocks pass.  A lease that
\* is being renewed need not run out: only an abandoned lease is forced to.
\* An outage ends: a job that is planned again and again is not handed back
\* every time.
Fairness ==
  /\ \A s \in Slot : WF_vars(Lease(s)) /\ WF_vars(SlotStep(s))
  /\ \A j \in Job : WF_vars(BecomeDue(j)) /\ WF_vars(ExpireAbandoned(j))
  /\ \A p \in Proc : WF_vars(Resume(p))
  /\ \A j \in Job : SF_vars(Planned(j))

Spec == SafeSpec /\ Fairness

-----------------------------------------------------------------------------
(* Properties.                                                             *)

\* Types; a row carries a token exactly while it is running, and a slot
\* carries a job and a token exactly while it is busy.
TypeOK ==
  /\ row \in [Job -> Row]
  /\ log \in [Job -> Seq(Event)]
  /\ slot \in [Slot -> LeasedJob]
  /\ lost \in [Slot -> BOOLEAN]
  /\ watched \in [Proc -> [Job -> Slot \union {Null}]]
  /\ paused \subseteq Proc
  /\ faults \in Nat
  /\ \A j \in Job : row[j].token # Null <=> row[j].status = "running"
  /\ \A s \in Slot : /\ slot[s].pc # "idle" <=> slot[s].job # Null
                     /\ slot[s].pc # "idle" <=> slot[s].token # Null

\* "A job has exactly one terminal event" (worker.py, defer): whatever the
\* takeovers, lost replies and crashes, no job records two ends, and nothing
\* is recorded after the end.
OneEnd ==
  \A j \in Job : \A i \in DOMAIN log[j] :
    log[j][i].kind \in Terminal => i = Len(log[j])

\* The jobs table and the event log agree: a row is done (failed) exactly
\* when a replay of the events says done (failed), so a rebuild neither
\* loses an end nor invents one.
RowMatchesLog ==
  \A j \in Job :
    row[j].status \in Terminal \/ Replayed(j).status \in Terminal
      => row[j].status = Replayed(j).status

\* At most one slot, of all processes, can still commit for a job.
OneHolder ==
  \A s1, s2 \in Slot :
    /\ slot[s1].pc # "idle" /\ slot[s2].pc # "idle"
    /\ slot[s1].job = slot[s2].job
    /\ Held(s1) /\ Held(s2)
    => s1 = s2

\* The request ids defer:<key>:a<n> never collide, hand-backs, crashes and
\* rebuilds included: a back-off that commits always finds its id unused, so
\* its event is never dropped and the attempt count survives a rebuild.
BackOffIsRecorded ==
  \A s \in Slot :
    slot[s].pc \in {"backoff", "fail"} /\ Held(s) =>
      \A i \in DOMAIN log[slot[s].job] :
        /\ log[slot[s].job][i].kind = "deferred"
        /\ log[slot[s].job][i].attempts < row[slot[s].job].attempts

\* "At most MAX_ATTEMPTS - 1" back-off events per job (worker.py, defer).
BoundedBackOffs ==
  \A j \in Job :
    Cardinality({i \in DOMAIN log[j] : log[j][i].kind = "deferred"}) < MaxAttempts

\* An ended job stays ended: no lease, takeover or rebuild revives it.
EndIsFinal ==
  [][\A j \in Job : row[j].status \in Terminal => row'[j].status = row[j].status]_vars

\* What makes these invariants inductive.  A slot whose token is in a row was
\* the last to lease that row and knows its attempt count; no two busy slots
\* have the same token ...
Fencing ==
  /\ \A s \in Slot, j \in Job :
       slot[s].pc # "idle" /\ row[j].token = slot[s].token
         => slot[s].job = j /\ slot[s].attempts = row[j].attempts
  /\ \A s, u \in Slot :
       slot[s].pc # "idle" /\ slot[s].token = slot[u].token => s = u

\* ... and the attempt counts in a job's events rise, stay below the row's
\* while it is running, and an end is the last event and the row's status.
JobHistory(j) ==
  LET n == Len(log[j]) IN
  /\ \A i \in 1..n :
       /\ i <= log[j][i].attempts
       /\ log[j][i].attempts <= row[j].attempts
       /\ row[j].status = "running" => log[j][i].attempts < row[j].attempts
       /\ \A k \in 1..n : i < k => log[j][i].attempts < log[j][k].attempts
       /\ log[j][i].kind = "deferred" => log[j][i].attempts < MaxAttempts
       /\ log[j][i].kind \in Terminal => i = n /\ row[j].status = log[j][i].kind
  /\ row[j].status \in Terminal => n > 0 /\ log[j][n].kind = row[j].status
  /\ row[j].status = "absent" => n = 0
  /\ row[j].status = "running" => row[j].attempts > 0

History == \A j \in Job : JobHistory(j)

IInv == TypeOK /\ Fencing /\ History

\* The event log, read as the promise of JobPromise.
PromiseOutcome ==
  [j \in Job |->
    IF row[j].status = "absent" THEN "absent"
    ELSE IF log[j] # <<>> /\ log[j][Len(log[j])].kind \in Terminal
    THEN log[j][Len(log[j])].kind
    ELSE "pending"]

\* The jobs some process may lease: apply_batch jobs wait, untouched, when all
\* processes are observers.
Owed == {j \in Job : \E s \in Slot : Leasable(s, j)}

Promise == INSTANCE JobPromise WITH outcome <- PromiseOutcome

\* The queue implements JobPromise, liveness included: an enqueued job that a
\* process may lease ends, however often it is handed back, whatever process
\* pauses, and although an observer passes the apply_batch jobs by.
KeepsPromise == Promise!Spec
=============================================================================
