# HLMemo: a verification project

HLMemo is a self-hosted long-term memory for coding agents: a FastAPI / MCP server over PostgreSQL that
stores bitemporal items, an embed worker that computes vectors, and a *librarian*, a worker that asks
language models to review the memory and that applies what it finds, directly or after approval. Every
change is an event; the tables are projections that a replay of the events can build again.

This directory holds TLA+ models of the parts of HLMemo that are hard to test, the TLC configurations that
check them on small instances, and theorems about them that TLAPS checks for every value of the constants.
Paths in this file are relative to `src/src/hlmemo/`.

## 1. Inventory

| Part | Files | State it keeps | Operations | How it interacts | What is hard |
|---|---|---|---|---|---|
| Job queue and leases | `worker/lease.py`, `librarian/worker.py`, `librarian/jobs.py` | rows of `jobs` (status, attempts, lease token, lease end, run_after); the renewer's table in each process; the slots' `LeasedJob`s | enqueue, lease, renew, apply, hand back, back off, fail, rebuild | enqueue by the write path and by other jobs; takes plans from the tasks; writes events | take-overs, a reply lost after a commit, two slots of one process with the same job, request ids reused after a hand-back, rebuild from events |
| Spend guard | `librarian/budget.py` | `llm_budget` rows (spent, reserved, cap) per hour, day, month; `llm_reservations` | reserve, settle, sweep, change of caps | every provider call | a crash between reserve and settle, a sweep racing a late settle, a call that spans the end of an hour, caps lowered while calls are open |
| Provider chain and breakers | `librarian/provider.py`, `librarian/ledger.py` | one breaker per profile (closed, open, half open; one trial), the call ledger of a lineage | complete, run a profile, attempt, cut valve, failure and success of a breaker | uses the spend guard and the ledger; called by the tasks of several slots at once | several calls share one breaker across awaits; exceptions between claim and send; one settle per reservation on every path |
| Questions, batches and roles | `librarian/questions.py`, `librarian/roles.py`, `librarian/worker.py`, `librarian/tasks/apply_batch.py`, `librarian/tasks/release_pending.py`, `librarian/withdraw.py` | `librarian_questions`, `librarian_batches`, `librarian_roles` | propose, answer, approve a batch, apply, supersede, expire, withdraw, demote, promote, release | the answers of owners and batches, apply jobs of the queue, the items they change | time to live judged after lock waits, demotion between approval and apply, stale proposals, pending answers released after a promotion |
| Write path | `core/write_service.py`, `core/write_updates.py`, `core/temporal.py`, `core/supersession.py`, `db/write_queries.py` | `memory_versions` (valid time and system time), `links`, `chunks`, `events` with the recorded plan and reply | create, revise, correct an interval, close, update another item (end or mend), replay a request | events, enqueue of embed and librarian jobs, idempotency by request id; the librarian's closes change the same rows | bitemporal surgery on overlapping intervals, heads compared after lock waits, retries, locks on several items, a clock that is set back |
| Replay | `db/replay.py`, `librarian/actor.py` | all projections | rebuild | reads events in id order | order of ids against order of commits, work in flight |
| Embed worker | `worker/main.py` | `embeddings`, job rows | lease a batch, embed a version page by page, copy vectors of the superseded version, mark done, fail | the queue; rebuilds | the lease is not renewed while a batch is embedded; two workers write the same vectors; a failure in a later page |
| Questions to the memory (`memory.ask`) | `core/research_service.py`, `librarian/tasks/research.py`, `librarian/privacy.py` | the request (`_Run`): what may be seen, what was sent, calls, spend | plan, retrieve, rerank, select, answer, expand, attribute, refine, check, final check | the provider chain, the read queries, devices and grants, policies, the write path | no lock is held while a model answers: the device, a grant, the isolation of a project or the source of an answer may go at any moment; optional calls that fail or find the budget used up |
| Reversal | `librarian/reversal.py`, `librarian/actor.py` | none of its own: versions and events | take back the update that a write made of another item | the write path, whose locks it takes; its copies are what a later reversal must recognise | a correction, an update or another reversal of the same item in between; two operators at once |
| Authentication | `auth/*` | devices, grants, tokens, pairing codes | pair, resolve, grant, revoke, rotate | server, CLI | a revocation racing a request, one-time codes |
| Server | `server/*` | sessions, rate limits | MCP tools, HTTP routes | everything | pure plumbing over the parts above |
| Capture | `capture/*` | spool files, cursors | capture, flush, resume | CLI hooks, write path | resume after a crash, duplicates |
| Importers, migration | `importers/*`, `migrate/*` | journals of imported records | plan, run, resume | write path | resume after a crash, duplicates |
| Brief, curate | `brief/*`, `curate/*` | none of their own | compose a brief, curate items | read queries, write path | ranking and wording |
| Operations | `ops/*`, `deploy/` of the repository | backup files, deploy state | backup, restore, health, upgrade | the database | shell and cloud services |
| Bench, eval | `bench/*` and `eval/`, `bench/` of the repository | result files | measure | providers | statistics, no protocol |


Files without a module (see "Not modelled"): ranking, text assembly, command line, deployment.

## 2. What is hard here

* **Take-overs.** A lease may run out while its slot still works. Two slots, of one process or of two, then
  hold the same job, and only the lease token tells them apart when they commit.
* **Lost replies.** A transaction may commit and its client not learn of it; the client then treats finished
  work as failed.
* **Money across crashes.** A worst case is reserved before a provider call and settled after it. The process
  may die in between, the reservation may be swept while the answer arrives, and the hour may change.
* **Shared breakers.** All calls of a process share one breaker for each model and are suspended between the
  question "may I call?" and the answer "it worked".
* **People and time.** A proposal of the librarian waits for an answer while roles, items and time change.
* **Authority in flight.** A question to the memory takes up to seven calls of a model with retries and
  fallbacks, none under a lock. Whatever is sent must be the caller's to send at that moment, and whatever is
  answered must be the caller's to read when it is decided.
* **Events and tables.** Tables are projections of an event log. Whatever a rebuild restores must agree with
  what the running system decided.

## 3. Plan

In this order, the most important behaviour first. "Done" is in this directory.

| Step | Module | Composes | Abstract specification | Runs | Theorems |
|---|---|---|---|---|---|
| 1, done | `JobLease` | | `JobPromise` | two jobs, two processes, one an observer | invariance, refinement |
| 2, done | `SpendGuard` | `Sums` | `SpendPromise` | two calls and a sweeper | invariance, refinement |
| 3, done | `ProviderCalls` | | | two calls of one lineage over two profiles | type correctness, settlement, one trial, ceiling |
| 4, done | `BitemporalStore`, with reversals | `Temporal` (interval operators) | `ItemHistory` (a content for every valid and known instant) | three transactions, two items, six instants | invariance, heads named, true answers, no constraint fires, nothing falls out, the refinement |
| 5, done | `EventReplay` | `BitemporalStore` | | rebuild at any point | invariance, the rebuild |
| 6, done | `QuestionLife` | | `QuestionPromise` (a proposal takes effect at most once, and only with consent) | two owners and a job; liveness; a lost job | invariance, what is applied, the refinement |
| 7, done | `EmbedWorker` | | `EmbedPromise` (all vectors of a version or none) | two workers, a slow batch | invariance, all or nothing, the refinement |
| 8, done | `AskSession` | revocation, rotation, grants, isolation around it | | one question, two changes | invariance, what is sent, the budget of each attempt, the answer |
| 9 | `DevicePairing` | | | one-time codes, pending devices | one device for one code |
| 10 | `ImportRun`, `CaptureRun` | | | crash at every step | each record once |

## 4. Modules

### 4.1 `JobLease` (job queue and leases)

`row` is the row of `jobs` (its `run_after` reduced to due or not, its `lease_until` to expired or not), `log`
the job's events, `slot` what each slot of a worker process works on (`LeasedJob` and how far it got),
`watched` the renewer's table of each process (`_LeaseRenewer._jobs`), `lost` the event by which the renewer
tells a slot that its lease is gone, `paused` the processes with a `pause_reason`, `faults` a bound on crashes,
rebuilds, late renewals, lost replies and failures of the database. Hand-backs are not bounded. `Observer` is
the set of processes configured with that role, `ApplyOp` the jobs they must not lease.

| Action | Code |
|---|---|
| `Enqueue`, `BecomeDue` | `jobs.enqueue`, the passing of `run_after` |
| `Lease` | `lease_jobs` with `lease_one`: no pause; of the jobs that are queued and due, or running with an expired lease, and not excluded (`Candidate`), one of the most urgent; new token, attempts + 1; the renewer watches it |
| `Resume` | `paused`, once `paused_until` has passed |
| `PlanReturns`, `PlanRaisesSystemic`, `PlanRaises` | the ways out of the plan in `process` |
| `Apply`, `ApplyUnacknowledged`, `ApplyRaises` | `apply`: fenced `mark_done` and the events in one transaction; the reply may be lost |
| `HandBack`, `BackOff`, `DeferRaises` | `defer`: systemic errors give the attempt back, others back off or fail; a budget used up and the call ceiling pause the process |
| `Renew`, `ExpireAbandoned`, `ExpireHeld` | the renewer's loop, and a lease that runs out because nobody works under it or because no renewal came |
| `Crash`, `Rebuild` | a process dies; `rebuild_projections` puts job rows back from events, at any moment, under slots at work too |

Properties: `RowMatchesLog` (the row is what a rebuild gives), `OneHolder` (at most one slot can still commit),
`BackOffIsRecorded` (request ids of back-offs never collide, although a hand-back lowers `attempts`),
`KeepsPromise` (refinement of `JobPromise`, liveness included: a job that some process may lease ends, however
often it is handed back, provided the outage behind the hand-backs ends). An `apply_batch` job is `Owed` an end
only when some process is not an observer: observers leave it queued, untouched, as `lease.py:59` documents. `OneEnd`, `BoundedBackOffs` and `EndIsFinal` are
proved (section 7) and have no run.

### 4.2 `SpendGuard` (reservations against the budget)

Every transaction of `DbBudget` is a sequence of `Lock` steps (one per statement, in the code's order) and a
commit. A row that is locked cannot change, so the checks a reserve makes when it locks a window still hold at
its commit, which is what the proof of `WithinCap` rests on. A sweep is one transaction over all expired
reservations. `call` is the provider attempt that reserves, sends and settles; `CallerDies` is a crash in
between. Amounts are natural numbers of 1e-8 USD (`q8`), the precision of the columns.

| Action | Code |
|---|---|
| `BeginReserve`, `Lock`, `Deny`, `CommitReserve` | `DbBudget.reserve`; `Fits` is the `WHERE` of its update |
| `BeginSettle`, `Lock`, `CommitSettle` | `DbBudget.settle`, `_settle` |
| `BeginSweep`, `Lock`, `CommitSettle` | `DbBudget.sweep`, called by `maybe_sweep` |
| `DeadlockVictim`, `TxFails`, `CallerDies` | PostgreSQL aborts a circular wait; connections fail; callers die |
| `Tick` | time, which moves `now()` into the next hour |

Properties: `ReservedIsOpen`, `SpentIsBilled` (the counters are exactly the open and the billed calls, through
every crash, sweep, late settle and change of hour), `WithinCap`, `KeepsPromise` (refinement of
`SpendPromise`), `EveryCallBilled` (liveness). `TypeOK` and `NeverFree` are proved and have no run.

### 4.3 `ProviderCalls` (the provider chain and its breakers)

Tasks of one process call `Provider.complete` again and again. An action is what the code does between two
awaits. `breaker` and `cuts` are the tables of the `Provider` (times are what is left of them, so time is not
bounded), `call` is how far each call got (`turn` of a profile, `attempt`, `reserved`, `sent`, `settle`,
`record`) with the books of its last attempt, and whether it runs inside the `lineage_scope` of the one lineage
whose requests are limited (`counted`; any caller in `Limited` may), `claims` the counter row of that lineage. `sends` and `trials` are
history. An answer is reduced to what the code tells apart (good or bad response, transient, fatal, cut) and to
whether its row is written under `_finalize` ("kept") or not ("bare"); amounts are the matter of `SpendGuard`.

| Action | Code |
|---|---|
| `Begin`, `Skip`, `Try`, `EndOfChain` | the loop of `_complete` over the chain; `Allowed` is `Breaker.allow` |
| `AttemptRefused`, `Reserve` | `_attempt` up to its reservation |
| `Unsent`, `ClaimedTooLate`, `Send` | precheck, `_claim_call`, deadline; with nothing sent the reservation is settled at 0 |
| `Answered`, `CancelSent` | the request comes back, or the caller is cancelled meanwhile |
| `Settle`, `CancelSettle`, `SettleFails` | the settlement of `_read`, `_uncertain` and the timeout handler |
| `CancelRecord`, `RecordFails`, `Good`, `BadAgain`, `BadGivenUp`, `TransientAgain`, `NoRoomToRetry`, `Exhausted` | the row, and what `_run_profile` and `_complete` make of the attempt |
| `Tick` | time |

Live mode only; with the replay mode there is no breaker, reservation or request.

Properties: `BookedOnce` (settled at most once, exactly once unless the database failed, rows after settlements),
`OneTrial`, `CallCeiling`, `EveryCallEnds` (liveness); `RefusalEnds` is what the documentation says and the code
does not do (section 5).

### 4.4 `BitemporalStore`, `EventReplay` (the write path and the rebuild)

Handlers are PostgreSQL transactions at READ COMMITTED, each one a call of a write tool, an approved close of
the librarian or an owner's reversal of an update; a retry is a second handler with the same ask. An action is what runs between two awaits that
matter: the unlocked checks, the request key, one item lock at a time, the decision, the plan at the
transaction's own clock, the commit. `rows` is `memory_versions` with the superseded rows, `events` the
committed events with their recorded plans, `tx` how far each handler got and what it read. `reader` holds the
access events that are written and not committed. Both time axes are instants `0 .. Forever - 1`; the text of a
version is named by the version that introduced it, so a survivor has the text of its base.

| Action | Code |
|---|---|
| `Begin` | `_execute` up to the first lock: `_authorize_revisions`, `WriteUpdates.resolve`; the worker starts with its item locks |
| `BeginReversal` | `revert_write_update` up to its locks: the recorded update it reads is kept in `undo` |
| `LockRequest`, `LockItem` | `lock_request_key`, `lock_logical_ids` (sorted) |
| `Decide` | second `_authorize_revisions`, `find_event`, the head comparison, `WriteUpdates.validate`; `is_stale` for the librarian |
| `Build` | the temporal resolution, `WriteUpdates.materialize`, `_close_record`, `unrevise_records`, `reopen_record`, `select_T`, allocation of ids |
| `Store` | insert of the event, `supersede_versions`, inserts, `apply_mutations`; the constraints of the tables |
| `Rollback` | lock timeouts, lost connections, crashes |
| `OpenRead`, `CloseRead` | `record_access` |
| `StepBack` | the host's clock is set back |

`Change` is the one shape of every mutation: an interval that gets new content and an instant until which
nothing survives. A put is `[start, end)` with `until = end`, a close has `until = Forever`, an ended item has
an empty interval. `EventReplay` applies the recorded plans again in the order of their ids with the same
operators, so that a difference can come only from the order and from what a plan did not record.

Properties: `NothingLeftToConstraints` (locks and clock leave nothing for constraints to catch),
`AnswersAreTrue`, `CommitsOnTheHeadNamed`, `HeadGrows`, `NothingFallsOut` (no valid instant is lost by
accident), `ImplementsHistory` (refinement of `ItemHistory`: every commit is one revision, the past is never
rewritten; where a close ends a fact, only instants end of which something is still current: after a clock set
back a plan may leave alone what was superseded ahead of its own instant), `RebuildGivesTheFacts` (versions, intervals and, but for the librarian's closes, updates and reversals, accesses),
`ReversalUndoes` (of every instant where the update changed what is believed, nothing later was written and what
was believed before is believed again; the rest of the item stays; said of a clock that goes forward, because after a
setback two events of an item can have one instant and "as of the update" no longer names what the update left), `EveryAskEnds` (liveness). With the librarian's closes
`HeadGrows` is what the documents say and the code does not do (section 5).

Abstractions: links, chunks and grants are left out (a reversal also checks that the links of its update are live); the guards on quoted spans may refuse any update; version
ids are given item by item, survivors before the replacement as in the code, where the items come in the order
of the request (ids of different items are not compared); the
librarian's transaction applies one close (batches of approved closes are in `QuestionLife`). `Verdict` leaves out what can
only refuse more: a closed session (`write_service.py:830`), the pins of `expected_versions` (850, their rows
locked at 802) and the owners of quoted sources (860); and the lock of the session's key (797), which is taken
after the request key and before all item locks, so that no wait can go round through it. A reversal names
the write by its request key and the update by its item, which say the same as the event's id and the position
of the update. `Standing` walks any chain of copies (`_live_version`); a copy that stands for what an update
left takes four transactions (the update, a later one, the reversals of both), one more than the handlers of
`store_writes`, so there a reversal meets what the update left or nothing.

### 4.5 `QuestionLife` (questions, batches and roles)

`status`, `batchOf` and `due` are the rows of `librarian_questions` (the row's `expires_at` reduced to whether
it has passed), `batch` and `rounds` those of `librarian_batches` and of the apply events of a batch, `queued`
the apply jobs, `decided` and `override` the latest role decisions, `scope` the projects of each item's head,
`stale` the questions with an assessed item whose head has moved. `work` is the job of a worker slot and how far
its transaction got, `deal` the transaction of an owner's session. A transaction is cut where it waits for locks
and can find the world changed: row locks, item and policy locks, commit. What it holds follows from its place.

| Action | Code |
|---|---|
| `Propose` | `LibrarianWorker.apply` for a review: `_plan_questions`, `_assign_batches`, insertion |
| `AnswerRow`, `AnswerLocks`, `AnswerCommit` | `questions.answer`: the row, the locks of an accepted proposal, the outcome; `_widen` for a scope change |
| `DecideRows`, `DecideCommit` | `roles.batch_questions`, `record_batch_decision` |
| `WithdrawRows`, `WithdrawCommit` | `withdraw.withdraw` |
| `RoleCount`, `RoleCommit` | `record_role_decision`: the promotion guard's count, then the decision with `release_now` |
| `PassTerm`, `ExpireDue` | time, and `questions.expire_due` |
| `Sweep`, `ReleasePending` | `maybe_release`, and the task that a revision enqueues |
| `Lease`, `Plan`, `NotApproved` | the job is leased; `ApplyBatch.plan` |
| `ApplyRows`, `ApplyLocks`, `ApplyCommit` | `LibrarianWorker.apply` with `_lock_approved`, `_apply_approved`, `_split_by_role`, `_batch_after_apply` |
| `Revise`, `SetPolicy`, `SetTrust`, `Crash` | what others do meanwhile |

Properties: `AppliedInTime`, `AppliedOnHeads`, `AppliedUnderRole` (what is applied was within its term, on heads
that stand, and under roles and policy that allow it *at the commit*, whatever was waited for), `NeverBothWays`,
`PromotionIsConfirmed` (a promotion lets the librarian apply only what its count showed), `AppliedBatchIsDone`,
`KeepsPromise` (refinement of `QuestionPromise`), `AcceptedEnds` (liveness); `ApprovedHasAJob` is what the code
says and does not do.

Abstractions: closes from before `close_ok` are left out; the release task decides and inserts in one step and
may run at any time; a replayed answer and a refused caller change nothing; roles that a project's policy sets
are left out; leases and fencing of the job are those of `JobLease`. The insertion of an apply job is dropped
when a job of the same key exists, ended ones included (`ON CONFLICT (dedupe_key)`); the model drops it only while
that job is unfinished. A done job has ended its round, so the next one has another key; the difference is a
job that failed for good, whose batch the code does not queue again under that key.

### 4.6 `EmbedWorker` (vectors)

`row` is the job of a version, `vec` the chunks with a committed vector, `worker` the batch a worker has leased
with its open transaction: what is left of the page it is in (`copies`, `infer`) and what it inserted so far (`mine`). Every
insertion is an action, since it waits for another transaction that inserted the same key; which chunks are
copied is decided when the page is read.

| Action | Code |
|---|---|
| `Enqueue`, `BecomeDue` | the outbox row of a write; `run_after` |
| `Lease` | `lease_jobs`, one token for the batch |
| `ReadPage`, `NoPageLeft` | `_pending_chunks`, `_copyable_chunks` |
| `Insert` | `_copy_from_predecessor`, `_insert_embeddings` |
| `MarkDone`, `MarkDoneUnacknowledged` | `_mark_done` with the commit, or `_LeaseLost`; the reply may be lost |
| `Raise`, `DeadlockVictim`, `MarkFailed`, `MarkFailedRaises` | `_handle_failure`, `_mark_failed` |
| `Crash`, `ExpireAbandoned`, `ExpireHeld`, `Rebuild` | a worker dies, a lease runs out under it or after it, `rebuild_projections` |

Property: `KeepsPromise`: the vectors of a version appear all at once with its done row, no failed version has
any, and every version is embedded or given up in the end. Copies are inserted before what was inferred, so two
workers on one version that saw different copies may wait for each other; PostgreSQL breaks the ring and the
promise holds. Abstractions: a token is named by the worker whose batch drew it, since a worker has one batch at
a time; a rebuilt job has a new id, which has the effect of a lost lease; a job of a version whose worker dies
each time is leased for ever, as in the code (`MaxFaults` bounds the deaths). `reembed` jobs take the same path.

### 4.7 `AskSession` (`memory.ask`, and what changes around it)

`ask` is the request (`_Run`): its place, the authority it came with (`generation`, `caps`), what it may see
(`view`, `excluded`), what went to a provider (`sent`), the excerpts and the answer's sources, calls, and the
spend that the in-process tally knows (`_TeeLedger.peek`); `billed` and `missed` are history: what the attempts
were really charged, and what of it never got a row.
`device`, `grants`, `apart` (projects under `librarian_cross_project = exclude`) and `current` are the world.
`barred` is history too: what was already denied when the attempt in progress began.

| Action | Code |
|---|---|
| `Refuse`, `Begin` | `_ask` up to `detach`; the map phase holds the device |
| `CallSkipped`, `CallStopped`, `CallBegins`, `NoMoreTries` | the head of `_Run._call` and its loop of three |
| `Gate`, `GateCarried` | the two gates of a call (`privacy.gate`), and the question's budget |
| `AttemptBegins`, `AttemptUnaffordable`, `AttemptRefused` | `attempt_guard`, and what the provider refuses before a request |
| `Precheck`, `PrecheckCarried`, `Send`, `NotSent`, `Succeed`, `AttemptFails` | `Researcher.complete.precheck` and `Provider._attempt`; an answer costs what its usage reports, more than the worst case too, or the worst case |
| `CutInFlight`, `CutBeforeRow` | `timeout_at` of the call ends: while the request is out (`abandoned`: charged and tallied), or while the attempt is settled (charged, and its row not written) |
| `PlanReturns`, `Retrieve`, `RerankReturns`, `Drill`, `SelectReturns`, `AnswerReturns`, `ExpandReturns`, `AttributeReturns`, `RefineReturns`, `CheckReturns` | `_loop` and the jobs of the three answer modes |
| `FinalAuthority`, `FinalLock`, `FinalRead`, `FinalCommit` | `_finish` |
| `Revoke`, `Rotate`, `Grant`, `Ungrant`, `SetPolicy` | `ops/service.py`, under the locks these commands take |
| `Expire`, `Supersede` | time; a revision or a tombstone |

Properties: `SentWasPermitted` (the text of a prompt, the text sent earlier that it may carry in derived form,
and the device: all permitted when the attempt began, or since), `WithinBudget` (an attempt goes out only when, at
its worst, it fits beside all that was charged before it, but for charges without a row; and nothing goes out
after a budget stop), `AnswerStands` (at the commit the answer's sources are
current and readable, what was sent is granted, the device is trusted under the token it came with).

What they do not say, as in the code: a question may end above `research_max_usd`, by what its last attempt cost
beyond its worst case and by what cut calls left out of the tally; a change that commits between an attempt's own checks and its request is
missed (`provider.py:1111`: "an attempt in flight when a revocation commits may complete"); expiry takes no
lock, so `AnswerStands` says nothing of it; of the projects of a version that was sent and is not returned only the grants are
held to the commit, not the isolation.

Abstractions: searches and validation may give any subset of what they may see; a superseder that a status
names counts as an excerpt; related handles are filtered with the same sets as the sources and left out; an
admin caller, the slots of concurrent questions and the packing of the answer are left out; `librarian = off` is
a policy of reserved projects that no operation sets; the isolation of accounts takes the same row lock as
`SetPolicy`; a gate is one step, and a change between its statements acts as one just after it. Tokens are
not counted: any check of the budget may find `research_max_tokens` used up and stop the question, so nothing
is said of that limit. One setting runs the claims, one cite, two prose. Spend guard and
breakers are the matter of `SpendGuard` and `ProviderCalls`.

## 5. Runs

| Run | Bounds | Shows |
|---|---|---|
| `queue_safety` | two jobs, the more urgent one an `apply_batch`, two processes with a slot each, one of them an observer, four tokens, three attempts, two faults; hand-backs and pauses without a bound | the queue through take-overs, lost replies, crashes, rebuilds, pauses and back-offs, and under fairness every job ends. Two faults are enough for a lost reply or a rebuild after a take-over; three attempts for a back-off, a second one and the failure. Jobs without a handler are not in the instance; the proofs have them |
| `spend_safety` | two calls, one sweeper, two settings of caps, the hour changes at time 1, costs below and above the worst case, one fault | the accounts, the cap, refinement of `SpendPromise`; under fairness every reservation is settled or swept in the end, deadlocks and crashes included |
| `provider_chain` | two calls, each of the limited lineage or not, ceiling 2, over two profiles, the first capped, the second past its price so that a fallback finds it stale, schema fallback, two transient attempts | the books of every attempt, one trial for each opening, the ceiling, and that every call ends |
| `provider_trial` | one call, one profile | a violation: a trial that ends before it is sent leaves the breaker half open for ever |
| `store_writes` | three transactions, two items (two more may be created), seven instants, twenty-four asks of writers and of operators who reverse | everything a write promises: keys, heads, locks, batches, closes, updates; and that a reversal undoes its update alone. Three: one that commits first, and two that race on what it left |
| `store_history` | two transactions and a reader, seven asks (batches that cross, a librarian's close, a correction, an update and its reversal), six instants, one step back of the clock at any moment | refinement of `ItemHistory` whatever the clock does; a rebuild at any moment; every transaction ends |
| `store_head` | two transactions | a violation: a close that ends where a version begins leaves the head unmoved |
| `question_life` | two contradicting proposals over two items of one or two projects, two batches, two owners, one job slot, one upset (revision, policy, trust, crash) | what is applied is applied in time, on heads, under roles, one way, and after a confirmed promotion; the refinement of `QuestionPromise` |
| `question_live` | a proposal of the auto-rule class and a widening, one owner, decisions for the deployment and for the project, one upset | an accepted answer ends |
| `question_lost` | two proposals, two owners, no upset | a violation: an approved question without a job |
| `embed_vectors` | two workers, three jobs (a version, its revision that shares a chunk, a foreign model), four chunks, pages and batches of two, two attempts, three faults | the refinement of `EmbedPromise`, liveness included |
| `ask_session` | one question in four settings, two versions of two projects, a budget of 2 for attempts of 1 or 2 that may be free or cost 2, five attempts, one charge of 1 without a row (`MaxMissed`), two changes | what is sent, what is charged and what is answered. Two changes: one before a gate and one after it; five attempts reach the limit of calls, a budget of 2 is used up by one attempt or by two, and an attempt above its worst case overdraws it. The proofs have no bound on any of these |

Two calls and a sweeper meet in every pair of transactions (reserve and reserve, reserve and settle, settle
and sweep). One upset in `question_life` lands between any two steps of any two transactions; a second one
adds no waiting transaction that was not there. The inductive invariants are proved (section 7) and no run
checks them any more.

### Seen while modelling

What follows is in the models and in the code, and no run is kept for it.

* After the settlement of an attempt `_attempt` is no longer shielded (`provider.py:1171`, `1312`): a caller
  that is cancelled there leaves an attempt without its `llm_calls` row, although `_finalize` says a cancelled
  attempt still writes it. `BookedOnce` therefore says that no row is written twice, not that one is.
* The same gap leaves a charge out of a question's tally when a call of `memory.ask` times out there
  (`research_service.py:1191`), and the question goes on; the docstring of `attempt_guard` says that "every
  attempt is tallied when its ledger row is written, before the next one starts" (`research_service.py:1296`).
  `WithinBudget` counts such charges as `missed`.
* The call of a lineage is claimed before the last check of the deadline (`provider.py:1110`): the claim may be
  used up with nothing sent. `CallCeiling` counts what is sent.
* When the clock of the database is set back, a write into the gap that a close left may take an instant within
  the system interval of the closed version, because `select_T` looks only at what it supersedes. The EXCLUDE
  constraint refuses the row and the client gets an internal error (`write_service.py:1252` catches unique
  violations only). `NothingLeftToConstraints` is stated for a clock that was not set back; `store_history`
  shows that nothing wrong is ever committed.
* The survivor of a librarian's close has `last_access_at` of its base at the moment it is applied
  (`actor.py:624`), live and in a rebuild, so an access event that commits between the two gives another value.
  The second part of `RebuildGivesTheFacts` leaves such items out.
* `_LeaseRenewer.watch` keys its table by job id (`worker.py:321`). When a second slot of the same process has
  taken over a job, the first slot takes the second one's entry out as it leaves, and that lease is renewed no
  more, although the class calls itself "ONE lease keeper for every job in flight". Fencing keeps the effect
  to lost work: `OneHolder` is proved for any slots and processes.
* `reopen_record` compares with current segments only (`actor.py:1009`): a write into the gap that an update left,
  ended again without a survivor before the reversal, does not stop the reversal. Nothing is then believed
  of that span, so `ReversalUndoes` holds.
* `DbBudget.sweep` settles all expired reservations in one transaction, so it holds the day and month rows of
  one while it asks for the hour row of the next; the order "hour, day, month" of the module's docstring does not
  hold across reservations. It can wait in a circle with a settle; `DeadlockVictim` in `SpendGuard` is how it ends,
  and the next sweep does the work.

## 6. Fairness

* `JobLease`: weak fairness of what a slot does next (`SlotStep`: a plan ends, the provider chain has a
  deadline), of `Lease` (`run_forever` keeps asking for work), of `BecomeDue` and of `ExpireAbandoned` (clocks
  pass) and of `Resume` (a pause has an end). A lease somebody works under need not run out. Strong fairness of
  `Planned`: a job that is planned again and again gets, in the end, a plan or a failure of its own, so an outage
  (provider, budget, LLM off) ends. While it lasts the job is handed back without a bound. Crashes, lost replies
  and rebuilds are never forced, and `MaxFaults` bounds them: a job whose process crashes for ever does not end
  in the code either.
* `SpendGuard`: time passes; a transaction that is not blocked goes on; a row lock goes to a waiter in the end
  (strong fairness of `Lock`, PostgreSQL queues waiters); a circular wait is broken; the sweeper's loop comes
  back. Nothing makes a caller settle.
* `ProviderCalls`: a call does its next step in the end (`Progress`: requests have a timeout, statements and
  backoffs end), and time passes. Which step it is, an answer or a failure, is never forced.
* `QuestionLife`: a transaction that began goes on, strongly fair for jobs and for the sweeper: they wait for
  the advisory lock of the role order, which PostgreSQL grants in the order of the requests. Nobody is made to
  answer, and no term passes by fairness.
* `EmbedWorker`: `run_forever` leases again and again, a worker at work takes its next step (inference ends; a
  ring of waits is broken), and clocks pass for rows nobody works under.
* `AskSession` has safety properties only.
* `BitemporalStore`: a transaction that can go on does (`Step`): the event loop runs it, and an advisory lock that
  is free is granted. No rollback is forced, and no reader.

## 7. What is proved

TLAPS checks every step of the proofs; the assumptions are the `...Assumption` formulas of the modules, which
TLC evaluates on the instances of the runs.

The library states induction over numbers for an operator parameter, which no installed prover can instantiate.
In its place stand two facts proved where they are used: a nonempty set of naturals has a least member (`<` is
well-founded), a finite one a largest (so is strict inclusion of finite sets). A proof by induction takes the
least counterexample.

* `JobLeaseProofs`: the inductive invariant `IInv` says that tokens are unique and fence, and that the attempt
  counts in a job's events rise. From it: `TypeOK`, `OneEnd`, `RowMatchesLog`, `OneHolder`,
  `BackOffIsRecorded`, `BoundedBackOffs`, `EndIsFinal`, and the refinement of the safety part of `JobPromise`.
  The safety properties alone are not inductive: that a stale slot cannot commit follows only because tokens
  are never used twice, and that a back-off's request id is new only because every lease raises `attempts`
  above what the log holds.
* `SpendGuardProofs`: the invariant adds to the accounts the discipline of the transactions (`OwnTx`: a
  transaction has locked or has yet to lock every row it will change, what it checked on a locked row still
  holds; no row is locked twice; a call is not both open and billed). One lemma shows that a transaction that
  does not step keeps its discipline, because only the holder of a row changes it; one lemma each for the
  commits of a reserve and of a settle or sweep does the arithmetic. Sums over finite sets are sizes of disjoint
  unions, so that adding up needs no recursion (`SumOfUnion`, `SumBounded`). The refinement of `SpendPromise` is proved
  for an arbitrary window.
* `ProviderCallsProofs`: the invariant is taken apart into what it says of one caller's record, of one breaker and
  of the counters, and each part is kept by every action. `OneTrial` needs that a breaker is half open exactly
  while its trial's mark is set; `BookedOnce` needs what is booked at each point of an attempt.
* `BitemporalStoreProofs`: that a head compared by one transaction does not move before its commit follows only
  from what all the others may do, so the invariant says of every open transaction that it holds the locks of
  all it wants once it has decided, that every row it plans to close is of a locked item, and that what it plans
  to add has ids of the sequences that no row and no other plan has, and belongs to a locked item or to one
  nobody else can name yet (`DecidedInv`, `PlanInv`, `ApartInv`). The lemma `Stays` shows that a handler keeps
  its part while others step; `StoreStep` shows that a commit changes only rows of its own locked items and new
  ones. A reversal adds that
  what it read without a lock exists and is among its locks (`TxInv`). The theorems hold whatever the clock does, and assume of the asks what the code's validation gives: an
  item occurs once among the edits of a batch, an update has its carrier in the batch, the librarian's close
  names a version it assessed. `SegmentsPartition` is the arithmetic of a correction for all intervals: what it
  leaves of a row is the row without the corrected interval, nothing more and nothing less.
  The second invariant, `FitInv`, is about intervals and clock readings. `SeenFits` says that what the decision
  read of locked rows is still what the table has, `PlanFits` that what a plan adds has room among the rows it
  does not close and that its instant is past what it closes, `ClockFits` that a clock never set back has passed
  every instant of the table: with `PlanFits` the EXCLUDE constraint has nothing to refuse (`ConstraintsIdle`).
  `Keeps` says of a plan, before its commit and of the recorded one ever after, which instants it may take away:
  those its ask closes; `NothingLost` follows. It has to say more for the reversals: an update stays within what it
  closed and a mended item keeps all of it, so that what a reversal takes back covers exactly what it restores. A
  reversal of a mend works on the copies that stand for what the mend left, through any chain of reversals;
  `StandingSpan` shows, by descent over the version ids, that a copy has the interval of its original
  (`Standing` is a recursive function, and `LiveExists` shows that its definition has a solution). `ChangeParts`
  and `NumberedApart` are the arithmetic of a plan: its parts do not overlap, cover what they replace but for
  what is closed, and get different ids.
  The third, `HistoryInv`, is about what versions say: a version with a base says what its base says (`BodyFits`), an
  update is one split of one open version (`Splits`), and a plan that waits for its commit is one revision of each
  of its items (`Revises`). The last is what others could spoil, and do not (`RevisesStays`): what the plan closes
  is of locked items, and nobody else adds to them. `ToldAfter` says what a commit changes of what readers are told,
  whoever they are and of whenever they ask, `CommitRevises` that a plan which is one revision is then one step of
  `ItemHistory`. That a write plans one revision is `WriteRevises`; that a reversal does is `ReversalRevises`: a mend
  left a version that said what stood before the cut, so taking both back and restoring the closed version is a
  revision from the cut on. The refinement (`HistoryRefined`) holds whatever the clock does.
  The fourth, `LogInv`, is about where versions come from: each row was recorded and superseded at the instants of
  the events that name it (`RowLogged`), what a plan adds is later than all it knows (`Rises`), a reversal that
  waits closes what stands for the versions its update left and restores what the update closed (`Undoes`), and
  while the clock goes forward no two events have one instant (`Dated`). With it "what was believed before the
  update and by it" can be read off the table of any later day: `UpdateTraced` finds the update in the table,
  `UpdateTold` says what it changed, `ReversalTells` what the table says now and after the reversal, and
  `ReversalExact` compares the two, however many commits lie between them.
* `EventReplayProofs`: the fifth invariant of the write path, `ReplayInv`, is about the order of the ids, which
  is not that of the commits: what an event closes, copies or touches comes of events with smaller ids
  (`Follows`), no version comes of two events, no two events, plans or readers share an id (`IdsApart`), a row
  that is not one of the first comes of an event (`RowGiven`), and `last_access_at` is the last access that the
  events record (`LastAccess`). `TableFits` says of a table rebuilt up to an id what the live table then owes to
  the events below it; `AccessFits`, `RecordFits` and `SkipFits` carry it over one id, `RebuildFits` over all of
  them, by the least id where it would fail (`RebuildExists` shows that the recursive function of the rebuild
  has a value). `RebuildRight` compares the last table with the live one, whatever is still in flight and
  whatever the clock does.
* `QuestionLifeProofs`: what is read under a lock stays true until the commit, and what is read before one needs
  a reason why it cannot go wrong. `RowsApart` and `RoleAlone` say which locks exclude each other; `JobFits` and
  `DealFits` say what a job or an owner's transaction still knows. The role of a question is read before its item
  locks, so it need not hold at the commit: `Sure` says that it holds or that the head of an item has moved since,
  in which case the stale proposal is not applied. From `IInv`: `TypeOK`, `AppliedBatchIsDone`, `AppliedInTime`,
  `AppliedOnHeads`, `AppliedUnderRole`, `NeverBothWays`, `PromotionIsConfirmed` and the refinement of
  `QuestionPromise`. That one run of a job never leaves the choice among contradicting questions open
  (`KeptExists`) is an induction over their rank. `Clash` is assumed to relate different questions, as
  `worker.py:910-914` compares each question with those decided before it.
* `EmbedWorkerProofs`: `PagesCovered` says where each chunk of the pages read so far is (committed, inserted by the
  open transaction, or still to be inserted), `VectorsOfDone` that the chunks with a committed vector are
  exactly those of the done versions. From `IInv`: `TypeOK`, all or nothing, and the
  refinement of the safety part of `EmbedPromise`, for any number of workers, pages and chunks.
* `AskSessionProofs`: `CallAllowed` carries the budget through the retries of a call and says that every charge is
  in the tally or has no row, `ChecksPassed` says which
  part of a prompt each check has cleared of what was denied, `FinalHolds` that what the final transaction has
  locked and read still stands. From `IInv`: `TypeOK`, `SentWasPermitted`, `WithinBudget`, `AnswerStands`. The
  lemma `StepType` and its kin reduce the thirty actions to a few shapes of step (a job ends, a call goes on, an
  attempt is checked, the world changes).

Only model-checked: `HeadGrows` (it holds of writers and fails with the librarian's closes, section 5); liveness
(`KeepsPromise` of the queue and of the embed workers as a whole, `EveryCallBilled`, `EveryCallEnds`,
`EveryAskEnds`, `AcceptedEnds`), which is out of the prover's reach; and the violations of section 5.

## 8. Not modelled

* Ranking, fusion, the memory map, the validation of claims: numerical or textual functions without a protocol;
  `AskSession` lets them give any result they may.
* Text: prompts, redaction, briefs, curation bundles, importers' parsers. What they write passes through the
  write path.
* Command line, server plumbing, deployment scripts, benchmarks: no state of their own that the parts above do
  not have.
* `MemoryBudget` and `budget_snapshot` of the spend guard: the first is the same contract without concurrency,
  the second only reads.
* The parts marked as planned in section 3.
