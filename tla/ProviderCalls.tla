---------------------------- MODULE ProviderCalls ----------------------------
(***************************************************************************)
(* Provider.complete in librarian/provider.py: the calls that run at the   *)
(* same time in one process, the breakers they share (one for each         *)
(* profile), the reservation of each attempt and the call ceiling of their *)
(* lineage (librarian/ledger.py).                                          *)
(*                                                                         *)
(* A step ends where the code awaits; what it does between two awaits is   *)
(* one action.  Times are what is left of them, so that time need not be   *)
(* bounded.                                                                *)
(***************************************************************************)
EXTENDS Naturals, Sequences, FiniteSets

CONSTANTS
  Caller,        \* tasks of the process that call complete, again and again
  Chain,         \* the profiles in the order in which they are tried
  Stale,         \* profiles whose price_valid_until has passed
  Capped,        \* profiles with an attempt_timeout_s
  Latency,       \* callers with attempt_policy = "latency"
  Onward,        \* callers with schema_fallback
  Limited,       \* callers that may work for the one lineage whose calls are counted
  CallCap,       \* job_call_cap
  Threshold,     \* breaker_threshold
  BaseWindow,    \* breaker_open_s, in ticks
  MaxWindow,     \* breaker_max_open_s
  CutCount,      \* CUT_VALVE_COUNT
  CutWindow,     \* CUT_VALVE_WINDOW_S
  MaxTransient,  \* MAX_TRANSIENT_ATTEMPTS
  Null

Profile == {Chain[i] : i \in DOMAIN Chain}

ASSUME ProviderAssumption ==
  /\ Chain # <<>> /\ Chain \in Seq(Profile)
  /\ \A i, j \in DOMAIN Chain : Chain[i] = Chain[j] => i = j
  /\ Latency \subseteq Caller /\ Onward \subseteq Caller /\ Limited \subseteq Caller
  /\ CallCap \in Nat \ {0} /\ Threshold \in Nat \ {0}
  /\ BaseWindow \in Nat \ {0} /\ MaxWindow \in Nat /\ BaseWindow <= MaxWindow
  /\ CutCount \in Nat \ {0} /\ CutWindow \in Nat
  /\ MaxTransient \in Nat \ {0}

VARIABLES
  breaker,  \* Provider._breakers
  cuts,     \* Provider._cuts: the ages of the recent cuts of each profile
  call,     \* how far the current call of each caller got, and its last attempt
  claims,   \* llm_lineage_calls of the lineage
  sends,    \* history: requests that the lineage really sent, up to CallCap + 1
  trials    \* history: calls admitted since a breaker last opened, up to 2

vars == <<breaker, cuts, call, claims, sends, trials>>

\* What an attempt that went out comes back with (what it is charged is
\* the matter of SpendGuard).  "row" says how its row is written: to completion
\* even when the caller is cancelled, or not.
Answer ==
  {[kind |-> "response", cut |-> FALSE, row |-> "kept"]}
  \union {[kind |-> k, cut |-> FALSE, row |-> "bare"] : k \in {"transient", "fatal"}}
  \union {[kind |-> "transient", cut |-> x, row |-> "kept"] : x \in BOOLEAN}

ClosedBreaker ==
  [state |-> "closed", rest |-> 0, window |-> BaseWindow, failures |-> 0, trial |-> FALSE]

\* A caller that has no call, and nothing known of an attempt.
NoCall ==
  [pc |-> "idle", i |-> 1, transient |-> 0, schema |-> 0, reserved |-> FALSE,
   settles |-> 0, sent |-> FALSE, rows |-> 0, answer |-> Null, failed |-> FALSE,
   counted |-> FALSE]

Init ==
  /\ breaker = [p \in Profile |-> ClosedBreaker]
  /\ cuts = [p \in Profile |-> <<>>]
  /\ call = [c \in Caller |-> NoCall]
  /\ claims = 0
  /\ sends = 0
  /\ trials = [p \in Profile |-> 0]

-----------------------------------------------------------------------------
(* The class Breaker.  Operators named Faulty... are seeded faults, used    *)
(* only to test that the runs notice them.                                 *)

Lesser(a, b) == IF a < b THEN a ELSE b

Refuses(b) == (b.state = "open" /\ b.rest > 0) \/ (b.state = "half_open" /\ b.trial)

FaultyAllowed(b) == IF b.state = "closed" THEN b ELSE [b EXCEPT !.state = "half_open"]

\* allow(), where it returns True: the first call after the window is the trial.
Allowed(b) ==
  IF b.state = "closed" THEN b ELSE [b EXCEPT !.state = "half_open", !.trial = TRUE]

Succeeded(b) == ClosedBreaker

\* _open()
Opened(b) ==
  [state |-> "open", rest |-> b.window, window |-> b.window,
   failures |-> b.failures, trial |-> FALSE]

FaultyFailed(b) ==
  IF b.state = "half_open" THEN Opened([b EXCEPT !.window = 2 * b.window])
  ELSE LET f == [b EXCEPT !.failures = Lesser(@ + 1, Threshold)]
       IN IF f.failures >= Threshold THEN Opened(f) ELSE f

\* failure(); the count is only compared with the threshold.
Failed(b) ==
  IF b.state = "half_open"
  THEN Opened([b EXCEPT !.window = Lesser(2 * b.window, MaxWindow)])
  ELSE LET f == [b EXCEPT !.failures = Lesser(@ + 1, Threshold)]
       IN IF f.failures >= Threshold THEN Opened(f) ELSE f

\* The breaker of p becomes b.
Become(p, b) ==
  /\ breaker' = [breaker EXCEPT ![p] = b]
  /\ trials' = [trials EXCEPT ![p] = IF b.state = "open" THEN 0 ELSE @]

KeepBreakers == UNCHANGED <<breaker, cuts, trials>>

\* Provider._cut: cuts count by themselves, and a cut trial has failed.
Cut(p) ==
  LET recent == Append(cuts[p], 0) IN
  IF breaker[p].state = "half_open" THEN Become(p, Failed(breaker[p])) /\ UNCHANGED cuts
  ELSE IF Len(recent) >= CutCount
  THEN Become(p, Opened(breaker[p])) /\ cuts' = [cuts EXCEPT ![p] = <<>>]
  ELSE cuts' = [cuts EXCEPT ![p] = recent] /\ UNCHANGED <<breaker, trials>>

-----------------------------------------------------------------------------
(* Helpers of the calls.                                                   *)

At(c, pc) == call[c].pc = pc

\* The profile whose turn it is.
P(c) == Chain[call[c].i]

Set(c, r) == call' = [call EXCEPT ![c] = r]

\* The call is over; of what it knew only the books of its last attempt matter.
Ended(r) ==
  [pc |-> "idle", i |-> 1, transient |-> 0, schema |-> 0, answer |-> Null,
   reserved |-> r.reserved, settles |-> r.settles, sent |-> r.sent, rows |-> r.rows,
   failed |-> r.failed, counted |-> FALSE]

\* An exception that _complete does not catch leaves the breakers alone.
Abort(c, r) == Set(c, Ended(r)) /\ KeepBreakers

\* The call goes to the next profile, with what is known of its last attempt.
NextTurn(r) ==
  [Ended(r) EXCEPT !.pc = "turn", !.i = r.i + 1, !.counted = r.counted]

Settled(r) == [r EXCEPT !.settles = Lesser(@ + 1, 2)]

Recorded(r) == [r EXCEPT !.rows = Lesser(@ + 1, 2)]

\* What a settlement leaves if the database fails in it: it is never tried
\* again, and it may have been committed.
SettlementLost(r) == {[x EXCEPT !.failed = TRUE] : x \in {r, Settled(r)}}

\* What a settlement leaves that the code runs to completion and then gives up.
LastSettlement(r) == {Settled(r)} \union SettlementLost(r)

-----------------------------------------------------------------------------
(* Actions.                                                                *)

\* A call begins, inside lineage_scope(the lineage) or not.
Begin(c) ==
  /\ At(c, "idle")
  /\ \E counted \in BOOLEAN :
       /\ counted => c \in Limited
       /\ Set(c, [NoCall EXCEPT !.pc = "turn", !.counted = counted])
  /\ KeepBreakers /\ UNCHANGED <<claims, sends>>

\* _complete: the profile is past its price or its breaker refuses ...
Skip(c) ==
  /\ At(c, "turn") /\ call[c].i \in DOMAIN Chain
  /\ P(c) \in Stale \/ Refuses(breaker[P(c)])
  /\ Set(c, NextTurn(call[c]))
  /\ KeepBreakers /\ UNCHANGED <<claims, sends>>

\* ... or it is tried.
Try(c) ==
  /\ At(c, "turn") /\ call[c].i \in DOMAIN Chain
  /\ P(c) \notin Stale /\ ~Refuses(breaker[P(c)])
  /\ breaker' = [breaker EXCEPT ![P(c)] = Allowed(@)]
  /\ trials' = [trials EXCEPT ![P(c)] =
                  IF breaker[P(c)].state = "closed" THEN @ ELSE Lesser(@ + 1, 2)]
  /\ Set(c, [call[c] EXCEPT !.pc = "attempt"])
  /\ UNCHANGED <<cuts, claims, sends>>

\* No profile is left: BreakerOpen, ProviderUnavailable, ...; or the row that
\* tells of a refusal was not written.
EndOfChain(c) ==
  /\ At(c, "turn")
  /\ call[c].i \in DOMAIN Chain => P(c) \notin Stale /\ Refuses(breaker[P(c)])
  /\ Abort(c, call[c])
  /\ UNCHANGED <<claims, sends>>

\* _attempt, up to its reservation: the guard of the caller or the deadline
\* ends the call, the spend guard refuses, or the caller is cancelled ...
AttemptRefused(c) ==
  /\ At(c, "attempt")
  /\ Abort(c, call[c])
  /\ UNCHANGED <<claims, sends>>

\* ... or the worst case is reserved.
Reserve(c) ==
  /\ At(c, "attempt")
  /\ Set(c, [NoCall EXCEPT !.pc = "reserved", !.i = call[c].i, !.reserved = TRUE,
                 !.transient = call[c].transient, !.schema = call[c].schema,
                 !.counted = call[c].counted])
  /\ KeepBreakers /\ UNCHANGED <<claims, sends>>

\* The count as it was read before the claims of the requests still out.
FaultyClaim(c) ==
  LET out == {d \in Caller : call[d].pc = "sent" /\ call[d].counted} IN
  IF call[c].counted
  THEN claims < CallCap + Cardinality(out) /\ claims' = Lesser(claims + 1, CallCap)
  ELSE UNCHANGED claims

\* DbLedger.claim: one statement, on the row of the lineage.
Claim(c) ==
  IF call[c].counted THEN claims < CallCap /\ claims' = claims + 1 ELSE UNCHANGED claims

\* The precheck passes, a call of the lineage is claimed, the request goes out.
Send(c) ==
  /\ At(c, "reserved")
  /\ Claim(c)
  /\ sends' = IF call[c].counted THEN Lesser(sends + 1, CallCap + 1) ELSE sends
  /\ Set(c, [call[c] EXCEPT !.pc = "sent", !.sent = TRUE])
  /\ KeepBreakers

\* The precheck denies, the lineage is at its ceiling or the caller is
\* cancelled: nothing was sent, the reservation is settled at 0.
Unsent(c) ==
  /\ At(c, "reserved")
  /\ \E r \in LastSettlement(call[c]) : Abort(c, r)
  /\ UNCHANGED <<claims, sends>>

\* The call was claimed, but the prechecks left no time to send it (or the
\* reply to the claim was lost).
ClaimedTooLate(c) ==
  /\ At(c, "reserved")
  /\ Claim(c)
  /\ \E r \in LastSettlement(call[c]) : Abort(c, r)
  /\ UNCHANGED sends

\* The attempt ends; what it is charged is being settled.
Answered(c) ==
  /\ At(c, "sent")
  /\ \E a \in Answer :
       /\ a.cut => P(c) \in Capped
       /\ Set(c, [call[c] EXCEPT !.pc = "settle", !.answer = a])
  /\ KeepBreakers /\ UNCHANGED <<claims, sends>>

\* The caller is cancelled while the request is out: settled and recorded in
\* one piece of bookkeeping; at its deadline it is a failure of the profile.
CancelSent(c) ==
  /\ At(c, "sent")
  /\ \E r \in {Recorded(Settled(call[c]))} \union SettlementLost(call[c]) :
       Set(c, Ended(r))
  /\ \/ Become(P(c), Failed(breaker[P(c)])) /\ UNCHANGED cuts
     \/ KeepBreakers
  /\ UNCHANGED <<claims, sends>>

Settle(c) ==
  /\ At(c, "settle")
  /\ Set(c, [Settled(call[c]) EXCEPT !.pc = "record"])
  /\ KeepBreakers /\ UNCHANGED <<claims, sends>>

\* The caller is cancelled: the settlement goes on, but the row that would
\* have been written after it is not.
CancelSettle(c) ==
  /\ At(c, "settle")
  /\ Abort(c, Settled(call[c]))
  /\ UNCHANGED <<claims, sends>>

\* The row is being written: it is, unless nothing shields it.
CancelRecord(c) ==
  /\ At(c, "record")
  /\ \/ Abort(c, Recorded(call[c]))
     \/ call[c].answer.row = "bare" /\ Abort(c, call[c])
  /\ UNCHANGED <<claims, sends>>

\* The database fails in the settlement ...
SettleFails(c) ==
  /\ At(c, "settle")
  /\ \E r \in SettlementLost(call[c]) : Abort(c, r)
  /\ UNCHANGED <<claims, sends>>

FaultyRecordFails(c) ==
  /\ At(c, "record")
  /\ Set(c, [call[c] EXCEPT !.pc = "settle", !.failed = TRUE,
               !.answer = [kind |-> "transient", cut |-> FALSE, row |-> "kept"]])
  /\ KeepBreakers /\ UNCHANGED <<claims, sends>>

\* ... or when the row is written, before or after its commit: the attempt
\* was settled and must not be settled as uncertain.
RecordFails(c) ==
  /\ At(c, "record")
  /\ \E r \in {call[c], Recorded(call[c])} : Abort(c, [r EXCEPT !.failed = TRUE])
  /\ UNCHANGED <<claims, sends>>

\* _run_profile, once the row is written: a good answer ends the call ...
Good(c) ==
  /\ At(c, "record") /\ call[c].answer.kind = "response"
  /\ Set(c, Ended(Recorded(call[c])))
  /\ Become(P(c), Succeeded(breaker[P(c)]))
  /\ UNCHANGED <<cuts, claims, sends>>

\* An answer that breaks the schema may go to a later profile instead.
HasLater(c) == c \in Onward /\ call[c].i < Len(Chain)

\* ... a bad one is asked for once more ...
BadAgain(c) ==
  /\ At(c, "record") /\ call[c].answer.kind = "response"
  /\ call[c].schema = 0
  /\ Set(c, [Recorded(call[c]) EXCEPT !.pc = "attempt", !.schema = 1])
  /\ KeepBreakers /\ UNCHANGED <<claims, sends>>

\* ... or given up (at once if a later profile may answer: it was truncated, or
\* a retry is not affordable); the profile itself works.
BadGivenUp(c) ==
  /\ At(c, "record") /\ call[c].answer.kind = "response"
  /\ call[c].schema = 1 \/ HasLater(c)
  /\ Set(c, IF HasLater(c) THEN NextTurn(Recorded(call[c]))
            ELSE Ended(Recorded(call[c])))
  /\ Become(P(c), Succeeded(breaker[P(c)]))
  /\ UNCHANGED <<cuts, claims, sends>>

FaultyRetries(c) == c \notin Latency

\* A transient failure is tried again, except for a latency caller.
Retries(c) == c \notin Latency /\ call[c].transient + 1 < MaxTransient

TransientAgain(c) ==
  /\ At(c, "record") /\ call[c].answer.kind = "transient"
  /\ Retries(c)
  /\ Set(c, [Recorded(call[c]) EXCEPT !.pc = "attempt", !.transient = Lesser(@ + 1, MaxTransient)])
  /\ KeepBreakers /\ UNCHANGED <<claims, sends>>

\* No room for the backoff before the deadline: DeadlineExceeded.
NoRoomToRetry(c) ==
  /\ At(c, "record") /\ call[c].answer.kind = "transient"
  /\ Retries(c)
  /\ Abort(c, Recorded(call[c]))
  /\ UNCHANGED <<claims, sends>>

\* _Exhausted: the profile failed, or was cut (which only a latency caller
\* tells apart), and the next one has its turn.
Exhausted(c) ==
  /\ At(c, "record")
  /\ \/ call[c].answer.kind = "fatal"
     \/ call[c].answer.kind = "transient" /\ ~Retries(c)
  /\ Set(c, NextTurn(Recorded(call[c])))
  /\ IF call[c].answer.cut /\ c \in Latency
     THEN Cut(P(c))
     ELSE Become(P(c), Failed(breaker[P(c)])) /\ UNCHANGED cuts
  /\ UNCHANGED <<claims, sends>>

\* Time passes: windows run out, cuts grow old.
Tick ==
  /\ breaker' = [p \in Profile |->
       [breaker[p] EXCEPT !.rest = IF @ > 0 THEN @ - 1 ELSE 0]]
  /\ cuts' = [p \in Profile |->
       SelectSeq([k \in DOMAIN cuts[p] |-> cuts[p][k] + 1], LAMBDA age : age <= CutWindow)]
  /\ UNCHANGED <<call, claims, sends, trials>>

-----------------------------------------------------------------------------
\* What becomes of an attempt that is at work, whatever its caller does.
Outcome(c) ==
  \/ Good(c) \/ BadAgain(c) \/ BadGivenUp(c)
  \/ TransientAgain(c) \/ NoRoomToRetry(c) \/ Exhausted(c)

Progress(c) ==
  \/ Skip(c) \/ Try(c) \/ EndOfChain(c) \/ AttemptRefused(c) \/ Reserve(c)
  \/ Send(c) \/ Unsent(c) \/ ClaimedTooLate(c) \/ Answered(c) \/ CancelSent(c)
  \/ Settle(c) \/ CancelSettle(c) \/ SettleFails(c)
  \/ CancelRecord(c) \/ RecordFails(c) \/ Outcome(c)

Next ==
  \/ Tick
  \/ \E c \in Caller : Begin(c) \/ Progress(c)

SafeSpec == Init /\ [][Next]_vars

\* Every await of a call ends (requests have a timeout, backoffs end), and
\* time passes.
Fairness == WF_vars(Tick) /\ \A c \in Caller : WF_vars(Progress(c))

Spec == SafeSpec /\ Fairness

-----------------------------------------------------------------------------
(* Properties.                                                             *)

Breakers ==
  [state : {"closed", "open", "half_open"}, rest : 0..MaxWindow,
   window : BaseWindow..MaxWindow, failures : 0..Threshold, trial : BOOLEAN]

Calls ==
  [pc : {"idle", "turn", "attempt", "reserved", "sent", "settle", "record"},
   i : 1..(Len(Chain) + 1), transient : 0..MaxTransient, schema : 0..1,
   reserved : BOOLEAN, settles : 0..2, sent : BOOLEAN, rows : 0..2,
   answer : Answer \union {Null}, failed : BOOLEAN, counted : BOOLEAN]

\* What is known of an attempt that is over.
Over(r) == r.pc \in {"idle", "turn", "attempt"} /\ r.reserved

\* Types and ranges.  In particular the window of a breaker (window_s of
\* Breaker) stays between breaker_open_s and breaker_max_open_s.
TypeOK ==
  /\ breaker \in [Profile -> Breakers]
  /\ trials \in [Profile -> 0..2]
  /\ call \in [Caller -> Calls]
  /\ claims \in 0..CallCap
  /\ sends \in 0..(CallCap + 1)

\* The books of _attempt and _read: whatever is answered, cancelled or lost, a
\* reservation is settled at most once, exactly once unless the database
\* failed, and no row is written twice or of an attempt that was not settled.
BookedOnce ==
  \A c \in Caller :
    /\ call[c].settles <= 1
    /\ call[c].rows <= call[c].settles
    /\ Over(call[c]) /\ ~call[c].failed => call[c].settles = 1

\* _claim_call: calls of one lineage that run at the same time never send
\* more requests than its ceiling allows.
CallCeiling == sends <= CallCap

\* Breaker.allow: until a breaker closes again, at most one call is let
\* through for each time it opened, however many ask and however late the
\* calls from before the opening end.
OneTrial == \A p \in Profile : breaker[p].state # "closed" => trials[p] <= 1

\* Retries, schema retries and the chain are bounded: every call ends.
EveryCallEnds == \A c \in Caller : call[c].pc # "idle" ~> call[c].pc = "idle"

-----------------------------------------------------------------------------
(* What the documentation says and the code does not do.                   *)

\* The module's docstring: an open breaker refuses for 60 s, doubled by failed
\* trials up to 15 min.  So a profile that is refused is admitted again.
RefusalEnds == \A p \in Profile : Refuses(breaker[p]) ~> ~Refuses(breaker[p])

-----------------------------------------------------------------------------
(* The inductive invariant behind the safety properties.                   *)

\* A breaker is half open exactly while its one trial is out.
BreakerInv ==
  \A p \in Profile :
    /\ breaker[p].state = "half_open" => breaker[p].trial /\ trials[p] = 1
    /\ breaker[p].state = "open" => ~breaker[p].trial /\ trials[p] = 0
    /\ breaker[p].state = "closed" => ~breaker[p].trial

\* What is known, and what is booked, at each point of an attempt.
BookInv ==
  \A c \in Caller : LET r == call[c] IN
    /\ r.pc \notin {"idle", "turn"} => r.i \in DOMAIN Chain
    /\ r.pc \in {"settle", "record"} => r.answer \in Answer
    /\ r.pc \in {"reserved", "sent", "settle"} => r.settles = 0 /\ r.rows = 0
    /\ r.pc = "record" => r.settles = 1 /\ r.rows = 0
    /\ r.pc \in {"reserved", "sent", "settle", "record"} => ~r.failed

\* Every request of the lineage was claimed.
ClaimInv == sends <= claims /\ claims <= CallCap

IInv == TypeOK /\ BookedOnce /\ BreakerInv /\ BookInv /\ ClaimInv
=============================================================================
