--------------------------- MODULE JobLeaseProofs ---------------------------
(***************************************************************************)
(* Proofs about JobLease, for every number of jobs, processes, slots and   *)
(* tokens: the fencing of the job rows and the history of each job are     *)
(* invariants, no job ends twice, and the queue implements the safety part *)
(* of JobPromise.                                                          *)
(***************************************************************************)
EXTENDS JobLease, FiniteSetTheorems, TLAPS

USE ConstantsAssumption

\* The initial state satisfies the inductive invariant.
LEMMA InitIInv == Init => IInv
<1> SUFFICES ASSUME Init PROVE IInv
  OBVIOUS
<1>1. TypeOK
  BY DEF Init, TypeOK, Row, Status, LeasedJob, NoRow, Unleased, Idle
<1>2. Fencing
  BY DEF Init, Fencing, NoRow, Unleased, Idle
<1>3. History
  BY DEF Init, History, JobHistory, NoRow, Unleased, Terminal
<1> QED BY <1>1, <1>2, <1>3 DEF IInv

\* The four statements on a row keep its type.
LEMMA RowTypes ==
  ASSUME NEW r \in Row
  PROVE  /\ \A t \in Token : Leased(r, t) \in Row
         /\ Done(r) \in Row
         /\ HandedBack(r) \in Row
         /\ \A p \in BOOLEAN : BackedOff(r, p) \in Row
BY DEF Row, Status, Leased, Done, HandedBack, BackedOff, Unleased

\* Inserting an event keeps the log's type.
LEMMA InsertType ==
  ASSUME TypeOK, NEW j \in Job, NEW e \in Event
  PROVE  Insert(j, e) \in [Job -> Seq(Event)]
BY DEF TypeOK, Insert

\* A slot that gives its job up leaves well-typed variables behind.
LEMMA ReleaseType ==
  ASSUME TypeOK, NEW s \in Slot, slot[s].pc # "idle", Release(s)
  PROVE  /\ slot' \in [Slot -> LeasedJob]
         /\ lost' \in [Slot -> BOOLEAN]
         /\ watched' \in [Proc -> [Job -> Slot \union {Null}]]
         /\ slot' = [slot EXCEPT ![s] = Idle]
<1>1. Idle \in LeasedJob
  BY DEF Idle, LeasedJob
<1>2. slot[s].job \in Job /\ ProcOf[s] \in Proc
  BY DEF TypeOK, LeasedJob
<1> QED BY <1>1, <1>2 DEF TypeOK, Release, Unwatch

\* The fields of a slot and of the row it works on.
LEMMA BusySlot ==
  ASSUME TypeOK, NEW s \in Slot, slot[s].pc # "idle"
  PROVE  /\ slot[s].job \in Job
         /\ slot[s].token \in Token
         /\ slot[s].attempts \in Nat
         /\ row[slot[s].job] \in Row
         /\ Held(s) \in BOOLEAN
BY DEF TypeOK, LeasedJob, Held

\* The row and the log after the two transactions that end or defer a job.
LEMMA CommitTypes ==
  ASSUME TypeOK, NEW s \in Slot, slot[s].pc # "idle", Commit(s)
  PROVE  row' \in [Job -> Row] /\ log' \in [Job -> Seq(Event)]
<1> DEFINE j == slot[s].job
           e == [kind |-> "done", attempts |-> slot[s].attempts]
<1>1. e \in Event /\ j \in Job
  BY BusySlot DEF Event
<1>2. Insert(j, e) \in [Job -> Seq(Event)]
  BY <1>1, InsertType
<1>3. Done(row[j]) \in Row
  BY <1>1, BusySlot, RowTypes
<1> QED BY <1>1, <1>2, <1>3 DEF Commit, TypeOK

\* A job sent back, or dead, keeps the queue's row and its history well typed.
LEMMA BackOffTypes ==
  ASSUME TypeOK, NEW s \in Slot, BackOff(s)
  PROVE  row' \in [Job -> Row] /\ log' \in [Job -> Seq(Event)]
<1> DEFINE j == slot[s].job
           e == [kind |-> IF Permanent(s) THEN "failed" ELSE "deferred",
                 attempts |-> row[j].attempts]
<1>0. slot[s].pc # "idle"
  BY DEF BackOff
<1>1. e \in Event /\ j \in Job
  BY <1>0, BusySlot DEF Event, Row
<1>2. Insert(j, e) \in [Job -> Seq(Event)]
  BY <1>1, InsertType
<1>3. Permanent(s) \in BOOLEAN
  BY DEF Permanent
<1>4. BackedOff(row[j], Permanent(s)) \in Row
  BY <1>0, <1>3, BusySlot, RowTypes
<1> QED BY <1>1, <1>2, <1>4 DEF BackOff, TypeOK

\* Row tokens and busy slots: the part of TypeOK that relates two fields.
Tokens == \A j \in Job : row[j].token # Null <=> row[j].status = "running"
Busy == \A s \in Slot : /\ slot[s].pc # "idle" <=> slot[s].job # Null
                        /\ slot[s].pc # "idle" <=> slot[s].token # Null

\* The parts of the type invariant the fencing argument needs: the slots'
\* tokens and what they hold.
LEMMA TypeParts == TypeOK => Tokens /\ Busy
BY DEF TypeOK, Tokens, Busy

\* The token of a lease is one that no row and no slot has.
LEMMA NewTokenFresh ==
  ASSUME NEW t \in Token, FreshToken(t)
  PROVE  NewToken \in Token /\ FreshToken(NewToken)
BY DEF NewToken

\* Changing the clock fields of a row.
LEMMA ClockUpdate ==
  ASSUME NEW r \in Row, NEW b \in BOOLEAN
  PROVE  /\ [r EXCEPT !.due = b] \in Row
         /\ [r EXCEPT !.due = b].status = r.status
         /\ [r EXCEPT !.due = b].token = r.token
         /\ [r EXCEPT !.expired = b] \in Row
         /\ [r EXCEPT !.expired = b].status = r.status
         /\ [r EXCEPT !.expired = b].token = r.token
         /\ [r EXCEPT !.expired = b].attempts = r.attempts
         /\ [r EXCEPT !.due = b].attempts = r.attempts
BY DEF Row

\* Changing how far a slot got.
LEMMA PcUpdate ==
  ASSUME NEW b \in LeasedJob, NEW pc \in {"apply", "handback", "backoff", "fail"}
  PROVE  /\ [b EXCEPT !.pc = pc] \in LeasedJob
         /\ [b EXCEPT !.pc = pc].pc = pc
         /\ [b EXCEPT !.pc = pc].job = b.job
         /\ [b EXCEPT !.pc = pc].token = b.token
         /\ [b EXCEPT !.pc = pc].attempts = b.attempts
BY DEF LeasedJob

\* A step that replaces one row and nothing else.
LEMMA RowUpdate ==
  ASSUME TypeOK, NEW j \in Job, NEW r \in Row,
         r.token # Null <=> r.status = "running",
         row' = [row EXCEPT ![j] = r],
         UNCHANGED <<log, slot, lost, watched, paused>>, faults' \in Nat
  PROVE  TypeOK'
<1>1. row' \in [Job -> Row]
  BY DEF TypeOK
<1>2. Tokens'
  BY DEF TypeOK, Tokens
<1>3. Busy'
  BY DEF TypeOK, Busy
<1> QED BY <1>1, <1>2, <1>3 DEF TypeOK, Tokens, Busy

\* TypeOK is inductive.
LEMMA TypeStep == TypeOK /\ [Next]_vars => TypeOK'
<1> SUFFICES ASSUME TypeOK, [Next]_vars PROVE TypeOK'
  OBVIOUS
<1>1. ASSUME NEW j \in Job, Enqueue(j) PROVE TypeOK'
  <2> PICK due \in BOOLEAN :
        row' = [row EXCEPT ![j] = [Unleased("queued", 0) EXCEPT !.due = due]]
    BY <1>1 DEF Enqueue
  <2> DEFINE r == [Unleased("queued", 0) EXCEPT !.due = due]
  <2>1. r \in Row /\ r.token = Null /\ r.status = "queued"
    BY DEF Unleased, Row, Status
  <2>2. faults' \in Nat /\ UNCHANGED <<log, slot, lost, watched, paused>>
    BY <1>1 DEF Enqueue, TypeOK
  <2>3. row' = [row EXCEPT ![j] = r]
    OBVIOUS
  <2>4. r.token # Null <=> r.status = "running"
    BY <2>1
  <2> HIDE DEF r
  <2> QED BY <2>1, <2>2, <2>3, <2>4, RowUpdate
<1>2. ASSUME NEW j \in Job, BecomeDue(j) PROVE TypeOK'
  <2> DEFINE r == [row[j] EXCEPT !.due = TRUE]
  <2>1. r \in Row /\ r.token = row[j].token /\ r.status = row[j].status
    BY ClockUpdate DEF TypeOK
  <2>2. row' = [row EXCEPT ![j] = r]
    BY <1>2 DEF BecomeDue
  <2>3. faults' \in Nat /\ UNCHANGED <<log, slot, lost, watched, paused>>
    BY <1>2 DEF BecomeDue, TypeOK
  <2>4. r.token # Null <=> r.status = "running"
    BY <2>1, TypeParts DEF Tokens
  <2> HIDE DEF r
  <2> QED BY <2>1, <2>2, <2>3, <2>4, RowUpdate
<1>3. ASSUME NEW j \in Job, ExpireAbandoned(j) \/ ExpireHeld(j) PROVE TypeOK'
  <2> DEFINE r == [row[j] EXCEPT !.expired = TRUE]
  <2>1. r \in Row /\ r.token = row[j].token /\ r.status = row[j].status
    BY ClockUpdate DEF TypeOK
  <2>2. row' = [row EXCEPT ![j] = r] /\ UNCHANGED <<log, slot, lost, watched, paused>>
    BY <1>3 DEF ExpireAbandoned, ExpireHeld, RunOut
  <2>3. faults' \in Nat
    BY <1>3 DEF ExpireAbandoned, ExpireHeld, Fault, TypeOK
  <2> HIDE DEF r
  <2> QED BY <2>1, <2>2, <2>3, RowUpdate DEF TypeOK
<1>4. ASSUME NEW s \in Slot, Lease(s) PROVE TypeOK'
  <2>0. NewToken \in Token
    BY <1>4, NewTokenFresh DEF Lease
  <2> PICK j \in Job, t \in Token :
        /\ row' = [row EXCEPT ![j] = Leased(@, t)]
        /\ slot' = [slot EXCEPT ![s] =
                      [pc |-> IF j \in UnknownOp THEN "fail" ELSE "plan",
                       job |-> j, token |-> t, attempts |-> row[j].attempts + 1]]
        /\ lost' = [lost EXCEPT ![s] = FALSE]
        /\ watched' = IF j \in UnknownOp THEN watched
                      ELSE [watched EXCEPT ![ProcOf[s]][j] = s]
        /\ UNCHANGED <<log, paused, faults>>
    BY <1>4, <2>0 DEF Lease
  <2>1. row[j] \in Row /\ Leased(row[j], t) \in Row
    BY RowTypes DEF TypeOK
  <2>2. row' \in [Job -> Row]
    BY <2>1 DEF TypeOK
  <2>3. slot' \in [Slot -> LeasedJob]
    BY <2>1 DEF TypeOK, LeasedJob, Row
  <2>4. watched' \in [Proc -> [Job -> Slot \union {Null}]]
    BY DEF TypeOK
  <2>5. Tokens'
    BY DEF TypeOK, Tokens, Leased
  <2>6. Busy'
    <3> SUFFICES ASSUME NEW u \in Slot
                 PROVE  /\ slot'[u].pc # "idle" <=> slot'[u].job # Null
                        /\ slot'[u].pc # "idle" <=> slot'[u].token # Null
      BY DEF Busy
    <3>1. CASE u = s
      BY <3>1 DEF TypeOK
    <3>2. CASE u # s
      BY <3>2 DEF TypeOK
    <3> QED BY <3>1, <3>2
  <2> QED BY <2>2, <2>3, <2>4, <2>5, <2>6 DEF TypeOK, Tokens, Busy
<1>5. ASSUME NEW s \in Slot, SlotStep(s) PROVE TypeOK'
  <2>0. slot[s].pc # "idle"
    BY <1>5 DEF SlotStep, PlanReturns, PlanRaisesSystemic, PlanRaises, Apply,
        ApplyUnacknowledged, ApplyRaises, HandBack, BackOff, DeferRaises
  <2>1. faults' \in Nat /\ paused' \subseteq Proc
    BY <1>5 DEF SlotStep, PlanReturns, PlanRaisesSystemic, PlanRaises, Apply,
        ApplyUnacknowledged, ApplyRaises, HandBack, BackOff, DeferRaises, Fault, TypeOK
  <2>2. /\ slot' \in [Slot -> LeasedJob]
        /\ lost' \in [Slot -> BOOLEAN]
        /\ watched' \in [Proc -> [Job -> Slot \union {Null}]]
        /\ Busy'
    <3>1. CASE Release(s)
      <4>1. slot' = [slot EXCEPT ![s] = Idle]
        BY <2>0, <3>1, ReleaseType
      <4>2. Busy'
        BY <4>1 DEF TypeOK, Busy, Idle
      <4> QED BY <2>0, <3>1, <4>2, ReleaseType
    <3>2. CASE \E pc \in {"apply", "handback", "backoff", "fail"} : GoTo(s, pc)
      <4> PICK pc \in {"apply", "handback", "backoff", "fail"} :
            slot' = [slot EXCEPT ![s] = [slot[s] EXCEPT !.pc = pc]]
        BY <3>2 DEF GoTo
      <4> DEFINE b == [slot[s] EXCEPT !.pc = pc]
      <4>1. b \in LeasedJob /\ b.pc = pc /\ b.job = slot[s].job /\ b.token = slot[s].token
        <5>1. slot[s] \in LeasedJob
          BY DEF TypeOK
        <5> QED BY <5>1 DEF LeasedJob
      <4>2. slot' = [slot EXCEPT ![s] = b]
        OBVIOUS
      <4> HIDE DEF b
      <4>3. slot' \in [Slot -> LeasedJob]
        BY <4>1, <4>2 DEF TypeOK
      <4>4. Busy'
        BY <2>0, <4>1, <4>2 DEF TypeOK, Busy
      <4> QED BY <3>2, <4>3, <4>4 DEF GoTo, TypeOK
    <3> QED BY <1>5, <3>1, <3>2 DEF SlotStep, PlanReturns, PlanRaisesSystemic,
        PlanRaises, Apply, ApplyUnacknowledged, ApplyRaises, HandBack, BackOff, DeferRaises
  <2>3. /\ row' \in [Job -> Row]
        /\ log' \in [Job -> Seq(Event)]
        /\ Tokens'
    <3>1. CASE Commit(s)
      BY <2>0, <3>1, CommitTypes, BusySlot DEF Commit, TypeOK, Tokens, Done, Unleased
    <3>2. CASE BackOff(s)
      BY <2>0, <3>2, BackOffTypes, BusySlot DEF BackOff, TypeOK, Tokens, BackedOff, Unleased
    <3>3. CASE HandBack(s)
      BY <2>0, <3>3, RowTypes, BusySlot DEF HandBack, TypeOK, Tokens, HandedBack, Unleased
    <3>4. CASE UNCHANGED <<row, log>>
      BY <3>4 DEF TypeOK, Tokens
    <3> QED BY <1>5, <3>1, <3>2, <3>3, <3>4 DEF SlotStep, PlanReturns, PlanRaisesSystemic,
        PlanRaises, Apply, ApplyUnacknowledged, ApplyRaises, DeferRaises
  <2> QED BY <2>1, <2>2, <2>3 DEF TypeOK, Tokens, Busy
<1>6. ASSUME NEW p \in Proc, Renew(p) PROVE TypeOK'
  <2> PICK R \in SUBSET Job :
        /\ row' = [j \in Job |->
                    IF j \in R THEN [row[j] EXCEPT !.expired = FALSE] ELSE row[j]]
        /\ UNCHANGED <<log, slot, watched, paused, faults>>
    BY <1>6 DEF Renew
  <2>1. ASSUME NEW j \in Job
        PROVE  /\ row'[j] \in Row
               /\ row'[j].token = row[j].token /\ row'[j].status = row[j].status
    <3>1. CASE j \in R
      BY <3>1, ClockUpdate DEF TypeOK
    <3>2. CASE j \notin R
      BY <3>2 DEF TypeOK
    <3> QED BY <3>1, <3>2
  <2>2. row' \in [Job -> Row]
    BY <2>1
  <2>3. lost' \in [Slot -> BOOLEAN]
    BY <1>6 DEF Renew, TypeOK
  <2>4. Tokens'
    BY <2>1 DEF TypeOK, Tokens
  <2>5. Busy'
    BY DEF TypeOK, Busy
  <2> QED BY <2>2, <2>3, <2>4, <2>5 DEF TypeOK, Tokens, Busy
<1>7. ASSUME NEW p \in Proc, Crash(p) PROVE TypeOK'
  <2>1. Idle \in LeasedJob
    BY DEF Idle, LeasedJob
  <2>2. slot' \in [Slot -> LeasedJob]
    BY <1>7, <2>1 DEF Crash, TypeOK
  <2>3. /\ lost' \in [Slot -> BOOLEAN]
        /\ faults' \in Nat
    <3>1. lost \in [Slot -> BOOLEAN]
      BY DEF TypeOK
    <3>2. lost' = [s \in Slot |-> IF ProcOf[s] = p THEN FALSE ELSE lost[s]]
      BY <1>7 DEF Crash
    <3>3. lost' \in [Slot -> BOOLEAN]
      BY <3>1, <3>2, Zenon
    <3>4. faults' \in Nat
      BY <1>7 DEF Crash, TypeOK, Fault
    <3> QED BY <3>3, <3>4
  <2>6. /\ watched' \in [Proc -> [Job -> Slot \union {Null}]]
        /\ paused' \subseteq Proc
    BY <1>7 DEF Crash, TypeOK
  <2>4. Busy'
    BY <1>7 DEF Crash, TypeOK, Busy, Idle
  <2>5. row' \in [Job -> Row] /\ log' \in [Job -> Seq(Event)] /\ Tokens'
    BY <1>7 DEF Crash, TypeOK, Tokens
  <2> QED BY <2>2, <2>3, <2>4, <2>5, <2>6 DEF TypeOK, Tokens, Busy
<1>8. ASSUME Rebuild PROVE TypeOK'
  <2>1. ASSUME NEW j \in Job
        PROVE  Replayed(j) \in Row /\ Replayed(j).token = Null
                                  /\ Replayed(j).status # "running"
    <3>1. log[j] \in Seq(Event)
      BY DEF TypeOK
    <3>2. CASE row[j].status = "absent"
      BY <3>2 DEF Replayed, NoRow, Unleased, Row, Status
    <3>3. CASE row[j].status # "absent" /\ Len(log[j]) = 0
      BY <3>3 DEF Replayed, Unleased, Row, Status
    <3>4. CASE row[j].status # "absent" /\ Len(log[j]) # 0
      <4>1. log[j][Len(log[j])] \in Event
        BY <3>1, <3>4
      <4> QED BY <4>1, <3>4 DEF Replayed, Unleased, Row, Status, Event
    <3> QED BY <3>2, <3>3, <3>4
  <2> QED BY <1>8, <2>1 DEF Rebuild, TypeOK, Fault
<1>9. ASSUME NEW p \in Proc, Resume(p) PROVE TypeOK'
  BY <1>9 DEF TypeOK, Resume
<1>10. CASE UNCHANGED vars
  BY <1>10 DEF TypeOK, vars
<1> QED BY <1>1, <1>2, <1>3, <1>4, <1>5, <1>6, <1>7, <1>8, <1>9, <1>10 DEF Next

-----------------------------------------------------------------------------
(* Fencing.                                                                *)

\* A step that keeps or clears row tokens, and keeps, frees or advances slots,
\* keeps the fencing.
LEMMA FencingKept ==
  ASSUME TypeOK, TypeOK', Fencing,
         \A j \in Job : \/ row'[j].token = Null
                        \/ /\ row'[j].token = row[j].token
                           /\ row'[j].attempts = row[j].attempts,
         \A s \in Slot : \/ slot'[s] = Idle
                         \/ /\ slot'[s].job = slot[s].job
                            /\ slot'[s].token = slot[s].token
                            /\ slot'[s].attempts = slot[s].attempts
  PROVE  Fencing'
<1>0. Tokens /\ Busy /\ Tokens' /\ Busy'
  BY TypeParts DEF TypeOK, Tokens, Busy
<1>1. ASSUME NEW s \in Slot, slot'[s].pc # "idle"
      PROVE  /\ slot'[s].token # Null /\ slot[s].pc # "idle"
             /\ slot'[s].job = slot[s].job
             /\ slot'[s].token = slot[s].token
             /\ slot'[s].attempts = slot[s].attempts
  BY <1>0, <1>1 DEF Busy, Idle
<1>2. ASSUME NEW s \in Slot, NEW j \in Job,
             slot'[s].pc # "idle", row'[j].token = slot'[s].token
      PROVE  slot'[s].job = j /\ slot'[s].attempts = row'[j].attempts
  BY <1>1, <1>2 DEF Fencing
<1>3. ASSUME NEW s \in Slot, NEW u \in Slot,
             slot'[s].pc # "idle", slot'[s].token = slot'[u].token
      PROVE  s = u
  <2>1. slot'[u].pc # "idle"
    BY <1>0, <1>1, <1>3 DEF Busy
  <2> QED BY <1>1, <1>3, <2>1 DEF Fencing
<1> QED BY <1>2, <1>3 DEF Fencing

\* What a step of a busy slot does to the slots.
LEMMA SlotStepSlots ==
  ASSUME NEW s \in Slot, SlotStep(s), TypeOK
  PROVE  /\ slot[s].pc # "idle"
         /\ \A u \in Slot : \/ slot'[u] = Idle
                            \/ /\ slot'[u].job = slot[u].job
                               /\ slot'[u].token = slot[u].token
                               /\ slot'[u].attempts = slot[u].attempts
<1>1. slot[s].pc # "idle"
  BY DEF SlotStep, PlanReturns, PlanRaisesSystemic, PlanRaises, Apply,
      ApplyUnacknowledged, ApplyRaises, HandBack, BackOff, DeferRaises
<1>2. CASE Release(s)
  <2>1. slot' = [slot EXCEPT ![s] = Idle]
    BY <1>2 DEF Release
  <2>2. slot'[s] = Idle /\ \A u \in Slot \ {s} : slot'[u] = slot[u]
    BY <2>1 DEF TypeOK
  <2> QED BY <1>1, <2>2
<1>3. CASE \E pc \in {"apply", "handback", "backoff", "fail"} : GoTo(s, pc)
  <2> PICK pc \in {"apply", "handback", "backoff", "fail"} :
        slot' = [slot EXCEPT ![s] = [slot[s] EXCEPT !.pc = pc]]
    BY <1>3 DEF GoTo
  <2>1. slot[s] \in LeasedJob
    BY DEF TypeOK
  <2>2. slot'[s] = [slot[s] EXCEPT !.pc = pc] /\ \A u \in Slot \ {s} : slot'[u] = slot[u]
    BY DEF TypeOK
  <2> QED BY <1>1, <2>1, <2>2, PcUpdate
<1> QED BY <1>1, <1>2, <1>3 DEF SlotStep, PlanReturns, PlanRaisesSystemic,
        PlanRaises, Apply, ApplyUnacknowledged, ApplyRaises, HandBack, BackOff, DeferRaises

\* What a step of a busy slot does to the rows: its own row, and only while
\* it holds the lease.
LEMMA SlotStepRows ==
  ASSUME NEW s \in Slot, SlotStep(s), TypeOK
  PROVE  \A j \in Job : \/ row'[j] = row[j]
                        \/ row'[j].token = Null /\ j = slot[s].job /\ Held(s)
<1>0. slot[s].job \in Job
  BY SlotStepSlots, BusySlot
<1>1. CASE Commit(s)
  BY <1>0, <1>1 DEF Commit, TypeOK, Done, Unleased
<1>2. CASE BackOff(s)
  BY <1>0, <1>2 DEF BackOff, TypeOK, BackedOff, Unleased
<1>3. CASE HandBack(s)
  BY <1>0, <1>3 DEF HandBack, TypeOK, HandedBack, Unleased
<1>4. CASE UNCHANGED <<row, log>>
  BY <1>4
<1> QED BY <1>1, <1>2, <1>3, <1>4 DEF SlotStep, PlanReturns, PlanRaisesSystemic,
        PlanRaises, Apply, ApplyUnacknowledged, ApplyRaises, DeferRaises

\* No step lets a slot hold a token the row has not handed out.
LEMMA FencingStep == TypeOK /\ TypeOK' /\ Fencing /\ [Next]_vars => Fencing'
<1> SUFFICES ASSUME TypeOK, TypeOK', Fencing, [Next]_vars PROVE Fencing'
  OBVIOUS
<1>1. ASSUME NEW j \in Job, Enqueue(j) PROVE Fencing'
  <2>1. \A k \in Job : row'[k].token = Null \/ row'[k] = row[k]
    BY <1>1 DEF Enqueue, TypeOK, Unleased
  <2> QED BY <1>1, <2>1, FencingKept DEF Enqueue
<1>2. ASSUME NEW j \in Job, BecomeDue(j) \/ ExpireAbandoned(j) \/ ExpireHeld(j)
      PROVE  Fencing'
  <2>1. UNCHANGED slot /\ \A k \in Job \ {j} : row'[k] = row[k]
    BY <1>2 DEF BecomeDue, ExpireAbandoned, ExpireHeld, RunOut, TypeOK
  <2>2. row'[j].token = row[j].token /\ row'[j].attempts = row[j].attempts
    <3>1. row[j] \in Row
      BY DEF TypeOK
    <3>2. \/ row' = [row EXCEPT ![j] = [row[j] EXCEPT !.due = TRUE]]
          \/ row' = [row EXCEPT ![j] = [row[j] EXCEPT !.expired = TRUE]]
      BY <1>2 DEF BecomeDue, ExpireAbandoned, ExpireHeld, RunOut
    <3>3. \/ row'[j] = [row[j] EXCEPT !.due = TRUE]
          \/ row'[j] = [row[j] EXCEPT !.expired = TRUE]
      BY <3>2 DEF TypeOK
    <3> QED BY <3>1, <3>3, ClockUpdate
  <2> QED BY <2>1, <2>2, FencingKept
<1>3. ASSUME NEW s \in Slot, Lease(s) PROVE Fencing'
  <2>0. NewToken \in Token /\ FreshToken(NewToken)
    BY <1>3, NewTokenFresh DEF Lease
  <2> PICK j \in Job, t \in Token :
        /\ FreshToken(t)
        /\ row' = [row EXCEPT ![j] = Leased(row[j], t)]
        /\ slot' = [slot EXCEPT ![s] =
                      [pc |-> IF j \in UnknownOp THEN "fail" ELSE "plan",
                       job |-> j, token |-> t, attempts |-> row[j].attempts + 1]]
    BY <1>3, <2>0 DEF Lease
  <2>1. /\ row'[j].token = t /\ row'[j].attempts = row[j].attempts + 1
        /\ \A k \in Job \ {j} : row'[k] = row[k] /\ row'[k].token # t
    BY DEF TypeOK, Leased, FreshToken
  <2>2. /\ slot'[s].token = t /\ slot'[s].job = j
        /\ slot'[s].attempts = row[j].attempts + 1
        /\ \A u \in Slot \ {s} : slot'[u] = slot[u] /\ slot'[u].token # t
    BY DEF TypeOK, FreshToken
  <2> QED BY <2>1, <2>2 DEF Fencing
<1>4. ASSUME NEW s \in Slot, SlotStep(s) PROVE Fencing'
  BY <1>4, SlotStepSlots, SlotStepRows, FencingKept
<1>5. ASSUME NEW p \in Proc, Renew(p) PROVE Fencing'
  <2> PICK R \in SUBSET Job :
        /\ row' = [j \in Job |->
                    IF j \in R THEN [row[j] EXCEPT !.expired = FALSE] ELSE row[j]]
        /\ UNCHANGED slot
    BY <1>5 DEF Renew
  <2>1. ASSUME NEW j \in Job
        PROVE  row'[j].token = row[j].token /\ row'[j].attempts = row[j].attempts
    <3>1. row[j] \in Row
      BY DEF TypeOK
    <3> QED BY <3>1, ClockUpdate
  <2> QED BY <2>1, FencingKept
<1>6. ASSUME NEW p \in Proc, Crash(p) PROVE Fencing'
  <2>1. \A s \in Slot : slot'[s] = Idle \/ slot'[s] = slot[s]
    BY <1>6 DEF Crash
  <2> QED BY <1>6, <2>1, FencingKept DEF Crash
<1>7. ASSUME Rebuild PROVE Fencing'
  <2>1. \A j \in Job : row'[j].token = Null
    BY <1>7 DEF Rebuild, Replayed, NoRow, Unleased
  <2> QED BY <1>7, <2>1, FencingKept DEF Rebuild
<1>8. CASE UNCHANGED vars \/ \E p \in Proc : Resume(p)
  BY <1>8, FencingKept DEF vars, Resume
<1> QED BY <1>1, <1>2, <1>3, <1>4, <1>5, <1>6, <1>7, <1>8 DEF Next

-----------------------------------------------------------------------------
(* History.                                                                *)

\* A job whose events, status and attempt count stay keeps its history.
LEMMA HistoryKept ==
  ASSUME NEW j \in Job, JobHistory(j), log'[j] = log[j],
         row'[j].status = row[j].status, row'[j].attempts = row[j].attempts
  PROVE  JobHistory(j)'
BY DEF JobHistory

\* An event whose request id is new becomes the job's last event.
LEMMA InsertNew ==
  ASSUME TypeOK, NEW j \in Job, NEW e \in Event, ~Recorded(j, e),
         log' = Insert(j, e)
  PROVE  /\ Len(log'[j]) = Len(log[j]) + 1
         /\ \A i \in 1..Len(log[j]) : log'[j][i] = log[j][i]
         /\ log'[j][Len(log[j]) + 1] = e
         /\ \A k \in Job \ {j} : log'[k] = log[k]
<1>1. log' = [log EXCEPT ![j] = Append(log[j], e)]
  BY DEF Insert
<1>2. log[j] \in Seq(Event) /\ log'[j] = Append(log[j], e)
  BY <1>1 DEF TypeOK
<1>3. \A k \in Job \ {j} : log'[k] = log[k]
  BY <1>1 DEF TypeOK
<1> QED BY <1>2, <1>3

\* The events of a running job are back-offs of earlier attempts.
LEMMA RunningHistory ==
  ASSUME TypeOK, NEW j \in Job, JobHistory(j), row[j].status = "running"
  PROVE  /\ row[j].attempts \in Nat /\ row[j].attempts > 0
         /\ Len(log[j]) \in Nat
         /\ DOMAIN log[j] = 1..Len(log[j])
         /\ \A i \in 1..Len(log[j]) :
              /\ log[j][i] \in Event
              /\ log[j][i].kind = "deferred"
              /\ 0 < log[j][i].attempts
              /\ log[j][i].attempts < row[j].attempts
<1>1. log[j] \in Seq(Event) /\ row[j].attempts \in Nat
  BY DEF TypeOK, Row
<1>2. ASSUME NEW i \in 1..Len(log[j])
      PROVE  /\ log[j][i] \in Event
             /\ log[j][i].kind = "deferred"
             /\ 0 < log[j][i].attempts
             /\ log[j][i].attempts < row[j].attempts
  <2>1. log[j][i] \in Event
    BY <1>1
  <2> QED BY <2>1 DEF JobHistory, Event, Terminal
<1> QED BY <1>1, <1>2 DEF JobHistory

\* Recording the end, or a back-off, of a running job continues its history.
LEMMA HistoryExtended ==
  ASSUME TypeOK, NEW j \in Job, JobHistory(j), row[j].status = "running",
         NEW e \in Event, e.attempts = row[j].attempts,
         e.kind = "deferred" => e.attempts < MaxAttempts,
         log' = Insert(j, e), row'[j].attempts = row[j].attempts,
         row'[j].status = IF e.kind = "deferred" THEN "queued" ELSE e.kind
  PROVE  JobHistory(j)' /\ \A k \in Job \ {j} : log'[k] = log[k]
<1> DEFINE n == Len(log[j])
<1>1. ~Recorded(j, e)
  BY RunningHistory DEF Recorded, RequestId
<1>2. /\ Len(log'[j]) = n + 1
      /\ \A i \in 1..n : log'[j][i] = log[j][i]
      /\ log'[j][n + 1] = e
      /\ \A k \in Job \ {j} : log'[k] = log[k]
  BY <1>1, InsertNew
<1>3. n \in Nat /\ n < row[j].attempts /\ row[j].attempts \in Nat
  <2>1. CASE n = 0
    BY <2>1, RunningHistory
  <2>2. CASE n # 0
    <3>1. n \in 1..n
      BY <2>2, RunningHistory
    <3>2. n <= log[j][n].attempts
      BY <3>1 DEF JobHistory
    <3> QED BY <3>1, <3>2, RunningHistory DEF Event
  <2> QED BY <2>1, <2>2
<1>4. ASSUME NEW i \in 1..(n + 1)
      PROVE  /\ i <= log'[j][i].attempts
             /\ log'[j][i].attempts <= row'[j].attempts
             /\ row'[j].status # "running"
             /\ \A k \in 1..(n + 1) : i < k => log'[j][i].attempts < log'[j][k].attempts
             /\ log'[j][i].kind = "deferred" => log'[j][i].attempts < MaxAttempts
             /\ log'[j][i].kind \in Terminal => i = n + 1 /\ row'[j].status = log'[j][i].kind
  <2>1. CASE i = n + 1
    BY <1>2, <1>3, <2>1 DEF Event, Terminal
  <2>2. CASE i # n + 1
    <3>1. i \in 1..n
      BY <1>3, <2>2
    <3>2. log'[j][i] = log[j][i] /\ log[j][i] \in Event
      BY <1>2, <3>1, RunningHistory
    <3>3. /\ log[j][i].kind = "deferred"
          /\ log[j][i].attempts < row[j].attempts
      BY <3>1, RunningHistory
    <3>4. /\ i <= log[j][i].attempts
          /\ log[j][i].attempts < MaxAttempts
          /\ \A k \in 1..n : i < k => log[j][i].attempts < log[j][k].attempts
      BY <3>1, <3>3 DEF JobHistory
    <3>5. ASSUME NEW k \in 1..(n + 1), i < k
          PROVE  log'[j][i].attempts < log'[j][k].attempts
      <4>1. CASE k = n + 1
        BY <1>2, <3>2, <3>3, <4>1
      <4>2. CASE k # n + 1
        BY <1>2, <1>3, <3>2, <3>4, <3>5, <4>2
      <4> QED BY <4>1, <4>2
    <3> QED BY <1>3, <3>2, <3>3, <3>4, <3>5 DEF Event, Terminal
  <2> QED BY <2>1, <2>2
<1> QED BY <1>2, <1>3, <1>4 DEF JobHistory, Terminal, Event

\* A slot that holds its lease works on a running row and knows its attempts.
LEMMA HolderKnows ==
  ASSUME TypeOK, Fencing, NEW s \in Slot, slot[s].pc # "idle", Held(s)
  PROVE  /\ row[slot[s].job].status = "running"
         /\ slot[s].attempts = row[slot[s].job].attempts
BY BusySlot DEF Held, Fencing

\* The committed transaction of a slot, as a step of the job's history.
LEMMA CommitHistory ==
  ASSUME TypeOK, Fencing, History, NEW s \in Slot, slot[s].pc # "idle", Commit(s)
  PROVE  History'
<1> PICK j \in Job, e \in Event :
      j = slot[s].job /\ e = [kind |-> "done", attempts |-> slot[s].attempts]
  BY BusySlot DEF Event
<1>0. JobHistory(j)
  BY DEF History
<1>1. CASE ~Held(s)
  <2>1. UNCHANGED <<row, log>>
    BY <1>1 DEF Commit
  <2> QED BY <2>1, HistoryKept DEF History
<1>2. CASE Held(s)
  <2>1. /\ row' = [row EXCEPT ![j] = Done(row[j])]
        /\ log' = Insert(j, e)
    BY <1>2 DEF Commit
  <2>2. row'[j].attempts = row[j].attempts /\ row'[j].status = e.kind
    BY <1>0, <2>1 DEF TypeOK, Done, Unleased
  <2>3. \A k \in Job \ {j} : row'[k] = row[k]
    BY <1>0, <2>1 DEF TypeOK
  <2>4. row[j].status = "running" /\ e.attempts = row[j].attempts
    BY <1>2, HolderKnows
  <2>5. e.kind # "deferred"
    BY DEF Event
  <2>6. JobHistory(j)' /\ \A k \in Job \ {j} : log'[k] = log[k]
    BY <1>0, <2>1, <2>2, <2>4, <2>5, HistoryExtended
  <2> QED BY <1>0, <2>3, <2>6, HistoryKept DEF History
<1> QED BY <1>1, <1>2

\* Sending a job back adds to its history what the fencing allows.
LEMMA BackOffHistory ==
  ASSUME TypeOK, Fencing, History, NEW s \in Slot, BackOff(s)
  PROVE  History'
<1>a. slot[s].pc \in {"backoff", "fail"}
  BY DEF BackOff
<1>b. [kind |-> IF Permanent(s) THEN "failed" ELSE "deferred",
       attempts |-> row[slot[s].job].attempts] \in Event
  <2>1. row[slot[s].job].attempts \in Nat
    BY <1>a, BusySlot DEF Row
  <2>2. CASE Permanent(s)
    BY <2>1, <2>2 DEF Event
  <2>3. CASE ~Permanent(s)
    BY <2>1, <2>3 DEF Event
  <2> QED BY <2>2, <2>3
<1> PICK j \in Job, e \in Event :
      /\ j = slot[s].job
      /\ e = [kind |-> IF Permanent(s) THEN "failed" ELSE "deferred",
              attempts |-> row[j].attempts]
  BY <1>a, <1>b, BusySlot
<1>0. slot[s].pc \in {"backoff", "fail"} /\ JobHistory(j)
  BY <1>a DEF History
<1>1. CASE ~Held(s)
  <2>1. UNCHANGED <<row, log>>
    BY <1>1 DEF BackOff
  <2> QED BY <2>1, HistoryKept DEF History
<1>2. CASE Held(s)
  <2>1. /\ row' = [row EXCEPT ![j] = BackedOff(row[j], Permanent(s))]
        /\ log' = Insert(j, e)
    BY <1>2 DEF BackOff
  <2>2. /\ row'[j].attempts = row[j].attempts
        /\ row'[j].status = IF e.kind = "deferred" THEN "queued" ELSE e.kind
    BY <1>0, <2>1 DEF TypeOK, BackedOff, Unleased
  <2>3. \A k \in Job \ {j} : row'[k] = row[k]
    BY <1>0, <2>1 DEF TypeOK
  <2>4. row[j].status = "running" /\ slot[s].attempts = row[j].attempts
    BY <1>0, <1>2, HolderKnows
  <2>5. e.kind = "deferred" => e.attempts < MaxAttempts
    <3>1. row[j].attempts \in Nat /\ row[j].attempts > 0
      BY <1>0, <2>4, RunningHistory
    <3> QED BY <1>0, <2>4, <3>1 DEF Permanent
  <2>6. e.attempts = row[j].attempts
    OBVIOUS
  <2>7. JobHistory(j)' /\ \A k \in Job \ {j} : log'[k] = log[k]
    BY <1>0, <2>1, <2>2, <2>4, <2>5, <2>6, HistoryExtended
  <2> QED BY <1>0, <2>3, <2>7, HistoryKept DEF History
<1> QED BY <1>1, <1>2

\* Every step extends a job's history by what its row says of it.
LEMMA HistoryStep == TypeOK /\ TypeOK' /\ Fencing /\ History /\ [Next]_vars => History'
<1> SUFFICES ASSUME TypeOK, TypeOK', Fencing, History, [Next]_vars PROVE History'
  OBVIOUS
<1>1. ASSUME NEW j \in Job, Enqueue(j) PROVE History'
  <2>1. /\ row[j].status = "absent" /\ log' = log
        /\ row'[j].status = "queued" /\ row'[j].attempts = 0
        /\ \A k \in Job \ {j} : row'[k] = row[k]
    BY <1>1 DEF Enqueue, TypeOK, Unleased
  <2>2. JobHistory(j)'
    <3>1. Len(log[j]) = 0
      BY <2>1 DEF History, JobHistory
    <3> QED BY <2>1, <3>1 DEF JobHistory, Terminal
  <2> QED BY <2>1, <2>2, HistoryKept DEF History
<1>2. ASSUME NEW j \in Job, BecomeDue(j) \/ ExpireAbandoned(j) \/ ExpireHeld(j)
      PROVE  History'
  <2>1. UNCHANGED log /\ \A k \in Job \ {j} : row'[k] = row[k]
    BY <1>2 DEF BecomeDue, ExpireAbandoned, ExpireHeld, RunOut, TypeOK
  <2>2. row'[j].status = row[j].status /\ row'[j].attempts = row[j].attempts
    <3>1. row[j] \in Row
      BY DEF TypeOK
    <3>2. \/ row' = [row EXCEPT ![j] = [row[j] EXCEPT !.due = TRUE]]
          \/ row' = [row EXCEPT ![j] = [row[j] EXCEPT !.expired = TRUE]]
      BY <1>2 DEF BecomeDue, ExpireAbandoned, ExpireHeld, RunOut
    <3>3. \/ row'[j] = [row[j] EXCEPT !.due = TRUE]
          \/ row'[j] = [row[j] EXCEPT !.expired = TRUE]
      BY <3>2 DEF TypeOK
    <3> QED BY <3>1, <3>3, ClockUpdate
  <2> QED BY <2>1, <2>2, HistoryKept DEF History
<1>3. ASSUME NEW s \in Slot, Lease(s) PROVE History'
  <2> PICK j \in Job :
        /\ Ready(j)
        /\ row' = [row EXCEPT ![j] = Leased(row[j], NewToken)]
        /\ log' = log
    BY <1>3 DEF Lease, Candidate
  <2>1. /\ row'[j].status = "running" /\ row'[j].attempts = row[j].attempts + 1
        /\ row[j].attempts \in Nat
        /\ \A k \in Job \ {j} : row'[k] = row[k]
    BY DEF TypeOK, Leased, Row
  <2>2. row[j].status \in {"queued", "running"}
    BY DEF Ready
  <2>3. log[j] \in Seq(Event) /\ \A i \in 1..Len(log[j]) : log[j][i] \in Event
    BY DEF TypeOK
  <2>4. JobHistory(j)
    BY DEF History
  <2>5. JobHistory(j)'
    BY <2>1, <2>2, <2>3, <2>4 DEF JobHistory, Terminal, Event
  <2> QED BY <2>1, <2>5, HistoryKept DEF History
<1>4. ASSUME NEW s \in Slot, SlotStep(s) PROVE History'
  <2>0. slot[s].pc # "idle"
    BY <1>4, SlotStepSlots
  <2>1. CASE Commit(s)
    BY <2>0, <2>1, CommitHistory
  <2>2. CASE BackOff(s)
    BY <2>2, BackOffHistory
  <2>3. CASE HandBack(s)
    <3> PICK j \in Job : j = slot[s].job
      BY <2>0, BusySlot
    <3>0. j \in Job /\ row[j].attempts \in Nat /\ log' = log
      BY <2>0, <2>3, BusySlot DEF HandBack, Row
    <3>1. CASE ~Held(s)
      BY <2>3, <3>0, <3>1, HistoryKept DEF HandBack, History
    <3>2. CASE Held(s)
      <4>1. row[j].status = "running"
        BY <2>0, <3>2, HolderKnows
      <4>2. JobHistory(j)
        BY <3>0 DEF History
      <4>3. row' = [row EXCEPT ![j] = HandedBack(row[j])]
        BY <2>3, <3>2 DEF HandBack
      <4>4. /\ \A k \in Job \ {j} : row'[k] = row[k]
            /\ row'[j] = HandedBack(row[j])
        BY <3>0, <4>3 DEF TypeOK
      <4>5. row[j].attempts > 0 /\ row'[j].status = "queued"
            /\ row'[j].attempts = row[j].attempts - 1
        BY <3>0, <4>1, <4>2, <4>4, RunningHistory DEF HandedBack, Unleased
      <4>7. \A i \in 1..Len(log[j]) :
              /\ log[j][i].attempts \in Nat
              /\ log[j][i].kind = "deferred"
              /\ log[j][i].attempts <= row'[j].attempts
        BY <3>0, <4>1, <4>2, <4>5, RunningHistory DEF Event
      <4>6. JobHistory(j)'
        BY <3>0, <4>2, <4>5, <4>7 DEF JobHistory, Terminal
      <4> QED BY <3>0, <4>4, <4>6, HistoryKept DEF History
    <3> QED BY <3>1, <3>2
  <2>4. CASE UNCHANGED <<row, log>>
    BY <2>4, HistoryKept DEF History
  <2> QED BY <1>4, <2>1, <2>2, <2>3, <2>4 DEF SlotStep, PlanReturns, PlanRaisesSystemic,
        PlanRaises, Apply, ApplyUnacknowledged, ApplyRaises, DeferRaises
<1>5. ASSUME NEW p \in Proc, Renew(p) PROVE History'
  <2> PICK R \in SUBSET Job :
        /\ row' = [j \in Job |->
                    IF j \in R THEN [row[j] EXCEPT !.expired = FALSE] ELSE row[j]]
        /\ UNCHANGED log
    BY <1>5 DEF Renew
  <2>1. ASSUME NEW j \in Job
        PROVE  row'[j].status = row[j].status /\ row'[j].attempts = row[j].attempts
    <3>1. row[j] \in Row
      BY DEF TypeOK
    <3> QED BY <3>1, ClockUpdate
  <2> QED BY <2>1, HistoryKept DEF History
<1>6. ASSUME NEW p \in Proc, Crash(p) PROVE History'
  BY <1>6, HistoryKept DEF Crash, History
<1>7. ASSUME Rebuild PROVE History'
  <2> SUFFICES ASSUME NEW j \in Job PROVE JobHistory(j)'
    BY DEF History
  <2> DEFINE n == Len(log[j])
  <2>0. /\ log' = log /\ row'[j] = Replayed(j) /\ JobHistory(j)
        /\ log[j] \in Seq(Event) /\ n \in Nat
        /\ \A i \in 1..n : log[j][i] \in Event
    BY <1>7 DEF Rebuild, History, TypeOK
  <2>1. CASE row[j].status = "absent"
    <3>1. n = 0
      BY <2>0, <2>1 DEF JobHistory
    <3>2. row'[j].status = "absent"
      BY <2>0, <2>1 DEF Replayed, NoRow, Unleased
    <3> QED BY <2>0, <3>1, <3>2 DEF JobHistory, Terminal
  <2>2. CASE row[j].status # "absent" /\ n = 0
    <3>1. row'[j].status = "queued"
      BY <2>0, <2>2 DEF Replayed, Unleased
    <3> QED BY <2>0, <2>2, <3>1 DEF JobHistory, Terminal
  <2>3. CASE row[j].status # "absent" /\ n # 0
    <3>1. /\ row'[j].attempts = log[j][n].attempts
          /\ row'[j].status = IF log[j][n].kind = "deferred" THEN "queued"
                              ELSE log[j][n].kind
      BY <2>0, <2>3 DEF Replayed, Unleased
    <3>2. n \in 1..n /\ log[j][n] \in Event
      BY <2>0, <2>3
    <3>3. \A i \in 1..n : log[j][i].attempts <= log[j][n].attempts
      BY <2>0, <3>2 DEF JobHistory, Event
    <3>4. row'[j].status \in {"queued", "done", "failed"}
      BY <3>1, <3>2 DEF Event
    <3>5. \A i \in 1..n : log[j][i].kind \in Terminal
                         => i = n /\ row'[j].status = log[j][i].kind
      BY <2>0, <3>1 DEF JobHistory, Terminal
    <3>6. row'[j].status \in Terminal => log[j][n].kind = row'[j].status
      BY <3>1, <3>2 DEF Terminal
    <3> QED BY <2>0, <2>3, <3>1, <3>3, <3>4, <3>5, <3>6 DEF JobHistory
  <2> QED BY <2>1, <2>2, <2>3
<1>8. CASE UNCHANGED vars \/ \E p \in Proc : Resume(p)
  BY <1>8, HistoryKept DEF vars, History, Resume
<1> QED BY <1>1, <1>2, <1>3, <1>4, <1>5, <1>6, <1>7, <1>8 DEF Next

-----------------------------------------------------------------------------
(* The theorems.                                                           *)

\* The fencing and the history of every job are invariants, together with
\* the types: tokens in rows name their last lessee, attempt counts in the
\* events rise, and an end is the last event and the status of the row.
THEOREM Invariance == SafeSpec => []IInv
<1>1. IInv /\ [Next]_vars => IInv'
  BY TypeStep, FencingStep, HistoryStep DEF IInv
<1> QED BY InitIInv, <1>1, PTL DEF SafeSpec

\* Row tokens and statuses, slots and events keep their types.
THEOREM TypeCorrect == SafeSpec => []TypeOK
<1>1. IInv => TypeOK
  BY DEF IInv
<1> QED BY Invariance, <1>1, PTL

\* No job records two ends, and nothing is recorded after the end.
THEOREM NoSecondEnd == SafeSpec => []OneEnd
<1>1. IInv => OneEnd
  <2> SUFFICES ASSUME IInv, NEW j \in Job, NEW i \in DOMAIN log[j],
                      log[j][i].kind \in Terminal
               PROVE  i = Len(log[j])
    BY DEF OneEnd
  <2>1. i \in 1..Len(log[j])
    BY DEF IInv, TypeOK
  <2> QED BY <2>1 DEF IInv, History, JobHistory
<1> QED BY Invariance, <1>1, PTL

\* The jobs table and a replay of the events agree on which jobs ended.
THEOREM ReplayAgrees == SafeSpec => []RowMatchesLog
<1>1. IInv => RowMatchesLog
  <2> SUFFICES ASSUME IInv, NEW j \in Job,
                      row[j].status \in Terminal \/ Replayed(j).status \in Terminal
               PROVE  row[j].status = Replayed(j).status
    BY DEF RowMatchesLog
  <2> DEFINE n == Len(log[j])
  <2>0. JobHistory(j) /\ log[j] \in Seq(Event) /\ n \in Nat
    BY DEF IInv, History, TypeOK
  <2>1. row[j].status # "absent"
    BY DEF Replayed, NoRow, Unleased, Terminal
  <2>2. n # 0
    BY <2>0, <2>1 DEF Replayed, Unleased, JobHistory, Terminal
  <2>3. log[j][n] \in Event /\ n \in 1..n
    BY <2>0, <2>2
  <2>4. Replayed(j).status = IF log[j][n].kind = "deferred" THEN "queued"
                             ELSE log[j][n].kind
    BY <2>1, <2>2 DEF Replayed, Unleased
  <2>5. CASE row[j].status \in Terminal
    BY <2>0, <2>4, <2>5 DEF JobHistory, Terminal
  <2>6. CASE Replayed(j).status \in Terminal
    BY <2>0, <2>3, <2>4, <2>6 DEF JobHistory, Terminal, Event
  <2> QED BY <2>5, <2>6
<1> QED BY Invariance, <1>1, PTL

\* At most one slot of all processes can still commit for a job.
THEOREM Fenced == SafeSpec => []OneHolder
<1>1. IInv => OneHolder
  <2> SUFFICES ASSUME IInv, NEW s \in Slot, NEW u \in Slot,
                      slot[s].pc # "idle", slot[s].job = slot[u].job,
                      Held(s), Held(u)
               PROVE  s = u
    BY DEF OneHolder
  <2> QED BY DEF IInv, Fencing, Held
<1> QED BY Invariance, <1>1, PTL

\* A back-off that commits always finds its request id unused.
THEOREM NoBackOffDropped == SafeSpec => []BackOffIsRecorded
<1>1. IInv => BackOffIsRecorded
  <2> SUFFICES ASSUME IInv, NEW s \in Slot, slot[s].pc \in {"backoff", "fail"}, Held(s),
                      NEW i \in DOMAIN log[slot[s].job]
               PROVE  /\ log[slot[s].job][i].kind = "deferred"
                      /\ log[slot[s].job][i].attempts < row[slot[s].job].attempts
    BY DEF BackOffIsRecorded
  <2>1. slot[s].job \in Job /\ row[slot[s].job].status = "running"
    BY BusySlot, HolderKnows DEF IInv
  <2> QED BY <2>1, RunningHistory DEF IInv, History
<1> QED BY Invariance, <1>1, PTL

\* A job records fewer back-offs than MaxAttempts.
THEOREM FewBackOffs == SafeSpec => []BoundedBackOffs
<1>1. IInv => BoundedBackOffs
  <2> SUFFICES ASSUME IInv, NEW j \in Job
               PROVE  Cardinality({i \in DOMAIN log[j] : log[j][i].kind = "deferred"})
                        < MaxAttempts
    BY DEF BoundedBackOffs
  <2> DEFINE D == {i \in DOMAIN log[j] : log[j][i].kind = "deferred"}
  <2>1. ASSUME NEW i \in D PROVE i \in 1..(MaxAttempts - 1)
    <3>1. log[j] \in Seq(Event) /\ i \in 1..Len(log[j])
      BY DEF IInv, TypeOK
    <3>2. log[j][i] \in Event
      BY <3>1
    <3>3. i <= log[j][i].attempts /\ log[j][i].attempts < MaxAttempts
      BY <3>1 DEF IInv, History, JobHistory
    <3> QED BY <3>1, <3>2, <3>3 DEF Event
  <2>2. IsFiniteSet(1..(MaxAttempts - 1)) /\ Cardinality(1..(MaxAttempts - 1)) = MaxAttempts - 1
    BY FS_Interval
  <2> HIDE DEF D
  <2>3. Cardinality(D) <= MaxAttempts - 1 /\ IsFiniteSet(D)
    BY <2>1, <2>2, FS_Subset
  <2>4. Cardinality(D) \in Nat
    BY <2>3, FS_CardinalityType
  <2> QED BY <2>3, <2>4 DEF D
<1> QED BY Invariance, <1>1, PTL

-----------------------------------------------------------------------------
(* The queue implements the safety part of JobPromise.                     *)

\* What the promise says of a job, read from its row instead of its events.
Class(j) ==
  IF row[j].status \in {"queued", "running"} THEN "pending" ELSE row[j].status

\* The refinement mapping, job by job.
LEMMA OutcomeIsClass == IInv => PromiseOutcome = [j \in Job |-> Class(j)]
<1> SUFFICES ASSUME IInv, NEW j \in Job
             PROVE  PromiseOutcome[j] = Class(j)
  BY DEF PromiseOutcome
<1>0. JobHistory(j) /\ log[j] \in Seq(Event) /\ row[j].status \in Status
  BY DEF IInv, History, TypeOK, Row
<1>1. CASE row[j].status = "absent"
  BY <1>1 DEF PromiseOutcome, Class
<1>2. CASE row[j].status \in Terminal
  <2>1. log[j] # <<>> /\ log[j][Len(log[j])].kind = row[j].status
    BY <1>0, <1>2 DEF JobHistory
  <2> QED BY <1>2, <2>1 DEF PromiseOutcome, Class, Terminal
<1>3. CASE row[j].status \in {"queued", "running"}
  <2>1. ASSUME log[j] # <<>>
        PROVE  log[j][Len(log[j])].kind \notin Terminal
    <3>1. Len(log[j]) \in 1..Len(log[j])
      BY <1>0, <2>1
    <3> QED BY <1>0, <1>3, <3>1 DEF JobHistory, Terminal
  <2> QED BY <1>3, <2>1 DEF PromiseOutcome, Class
<1> QED BY <1>0, <1>1, <1>2, <1>3 DEF Status, Terminal

\* A step changes what is promised of one job at most, and only by enqueueing
\* an absent job or ending a pending one.
ClassStep ==
  \/ \A k \in Job : Class(k)' = Class(k)
  \/ \E j \in Job :
       /\ \/ Class(j) = "absent" /\ Class(j)' = "pending"
          \/ Class(j) = "pending" /\ Class(j)' \in Terminal
       /\ \A k \in Job \ {j} : Class(k)' = Class(k)

\* Every step of the queue is such a step.
LEMMA StepClass == IInv /\ [Next]_vars => ClassStep
<1> SUFFICES ASSUME IInv, [Next]_vars PROVE ClassStep
  OBVIOUS
<1>0. TypeOK /\ Fencing /\ History
  BY DEF IInv
<1>a. \A j \in Job : row'[j].status = row[j].status => Class(j)' = Class(j)
  BY DEF Class
<1>1. ASSUME NEW j \in Job, Enqueue(j) PROVE ClassStep
  <2>1. /\ row[j].status = "absent" /\ row'[j].status = "queued"
        /\ \A k \in Job \ {j} : row'[k] = row[k]
    BY <1>0, <1>1 DEF Enqueue, TypeOK, Unleased
  <2> QED BY <2>1 DEF ClassStep, Class
<1>2. ASSUME NEW j \in Job, BecomeDue(j) \/ ExpireAbandoned(j) \/ ExpireHeld(j)
      PROVE  ClassStep
  <2>1. \A k \in Job : row'[k].status = row[k].status
    <3>1. row[j] \in Row
      BY <1>0 DEF TypeOK
    <3>2. \/ row' = [row EXCEPT ![j] = [row[j] EXCEPT !.due = TRUE]]
          \/ row' = [row EXCEPT ![j] = [row[j] EXCEPT !.expired = TRUE]]
      BY <1>2 DEF BecomeDue, ExpireAbandoned, ExpireHeld, RunOut
    <3>3. /\ \/ row'[j] = [row[j] EXCEPT !.due = TRUE]
             \/ row'[j] = [row[j] EXCEPT !.expired = TRUE]
          /\ \A k \in Job \ {j} : row'[k] = row[k]
      BY <1>0, <3>2 DEF TypeOK
    <3>4. row'[j].status = row[j].status
      BY <3>1, <3>3, ClockUpdate
    <3> QED BY <3>3, <3>4
  <2> QED BY <1>a, <2>1 DEF ClassStep
<1>3. ASSUME NEW s \in Slot, Lease(s) PROVE ClassStep
  <2> PICK j \in Job :
        Ready(j) /\ row' = [row EXCEPT ![j] = Leased(row[j], NewToken)]
    BY <1>3 DEF Lease, Candidate
  <2>1. /\ row[j].status \in {"queued", "running"} /\ row'[j].status = "running"
        /\ \A k \in Job \ {j} : row'[k] = row[k]
    BY <1>0 DEF TypeOK, Leased, Ready
  <2> QED BY <2>1 DEF ClassStep, Class
<1>4. ASSUME NEW s \in Slot, SlotStep(s) PROVE ClassStep
  <2> PICK j \in Job : j = slot[s].job
    BY <1>0, <1>4, SlotStepSlots, BusySlot
  <2>0. \A k \in Job \ {j} : row'[k] = row[k]
    BY <1>0, <1>4, SlotStepRows
  <2>1. CASE row'[j] = row[j]
    BY <1>a, <2>0, <2>1 DEF ClassStep
  <2>2. CASE row'[j] # row[j]
    <3>1. row[j].status = "running"
      BY <1>0, <1>4, <2>2, SlotStepRows, SlotStepSlots, HolderKnows
    <3>2. row'[j].status \in {"queued", "done", "failed"}
      <4>1. CASE Commit(s)
        BY <1>0, <2>2, <4>1 DEF Commit, Done, Unleased, TypeOK
      <4>2. CASE BackOff(s)
        BY <1>0, <2>2, <4>2 DEF BackOff, BackedOff, Unleased, TypeOK
      <4>3. CASE HandBack(s)
        BY <1>0, <2>2, <4>3 DEF HandBack, HandedBack, Unleased, TypeOK
      <4> QED BY <1>4, <2>2, <4>1, <4>2, <4>3 DEF SlotStep, PlanReturns, PlanRaisesSystemic,
            PlanRaises, Apply, ApplyUnacknowledged, ApplyRaises, DeferRaises
    <3> QED BY <2>0, <3>1, <3>2 DEF ClassStep, Class, Terminal
  <2> QED BY <2>1, <2>2
<1>5. ASSUME NEW p \in Proc, Renew(p) PROVE ClassStep
  <2> PICK R \in SUBSET Job :
        row' = [j \in Job |->
                  IF j \in R THEN [row[j] EXCEPT !.expired = FALSE] ELSE row[j]]
    BY <1>5 DEF Renew
  <2>1. ASSUME NEW j \in Job PROVE row'[j].status = row[j].status
    <3>1. row[j] \in Row
      BY <1>0 DEF TypeOK
    <3> QED BY <3>1, ClockUpdate
  <2> QED BY <1>a, <2>1 DEF ClassStep
<1>6. ASSUME NEW p \in Proc, Crash(p) PROVE ClassStep
  BY <1>a, <1>6 DEF Crash, ClassStep
<1>7. ASSUME Rebuild PROVE ClassStep
  <2> SUFFICES ASSUME NEW j \in Job PROVE Class(j)' = Class(j)
    BY DEF ClassStep
  <2>0. /\ row'[j] = Replayed(j) /\ JobHistory(j)
        /\ log[j] \in Seq(Event) /\ row[j].status \in Status
    BY <1>0, <1>7 DEF Rebuild, History, TypeOK, Row
  <2>1. CASE row[j].status = "absent"
    BY <2>0, <2>1 DEF Replayed, NoRow, Unleased, Class
  <2>2. CASE row[j].status # "absent" /\ Len(log[j]) = 0
    BY <2>0, <2>2 DEF Replayed, Unleased, Class, JobHistory, Terminal, Status
  <2>3. CASE row[j].status # "absent" /\ Len(log[j]) # 0
    <3> DEFINE l == log[j][Len(log[j])]
    <3>1. l \in Event /\ Len(log[j]) \in 1..Len(log[j])
      BY <2>0, <2>3
    <3>2. row'[j].status = IF l.kind = "deferred" THEN "queued" ELSE l.kind
      BY <2>0, <2>3 DEF Replayed, Unleased
    <3>3. l.kind \in Terminal => row[j].status = l.kind
      BY <2>0, <3>1 DEF JobHistory
    <3>4. row[j].status \in Terminal => row[j].status = l.kind
      BY <2>0 DEF JobHistory
    <3> HIDE DEF l
    <3> QED BY <2>0, <2>3, <3>1, <3>2, <3>3, <3>4 DEF Class, Event, Status, Terminal
  <2> QED BY <2>0, <2>1, <2>2, <2>3
<1>8. CASE UNCHANGED vars \/ \E p \in Proc : Resume(p)
  BY <1>a, <1>8 DEF vars, Resume, ClassStep
<1> QED BY <1>1, <1>2, <1>3, <1>4, <1>5, <1>6, <1>7, <1>8 DEF Next

\* No step revives an ended job: not a takeover, not a lost reply, not a rebuild.
THEOREM NoRevival == SafeSpec => EndIsFinal
<1>1. IInv /\ IInv' /\ [Next]_vars =>
        \A j \in Job : row[j].status \in Terminal => row'[j].status = row[j].status
  <2> SUFFICES ASSUME IInv, IInv', [Next]_vars, NEW j \in Job, row[j].status \in Terminal
               PROVE  row'[j].status = row[j].status
    OBVIOUS
  <2>1. Class(j) \in Terminal /\ Class(j) = row[j].status
    BY DEF Class, Terminal
  <2>2. Class(j)' = Class(j)
    BY <2>1, StepClass DEF ClassStep, Terminal
  <2> QED BY <2>1, <2>2 DEF Class, Terminal
<1> QED BY Invariance, <1>1, PTL DEF SafeSpec, EndIsFinal

\* Every behaviour of the queue is one that JobPromise allows: a job is
\* enqueued, then ends once, done or failed.
THEOREM ImplementsPromise == SafeSpec => Promise!SafeSpec
<1>1. Init => Promise!Init
  BY DEF Init, Promise!Init, PromiseOutcome, NoRow, Unleased
<1>a. (IInv => PromiseOutcome = [j \in Job |-> Class(j)])'
  BY OutcomeIsClass, PTL
<1>2. IInv /\ IInv' /\ [Next]_vars => [Promise!Next]_PromiseOutcome
  <2> SUFFICES ASSUME IInv, IInv', [Next]_vars PROVE [Promise!Next]_PromiseOutcome
    OBVIOUS
  <2>1. /\ PromiseOutcome = [j \in Job |-> Class(j)]
        /\ PromiseOutcome' = [j \in Job |-> Class(j)']
    BY OutcomeIsClass, <1>a
  <2>2. CASE \A k \in Job : Class(k)' = Class(k)
    BY <2>1, <2>2
  <2>3. ASSUME NEW j \in Job,
               \/ Class(j) = "absent" /\ Class(j)' = "pending"
               \/ Class(j) = "pending" /\ Class(j)' \in Terminal,
               \A k \in Job \ {j} : Class(k)' = Class(k)
        PROVE  Promise!Next
    <3>1. PromiseOutcome' = [PromiseOutcome EXCEPT ![j] = Class(j)']
      BY <2>1, <2>3
    <3>2. PromiseOutcome[j] = Class(j)
      BY <2>1
    <3> QED BY <2>3, <3>1, <3>2 DEF Promise!Next, Promise!Enqueue, Promise!End, Terminal
  <2> QED BY <2>2, <2>3, StepClass DEF ClassStep
<1> QED BY Invariance, <1>1, <1>2, PTL DEF SafeSpec, Promise!SafeSpec

=============================================================================
