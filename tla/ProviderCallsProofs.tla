------------------------ MODULE ProviderCallsProofs ------------------------
(* Proofs about ProviderCalls.  Everything an action changes is one record *)
(* of a caller and one breaker, so the invariant is taken apart into what  *)
(* it says of one record (CallOK) and of one breaker (BreakerOK).          *)
EXTENDS ProviderCalls, TLAPS

CallOK(r) ==
  /\ r \in Calls
  /\ r.settles <= 1 /\ r.rows <= r.settles
  /\ Over(r) /\ ~r.failed => r.settles = 1
  /\ r.pc \notin {"idle", "turn"} => r.i \in DOMAIN Chain
  /\ r.pc \in {"settle", "record"} => r.answer \in Answer
  /\ r.pc \in {"reserved", "sent", "settle"} => r.settles = 0 /\ r.rows = 0
  /\ r.pc = "record" => r.settles = 1 /\ r.rows = 0
  /\ r.pc \in {"reserved", "sent", "settle", "record"} => ~r.failed

BreakerOK(b, t) ==
  /\ b \in Breakers /\ t \in 0..2
  /\ b.state = "half_open" => b.trial /\ t = 1
  /\ b.state = "open" => ~b.trial /\ t = 0
  /\ b.state = "closed" => ~b.trial

CallsOK == call \in [Caller -> Calls] /\ \A c \in Caller : CallOK(call[c])

BreakersOK ==
  /\ breaker \in [Profile -> Breakers] /\ trials \in [Profile -> 0..2]
  /\ \A p \in Profile : BreakerOK(breaker[p], trials[p])

ClaimsOK == claims \in Nat /\ sends \in Nat /\ ClaimInv

\* The parts say what the invariant says.
LEMMA Parts == IInv <=> CallsOK /\ BreakersOK /\ ClaimsOK
<1> USE ProviderAssumption DEF ProviderAssumption
<1>1. ASSUME IInv PROVE CallsOK
  BY <1>1 DEF IInv, TypeOK, BookedOnce, BookInv, CallsOK, CallOK
<1>2. ASSUME IInv PROVE BreakersOK
  BY <1>2 DEF IInv, TypeOK, BreakerInv, BreakersOK, BreakerOK
<1>3. ASSUME IInv PROVE ClaimsOK
  BY <1>3 DEF IInv, TypeOK, ClaimsOK
<1>4. ASSUME CallsOK, BreakersOK, ClaimsOK PROVE TypeOK
  BY <1>4 DEF TypeOK, CallsOK, BreakersOK, ClaimsOK, ClaimInv
<1>5. ASSUME CallsOK PROVE BookedOnce /\ BookInv
  BY <1>5 DEF CallsOK, CallOK, BookedOnce, BookInv
<1>6. ASSUME BreakersOK PROVE BreakerInv
  BY <1>6 DEF BreakersOK, BreakerOK, BreakerInv
<1>7. ASSUME ClaimsOK PROVE ClaimInv
  BY <1>7 DEF ClaimsOK
<1>. QED  BY <1>1, <1>2, <1>3, <1>4, <1>5, <1>6, <1>7 DEF IInv

-----------------------------------------------------------------------------
(* Breakers.                                                               *)

\* A breaker that opens has no trial running.
LEMMA OpenedOK ==
  ASSUME NEW b, NEW t, BreakerOK(b, t)
  PROVE  Opened(b).state = "open" /\ BreakerOK(Opened(b), 0)
<1>1. b \in Breakers  BY DEF BreakerOK
<1>2. b.window \in BaseWindow..MaxWindow /\ b.window \in 0..MaxWindow
  BY <1>1, ProviderAssumption DEF Breakers, ProviderAssumption
<1>. QED  BY <1>1, <1>2 DEF BreakerOK, Breakers, Opened

\* A breaker that fails is never half open afterwards, and its window keeps
\* between its bounds.
LEMMA FailedOK ==
  ASSUME NEW b, NEW t, BreakerOK(b, t)
  PROVE  LET f == Failed(b) IN
         /\ f.state \in {"open", "closed"}
         /\ BreakerOK(f, IF f.state = "open" THEN 0 ELSE t)
<1>1. b \in Breakers /\ t \in 0..2  BY DEF BreakerOK
<1>2. CASE b.state = "half_open"
  <2>1. PICK w : w = Lesser(2 * b.window, MaxWindow)  OBVIOUS
  <2>2. w \in BaseWindow..MaxWindow
    BY <1>1, <2>1, ProviderAssumption DEF Breakers, Lesser, ProviderAssumption
  <2>3. PICK d : d = [b EXCEPT !.window = w]  OBVIOUS
  <2>4. d \in Breakers  BY <1>1, <2>2, <2>3 DEF Breakers
  <2>5. w \in 0..MaxWindow /\ d.window = w
    BY <1>1, <2>2, <2>3, ProviderAssumption DEF Breakers, ProviderAssumption
  <2>6. Failed(b) = Opened(d)  BY <1>2, <2>1, <2>3 DEF Failed
  <2>. QED  BY <2>2, <2>4, <2>5, <2>6 DEF BreakerOK, Breakers, Opened
<1>3. CASE b.state # "half_open"
  <2>1. PICK n : n = Lesser(b.failures + 1, Threshold)  OBVIOUS
  <2>2. n \in 0..Threshold
    BY <1>1, <2>1, ProviderAssumption DEF Breakers, Lesser, ProviderAssumption
  <2>3. PICK f : f = [b EXCEPT !.failures = n]  OBVIOUS
  <2>4. /\ f \in Breakers /\ f.state = b.state /\ f.trial = b.trial
        /\ f = [b EXCEPT !.failures = Lesser(@ + 1, Threshold)]
    BY <1>1, <2>1, <2>2, <2>3 DEF Breakers
  <2>5. BreakerOK(f, t)  BY <2>4 DEF BreakerOK
  <2>6. Failed(b) = IF f.failures >= Threshold THEN Opened(f) ELSE f
    BY <1>3, <2>4 DEF Failed
  <2>7. f.state \in {"open", "closed"}  BY <1>1, <1>3, <2>4 DEF Breakers
  <2>8. CASE f.failures >= Threshold  BY <2>5, <2>6, <2>8, OpenedOK
  <2>9. CASE ~(f.failures >= Threshold)
    <3>1. f.state = "open" => t = 0  BY <2>5 DEF BreakerOK
    <3>. QED  BY <2>5, <2>6, <2>7, <2>9, <3>1
  <2>. QED  BY <2>8, <2>9
<1>. QED  BY <1>2, <1>3

\* A success closes the breaker and leaves the trials counted.
LEMMA SucceededOK ==
  ASSUME NEW b, NEW t, BreakerOK(b, t)
  PROVE  Succeeded(b).state = "closed" /\ BreakerOK(Succeeded(b), t)
BY ProviderAssumption DEF ProviderAssumption, Succeeded, ClosedBreaker, BreakerOK, Breakers

\* A breaker that lets a call through counts it as its trial unless closed.
LEMMA AllowedOK ==
  ASSUME NEW b, NEW t, BreakerOK(b, t), ~Refuses(b)
  PROVE  BreakerOK(Allowed(b), IF b.state = "closed" THEN t ELSE Lesser(t + 1, 2))
<1>1. CASE b.state = "closed"
  BY <1>1 DEF Allowed, BreakerOK
<1>2. CASE b.state = "open"
  <2>1. b \in Breakers /\ t = 0  BY <1>2 DEF BreakerOK
  <2>2. Allowed(b) \in Breakers /\ Allowed(b).state = "half_open" /\ Allowed(b).trial
    BY <1>2, <2>1 DEF Allowed, Breakers
  <2>. QED  BY <1>2, <2>1, <2>2 DEF BreakerOK, Lesser
<1>3. CASE b.state = "half_open"
  BY <1>3 DEF Refuses, BreakerOK
<1>. QED  BY <1>1, <1>2, <1>3 DEF BreakerOK, Breakers

\* One breaker becomes another good one.
LEMMA BecomeOK ==
  ASSUME BreakersOK, NEW p \in Profile, NEW b, Become(p, b),
         BreakerOK(b, IF b.state = "open" THEN 0 ELSE trials[p])
  PROVE  BreakersOK'
<1>1. b \in Breakers /\ (IF b.state = "open" THEN 0 ELSE trials[p]) \in 0..2
  BY DEF BreakerOK
<1>2. /\ breaker' \in [Profile -> Breakers] /\ trials' \in [Profile -> 0..2]
      /\ \A q \in Profile \ {p} : breaker'[q] = breaker[q] /\ trials'[q] = trials[q]
      /\ breaker'[p] = b /\ trials'[p] = IF b.state = "open" THEN 0 ELSE trials[p]
  BY <1>1 DEF Become, BreakersOK
<1>. QED  BY <1>2 DEF BreakersOK

\* Steps that touch no breaker keep every breaker's invariant.
LEMMA SameBreakers == BreakersOK /\ UNCHANGED <<breaker, trials>> => BreakersOK'
BY DEF BreakersOK

\* Recording a failure keeps every breaker's invariant.
LEMMA FailingOK ==
  ASSUME BreakersOK, NEW p \in Profile, Become(p, Failed(breaker[p]))
  PROVE  BreakersOK'
<1>1. BreakerOK(breaker[p], trials[p])  BY DEF BreakersOK
<1>. QED  BY <1>1, FailedOK, BecomeOK

\* Recording a success keeps every breaker's invariant.
LEMMA SucceedingOK ==
  ASSUME BreakersOK, NEW p \in Profile, Become(p, Succeeded(breaker[p]))
  PROVE  BreakersOK'
<1>1. BreakerOK(breaker[p], trials[p])  BY DEF BreakersOK
<1>. QED  BY <1>1, SucceededOK, BecomeOK

\* A cut fails a breaker's trial, opens a breaker cut too often, or is counted.
LEMMA CutOK ==
  ASSUME BreakersOK, NEW p \in Profile, Cut(p)
  PROVE  BreakersOK'
<1>1. BreakerOK(breaker[p], trials[p])  BY DEF BreakersOK
<1>2. CASE Become(p, Failed(breaker[p]))  BY <1>2, FailingOK
<1>3. CASE Become(p, Opened(breaker[p]))  BY <1>1, <1>3, OpenedOK, BecomeOK
<1>4. CASE UNCHANGED <<breaker, trials>>  BY <1>4, SameBreakers
<1>. QED  BY <1>2, <1>3, <1>4 DEF Cut

-----------------------------------------------------------------------------
(* Calls.                                                                  *)

\* Setting one caller's state to a sound one keeps the calls' invariant.
LEMMA SetOK ==
  ASSUME CallsOK, NEW c \in Caller, NEW r, CallOK(r), Set(c, r)
  PROVE  CallsOK'
<1>1. r \in Calls  BY DEF CallOK
<1>2. /\ call' \in [Caller -> Calls]
      /\ \A d \in Caller \ {c} : call'[d] = call[d]
      /\ call'[c] = r
  BY <1>1 DEF Set, CallsOK
<1>. QED  BY <1>2 DEF CallsOK

\* The books of an attempt are closed: nothing of it is left to be done.
Booked(r) ==
  /\ r \in Calls
  /\ r.settles <= 1 /\ r.rows <= r.settles
  /\ r.reserved /\ ~r.failed => r.settles = 1

\* A call that ends with its books closed is sound.
LEMMA EndedOK ==
  ASSUME NEW r, Booked(r)
  PROVE  CallOK(Ended(r))
<1>1. /\ Ended(r) \in Calls
      /\ Ended(r).pc = "idle" /\ Ended(r).settles = r.settles /\ Ended(r).rows = r.rows
      /\ Ended(r).reserved = r.reserved /\ Ended(r).failed = r.failed
  BY ProviderAssumption DEF Booked, Ended, Calls, ProviderAssumption
<1>. QED  BY <1>1 DEF Booked, CallOK, Over

\* A call whose attempt is over may stop there.
LEMMA OverBooked ==
  ASSUME NEW r, CallOK(r), r.pc \in {"idle", "turn", "attempt", "record"}
  PROVE  Booked(r)
BY DEF CallOK, Booked, Over

\* Settling an open reservation closes the attempt's books, and recording it
\* adds its one row.
LEMMA SettledBooked ==
  ASSUME NEW r, CallOK(r), r.pc \in {"reserved", "sent", "settle"}
  PROVE  /\ Settled(r) \in Calls /\ Settled(r).settles = 1 /\ Settled(r).rows = 0
         /\ Settled(r).pc = r.pc /\ Settled(r).i = r.i /\ Settled(r).answer = r.answer
         /\ Booked(Settled(r)) /\ Booked(Recorded(Settled(r)))
<1>1. r \in Calls /\ r.settles = 0 /\ r.rows = 0  BY DEF CallOK
<1>2. Settled(r) = [r EXCEPT !.settles = 1]  BY <1>1 DEF Settled, Lesser
<1>3. /\ Settled(r) \in Calls /\ Settled(r).settles = 1 /\ Settled(r).rows = 0
      /\ Settled(r).pc = r.pc /\ Settled(r).i = r.i /\ Settled(r).answer = r.answer
  BY <1>1, <1>2 DEF Calls
<1>4. Recorded(Settled(r)) = [Settled(r) EXCEPT !.rows = 1]
  BY <1>3 DEF Recorded, Lesser
<1>5. /\ Recorded(Settled(r)) \in Calls /\ Recorded(Settled(r)).settles = 1
      /\ Recorded(Settled(r)).rows = 1
  BY <1>3, <1>4 DEF Calls
<1>. QED  BY <1>3, <1>5 DEF Booked

\* Marking a call failed changes no book.
LEMMA FailedBooked ==
  ASSUME NEW r \in Calls, r.settles <= 1, r.rows <= r.settles
  PROVE  Booked([r EXCEPT !.failed = TRUE])
<1>1. PICK f : f = [r EXCEPT !.failed = TRUE]  OBVIOUS
<1>2. f \in Calls /\ f.settles = r.settles /\ f.rows = r.rows /\ f.failed
  BY <1>1 DEF Calls
<1>. QED  BY <1>1, <1>2 DEF Booked

\* A settlement whose answer was lost, stored or not, leaves the books closed.
LEMMA LostBooked ==
  ASSUME NEW r, CallOK(r), r.pc \in {"reserved", "sent", "settle"},
         NEW x \in SettlementLost(r)
  PROVE  Booked(x)
<1>1. PICK y \in {r, Settled(r)} : x = [y EXCEPT !.failed = TRUE]  BY DEF SettlementLost
<1>2. y \in Calls /\ y.settles <= 1 /\ y.rows <= y.settles
  BY <1>1, SettledBooked DEF CallOK
<1>. QED  BY <1>1, <1>2, FailedBooked

\* Recording a settled attempt adds its one row and nothing else.
LEMMA RecordedBooked ==
  ASSUME NEW r, CallOK(r), r.pc = "record"
  PROVE  /\ Booked(Recorded(r)) /\ Recorded(r).settles = 1 /\ Recorded(r).rows = 1
         /\ Recorded(r).i = r.i /\ Recorded(r).schema = r.schema
         /\ Recorded(r).transient = r.transient /\ Recorded(r).failed = r.failed
         /\ Recorded(r).reserved = r.reserved
<1>1. r \in Calls /\ r.settles = 1 /\ r.rows = 0  BY DEF CallOK
<1>2. Recorded(r) = [r EXCEPT !.rows = 1]  BY <1>1 DEF Recorded, Lesser
<1>3. /\ Recorded(r) \in Calls /\ Recorded(r).settles = 1 /\ Recorded(r).rows = 1
      /\ Recorded(r).i = r.i /\ Recorded(r).schema = r.schema
      /\ Recorded(r).transient = r.transient /\ Recorded(r).failed = r.failed
      /\ Recorded(r).reserved = r.reserved
  BY <1>1, <1>2 DEF Calls
<1>. QED  BY <1>3 DEF Booked

\* The next profile, or the next attempt, of a call whose attempt is over.
LEMMA TurnOK ==
  ASSUME NEW r, Booked(r), r.i \in DOMAIN Chain
  PROVE  CallOK(NextTurn(r))
<1>1. r.i + 1 \in 1..(Len(Chain) + 1)
  BY ProviderAssumption DEF ProviderAssumption
<1>2. PICK e : e = Ended(r)  OBVIOUS
<1>3. /\ e \in Calls /\ e.settles = r.settles /\ e.rows = r.rows
      /\ e.reserved = r.reserved /\ e.failed = r.failed
  BY <1>2, EndedOK DEF Ended, CallOK
<1>4. PICK n : n = [e EXCEPT !.pc = "turn", !.i = r.i + 1, !.counted = r.counted]
  OBVIOUS
<1>6. r.counted \in BOOLEAN  BY DEF Booked, Calls
<1>5. /\ n \in Calls /\ n.pc = "turn" /\ n.settles = r.settles /\ n.rows = r.rows
      /\ n.reserved = r.reserved /\ n.failed = r.failed
  BY <1>1, <1>3, <1>4, <1>6 DEF Calls
<1>. QED  BY <1>2, <1>4, <1>5 DEF NextTurn, CallOK, Booked, Over

\* A call with its books closed may start the next attempt.
LEMMA AgainOK ==
  ASSUME NEW r, Booked(r), r.i \in DOMAIN Chain
  PROVE  CallOK([r EXCEPT !.pc = "attempt"])
<1>1. PICK a : a = [r EXCEPT !.pc = "attempt"]  OBVIOUS
<1>2. /\ a \in Calls /\ a.pc = "attempt" /\ a.i = r.i /\ a.settles = r.settles
      /\ a.rows = r.rows /\ a.reserved = r.reserved /\ a.failed = r.failed
  BY <1>1 DEF Booked, Calls
<1>. QED  BY <1>1, <1>2 DEF CallOK, Booked, Over

\* A caller that gives up leaves a sound call.
LEMMA AbortOK ==
  ASSUME CallsOK, NEW c \in Caller, NEW r, Booked(r), Abort(c, r)
  PROVE  CallsOK'
BY EndedOK, SetOK DEF Abort

-----------------------------------------------------------------------------
(* Steps.                                                                  *)

\* Every step of a caller leaves its record in order.
LEMMA CallsStep ==
  ASSUME CallsOK, NEW c \in Caller, Begin(c) \/ Progress(c)
  PROVE  CallsOK'
<1> USE DEF At
<1>a. CallOK(call[c]) /\ call[c] \in Calls  BY DEF CallsOK
<1>1. CASE Begin(c)
  <2> PICK counted \in BOOLEAN : Set(c, [NoCall EXCEPT !.pc = "turn", !.counted = counted])
    BY <1>1 DEF Begin
  <2>1. PICK n : n = [NoCall EXCEPT !.pc = "turn", !.counted = counted]  OBVIOUS
  <2>2. n = [pc |-> "turn", i |-> 1, transient |-> 0, schema |-> 0, reserved |-> FALSE,
             settles |-> 0, sent |-> FALSE, rows |-> 0, answer |-> Null, failed |-> FALSE,
             counted |-> counted]
    BY <2>1 DEF NoCall
  <2>3. CallOK(n)
    BY <2>2, ProviderAssumption DEF CallOK, Calls, Over, ProviderAssumption
  <2>. QED  BY <2>1, <2>3, SetOK
<1>2. CASE Skip(c)
  <2>1. Booked(call[c])  BY <1>a, <1>2, OverBooked DEF Skip
  <2>. QED  BY <1>2, <2>1, TurnOK, SetOK DEF Skip
<1>3. CASE Try(c)
  <2>1. Booked(call[c])  BY <1>a, <1>3, OverBooked DEF Try
  <2>. QED  BY <1>3, <2>1, AgainOK, SetOK DEF Try
<1>4. CASE EndOfChain(c)
  <2>1. Booked(call[c])  BY <1>a, <1>4, OverBooked DEF EndOfChain
  <2>. QED  BY <1>4, <2>1, AbortOK DEF EndOfChain
<1>5. CASE AttemptRefused(c)
  <2>1. Booked(call[c])  BY <1>a, <1>5, OverBooked DEF AttemptRefused
  <2>. QED  BY <1>5, <2>1, AbortOK DEF AttemptRefused
<1>6. CASE Reserve(c)
  <2>1. PICK n : n = [NoCall EXCEPT !.pc = "reserved", !.i = call[c].i, !.reserved = TRUE,
                        !.transient = call[c].transient, !.schema = call[c].schema,
                        !.counted = call[c].counted]
    OBVIOUS
  <2>b. n = [pc |-> "reserved", i |-> call[c].i, transient |-> call[c].transient,
             schema |-> call[c].schema, reserved |-> TRUE, settles |-> 0, sent |-> FALSE,
             rows |-> 0, answer |-> Null, failed |-> FALSE, counted |-> call[c].counted]
    BY <2>1 DEF NoCall
  <2>2. /\ n \in Calls /\ n.pc = "reserved" /\ n.settles = 0 /\ n.rows = 0
        /\ n.i = call[c].i /\ ~n.failed
    BY <1>a, <2>b DEF Calls
  <2>3. CallOK(n)  BY <1>a, <1>6, <2>2 DEF CallOK, Over, Reserve
  <2>. QED  BY <1>6, <2>1, <2>3, SetOK DEF Reserve
<1>7. CASE Send(c)
  <2>1. PICK n : n = [call[c] EXCEPT !.pc = "sent", !.sent = TRUE]  OBVIOUS
  <2>2. /\ n \in Calls /\ n.pc = "sent" /\ n.settles = call[c].settles
        /\ n.rows = call[c].rows /\ n.i = call[c].i /\ n.failed = call[c].failed
    BY <1>a, <2>1 DEF Calls
  <2>3. CallOK(n)  BY <1>a, <1>7, <2>2 DEF CallOK, Over, Send
  <2>. QED  BY <1>7, <2>1, <2>3, SetOK DEF Send
<1>8. CASE Unsent(c)
  <2>1. PICK r \in LastSettlement(call[c]) : Abort(c, r)  BY <1>8 DEF Unsent
  <2>2. Booked(r)  BY <1>a, <1>8, <2>1, LostBooked, SettledBooked DEF Unsent, LastSettlement
  <2>. QED  BY <2>1, <2>2, AbortOK
<1>9. CASE ClaimedTooLate(c)
  <2>1. PICK r \in LastSettlement(call[c]) : Abort(c, r)  BY <1>9 DEF ClaimedTooLate
  <2>2. Booked(r)
    BY <1>a, <1>9, <2>1, LostBooked, SettledBooked DEF ClaimedTooLate, LastSettlement
  <2>. QED  BY <2>1, <2>2, AbortOK
<1>10. CASE Answered(c)
  <2>1. PICK a \in Answer : Set(c, [call[c] EXCEPT !.pc = "settle", !.answer = a])
    BY <1>10 DEF Answered
  <2>2. PICK n : n = [call[c] EXCEPT !.pc = "settle", !.answer = a]  OBVIOUS
  <2>3. /\ n \in Calls /\ n.pc = "settle" /\ n.settles = call[c].settles /\ n.answer = a
        /\ n.rows = call[c].rows /\ n.i = call[c].i /\ n.failed = call[c].failed
    BY <1>a, <2>2 DEF Calls
  <2>4. CallOK(n)  BY <1>a, <1>10, <2>1, <2>3 DEF CallOK, Over, Answered
  <2>. QED  BY <2>1, <2>2, <2>4, SetOK
<1>11. CASE CancelSent(c)
  <2>1. PICK r \in {Recorded(Settled(call[c]))} \union SettlementLost(call[c]) : Set(c, Ended(r))
    BY <1>11 DEF CancelSent
  <2>2. Booked(r)  BY <1>a, <1>11, <2>1, LostBooked, SettledBooked DEF CancelSent
  <2>. QED  BY <2>1, <2>2, EndedOK, SetOK
<1>12. CASE Settle(c)
  <2>1. PICK s : s = Settled(call[c])  OBVIOUS
  <2>2. /\ s \in Calls /\ s.settles = 1 /\ s.rows = 0 /\ s.i = call[c].i
        /\ s.answer = call[c].answer
    BY <1>a, <1>12, <2>1, SettledBooked DEF Settle
  <2>3. s.failed = call[c].failed  BY <1>a, <2>1 DEF Settled, Calls
  <2>4. PICK n : n = [s EXCEPT !.pc = "record"]  OBVIOUS
  <2>5. /\ n \in Calls /\ n.pc = "record" /\ n.settles = 1 /\ n.rows = 0
        /\ n.i = s.i /\ n.answer = s.answer /\ n.failed = s.failed
    BY <2>2, <2>4 DEF Calls
  <2>6. CallOK(n)  BY <1>a, <1>12, <2>2, <2>3, <2>5 DEF CallOK, Over, Settle
  <2>. QED  BY <1>12, <2>1, <2>4, <2>6, SetOK DEF Settle
<1>13. CASE CancelSettle(c)
  <2>1. Booked(Settled(call[c]))  BY <1>a, <1>13, SettledBooked DEF CancelSettle
  <2>. QED  BY <1>13, <2>1, AbortOK DEF CancelSettle
<1>14. CASE SettleFails(c)
  <2>1. PICK r \in SettlementLost(call[c]) : Abort(c, r)  BY <1>14 DEF SettleFails
  <2>2. Booked(r)  BY <1>a, <1>14, <2>1, LostBooked DEF SettleFails
  <2>. QED  BY <2>1, <2>2, AbortOK
<1>b. ASSUME call[c].pc = "record"
      PROVE  Booked(call[c]) /\ Booked(Recorded(call[c])) /\ call[c].i \in DOMAIN Chain
  BY <1>a, <1>b, OverBooked, RecordedBooked DEF CallOK
<1>15. CASE CancelRecord(c)
  BY <1>15, <1>b, AbortOK DEF CancelRecord
<1>16. CASE RecordFails(c)
  <2>1. PICK r \in {call[c], Recorded(call[c])} : Abort(c, [r EXCEPT !.failed = TRUE])
    BY <1>16 DEF RecordFails
  <2>2. Booked(r)  BY <1>b, <1>16, <2>1 DEF RecordFails
  <2>3. Booked([r EXCEPT !.failed = TRUE])  BY <2>2, FailedBooked DEF Booked
  <2>. QED  BY <2>1, <2>3, AbortOK
<1>17. CASE Good(c)
  BY <1>17, <1>b, EndedOK, SetOK DEF Good
<1>18. CASE BadAgain(c)
  <2>1. PICK r : r = Recorded(call[c])  OBVIOUS
  <2>2. Booked(r) /\ r.i \in DOMAIN Chain
    BY <1>a, <1>b, <1>18, <2>1, RecordedBooked DEF BadAgain
  <2>b. PICK m : m = [r EXCEPT !.schema = 1]  OBVIOUS
  <2>c. /\ m \in Calls /\ m.i = r.i /\ m.settles = r.settles
        /\ m.rows = r.rows /\ m.reserved = r.reserved /\ m.failed = r.failed
    BY <2>2, <2>b DEF Booked, Calls
  <2>3. PICK n : n = [m EXCEPT !.pc = "attempt"]  OBVIOUS
  <2>4. /\ n \in Calls /\ n.pc = "attempt" /\ n.i = r.i /\ n.settles = r.settles
        /\ n.rows = r.rows /\ n.reserved = r.reserved /\ n.failed = r.failed
    BY <2>c, <2>3 DEF Calls
  <2>5. CallOK(n)  BY <2>2, <2>4 DEF CallOK, Booked, Over
  <2>. QED  BY <1>18, <2>1, <2>b, <2>3, <2>5, SetOK DEF BadAgain
<1>c. ASSUME call[c].pc = "record" PROVE CallOK(NextTurn(Recorded(call[c])))
  BY <1>a, <1>b, <1>c, RecordedBooked, TurnOK
<1>19. CASE BadGivenUp(c)
  BY <1>19, <1>b, <1>c, EndedOK, SetOK DEF BadGivenUp
<1>20. CASE TransientAgain(c)
  <2>1. PICK r : r = Recorded(call[c])  OBVIOUS
  <2>2. Booked(r) /\ r.i \in DOMAIN Chain
    BY <1>a, <1>b, <1>20, <2>1, RecordedBooked DEF TransientAgain
  <2>3. PICK t : t = Lesser(r.transient + 1, MaxTransient)  OBVIOUS
  <2>4. t \in 0..MaxTransient
    BY <2>2, <2>3, ProviderAssumption DEF Lesser, Booked, Calls, ProviderAssumption
  <2>5. PICK n : n = [r EXCEPT !.pc = "attempt", !.transient = t]  OBVIOUS
  <2>6. /\ n \in Calls /\ n.pc = "attempt" /\ n.i = r.i /\ n.settles = r.settles
        /\ n.rows = r.rows /\ n.reserved = r.reserved /\ n.failed = r.failed
    BY <2>2, <2>4, <2>5 DEF Booked, Calls
  <2>7. CallOK(n)  BY <2>2, <2>6 DEF CallOK, Booked, Over
  <2>8. n = [Recorded(call[c]) EXCEPT !.pc = "attempt", !.transient = Lesser(@ + 1, MaxTransient)]
    BY <2>1, <2>3, <2>5
  <2>. QED  BY <1>20, <2>7, <2>8, SetOK DEF TransientAgain
<1>21. CASE NoRoomToRetry(c)
  BY <1>21, <1>b, AbortOK DEF NoRoomToRetry
<1>22. CASE Exhausted(c)
  BY <1>22, <1>c, SetOK DEF Exhausted
<1>. QED
  BY <1>1, <1>2, <1>3, <1>4, <1>5, <1>6, <1>7, <1>8, <1>9, <1>10, <1>11, <1>12, <1>13,
     <1>14, <1>15, <1>16, <1>17, <1>18, <1>19, <1>20, <1>21, <1>22 DEF Progress, Outcome

\* Every step of a caller leaves the breakers in order.
LEMMA BreakersStep ==
  ASSUME CallsOK, BreakersOK, NEW c \in Caller, Begin(c) \/ Progress(c)
  PROVE  BreakersOK'
<1> USE DEF At
<1>a. CallOK(call[c])  BY DEF CallsOK
<1>b. ASSUME call[c].pc \notin {"idle", "turn"} PROVE P(c) \in Profile
  BY <1>a, <1>b DEF CallOK, P, Profile
<1>1. CASE UNCHANGED <<breaker, trials>>  BY <1>1, SameBreakers
<1>2. CASE Try(c)
  <2>1. P(c) \in Profile  BY <1>2 DEF Try, P, Profile
  <2>2. PICK b : b = Allowed(breaker[P(c)])  OBVIOUS
  <2>3. PICK t : t = IF breaker[P(c)].state = "closed" THEN trials[P(c)]
                     ELSE Lesser(trials[P(c)] + 1, 2)
    OBVIOUS
  <2>4. BreakerOK(b, t)
    BY <1>2, <2>1, <2>2, <2>3, AllowedOK DEF Try, BreakersOK
  <2>5. /\ breaker' = [breaker EXCEPT ![P(c)] = b]
        /\ trials' = [trials EXCEPT ![P(c)] = t]
    BY <1>2, <2>2, <2>3 DEF Try
  <2>6. b \in Breakers /\ t \in 0..2  BY <2>4 DEF BreakerOK
  <2>7. /\ breaker' \in [Profile -> Breakers] /\ trials' \in [Profile -> 0..2]
        /\ \A q \in Profile \ {P(c)} : breaker'[q] = breaker[q] /\ trials'[q] = trials[q]
        /\ breaker'[P(c)] = b /\ trials'[P(c)] = t
    BY <2>1, <2>5, <2>6 DEF BreakersOK
  <2>. QED  BY <2>4, <2>7 DEF BreakersOK
<1>3. CASE CancelSent(c)
  BY <1>b, <1>3, FailingOK, SameBreakers DEF CancelSent, KeepBreakers
<1>4. CASE Good(c)
  BY <1>b, <1>4, SucceedingOK DEF Good
<1>5. CASE BadGivenUp(c)
  BY <1>b, <1>5, SucceedingOK DEF BadGivenUp
<1>6. CASE Exhausted(c)
  BY <1>b, <1>6, CutOK, FailingOK DEF Exhausted
<1>. QED
  BY <1>1, <1>2, <1>3, <1>4, <1>5, <1>6 DEF Progress, Outcome, KeepBreakers, Abort, Begin,
     Skip, EndOfChain, AttemptRefused, Reserve, Send, Unsent, ClaimedTooLate, Answered,
     Settle, CancelSettle, SettleFails, CancelRecord, RecordFails, BadAgain,
     TransientAgain, NoRoomToRetry

\* Every request of the lineage is claimed below the ceiling.
LEMMA ClaimsStep ==
  ASSUME ClaimsOK, NEW c \in Caller, Begin(c) \/ Progress(c)
  PROVE  ClaimsOK'
<1>1. CASE UNCHANGED <<claims, sends>>  BY <1>1 DEF ClaimsOK, ClaimInv
<1>2. CASE Send(c)
  BY <1>2, ProviderAssumption DEF Send, Claim, Lesser, ClaimsOK, ClaimInv, ProviderAssumption
<1>3. CASE ClaimedTooLate(c)
  BY <1>3, ProviderAssumption DEF ClaimedTooLate, Claim, ClaimsOK, ClaimInv, ProviderAssumption
<1>. QED
  BY <1>1, <1>2, <1>3 DEF Progress, Outcome, Begin, Skip, Try, EndOfChain, AttemptRefused,
     Reserve, Unsent, Answered, CancelSent, Settle, CancelSettle, SettleFails, CancelRecord,
     RecordFails, Good, BadAgain, BadGivenUp, TransientAgain, NoRoomToRetry, Exhausted

\* Time only runs windows down.
LEMMA TickOK ==
  ASSUME CallsOK, BreakersOK, ClaimsOK, Tick
  PROVE  CallsOK' /\ BreakersOK' /\ ClaimsOK'
<1>1. ASSUME NEW p \in Profile PROVE BreakerOK(breaker'[p], trials'[p])
  <2>1. BreakerOK(breaker[p], trials[p])  BY DEF BreakersOK
  <2>2. PICK n : n = IF breaker[p].rest > 0 THEN breaker[p].rest - 1 ELSE 0  OBVIOUS
  <2>3. breaker[p] \in Breakers  BY <2>1 DEF BreakerOK
  <2>4. n \in 0..MaxWindow
    BY <2>2, <2>3, ProviderAssumption DEF Breakers, ProviderAssumption
  <2>5. breaker'[p] = [breaker[p] EXCEPT !.rest = n] /\ trials'[p] = trials[p]
    BY <2>2 DEF Tick
  <2>6. /\ breaker'[p] \in Breakers /\ breaker'[p].state = breaker[p].state
        /\ breaker'[p].trial = breaker[p].trial
    BY <2>3, <2>4, <2>5 DEF Breakers
  <2>. QED  BY <2>1, <2>5, <2>6 DEF BreakerOK
<1>2. breaker' \in [Profile -> Breakers] /\ trials' \in [Profile -> 0..2]
  <2>1. DOMAIN breaker' = Profile /\ breaker' = [p \in Profile |-> breaker'[p]]
    BY DEF Tick
  <2>2. \A p \in Profile : breaker'[p] \in Breakers  BY <1>1 DEF BreakerOK
  <2>. QED  BY <2>1, <2>2 DEF Tick, BreakersOK
<1>3. CallsOK' /\ ClaimsOK'
  BY DEF Tick, CallsOK, ClaimsOK, ClaimInv
<1>. QED  BY <1>1, <1>2, <1>3 DEF BreakersOK

-----------------------------------------------------------------------------
(* Theorems.                                                               *)

\* The inductive invariant: a breaker is half open exactly while its one trial
\* is out, the books of an attempt agree with how far it got, requests were
\* claimed.
THEOREM Invariance == SafeSpec => []IInv
<1>1. Init => IInv
  <2>1. ASSUME Init PROVE CallsOK
    <3>1. CallOK(NoCall)
      BY ProviderAssumption DEF NoCall, CallOK, Calls, Over, ProviderAssumption
    <3>. QED  BY <2>1, <3>1 DEF Init, CallsOK, CallOK
  <2>2. ASSUME Init PROVE BreakersOK
    BY <2>2, ProviderAssumption DEF Init, BreakersOK, BreakerOK, Breakers, ClosedBreaker,
       ProviderAssumption
  <2>3. ASSUME Init PROVE ClaimsOK
    BY <2>3, ProviderAssumption DEF Init, ClaimsOK, ClaimInv, ProviderAssumption
  <2>. QED  BY <2>1, <2>2, <2>3, Parts
<1>2. IInv /\ [Next]_vars => IInv'
  <2>1. ASSUME CallsOK, BreakersOK, ClaimsOK, [Next]_vars
        PROVE  CallsOK' /\ BreakersOK' /\ ClaimsOK'
    <3>1. CASE UNCHANGED vars
      BY <2>1, <3>1 DEF vars, CallsOK, BreakersOK, ClaimsOK, ClaimInv
    <3>2. CASE Tick  BY <2>1, <3>2, TickOK
    <3>3. ASSUME NEW c \in Caller, Begin(c) \/ Progress(c)
          PROVE  CallsOK' /\ BreakersOK' /\ ClaimsOK'
      BY <2>1, <3>3, CallsStep, BreakersStep, ClaimsStep
    <3>. QED  BY <2>1, <3>1, <3>2, <3>3 DEF Next
  <2>2. (IInv <=> CallsOK /\ BreakersOK /\ ClaimsOK)'  BY Parts, PTL
  <2>. QED  BY <2>1, <2>2, Parts
<1>. QED  BY <1>1, <1>2, PTL DEF SafeSpec

\* Type correctness, with the bounds of the breakers' windows.
THEOREM TypeCorrect == SafeSpec => []TypeOK
<1>1. IInv => TypeOK  BY DEF IInv
<1>. QED  BY <1>1, Invariance, PTL

\* Every attempt is settled at most once, and once unless the database failed.
THEOREM BooksAreRight == SafeSpec => []BookedOnce
<1>1. IInv => BookedOnce  BY DEF IInv
<1>. QED  BY <1>1, Invariance, PTL

\* A lineage never sends more requests than its ceiling.
THEOREM CeilingKept == SafeSpec => []CallCeiling
<1>1. IInv => CallCeiling
  BY ProviderAssumption DEF IInv, TypeOK, ClaimInv, CallCeiling, ProviderAssumption
<1>. QED  BY <1>1, Invariance, PTL

\* Each opening of a breaker admits at most one trial.
THEOREM TrialIsOne == SafeSpec => []OneTrial
<1>1. IInv => OneTrial  BY DEF IInv, TypeOK, Breakers, BreakerInv, OneTrial
<1>. QED  BY <1>1, Invariance, PTL

=============================================================================
