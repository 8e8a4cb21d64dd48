----------------------------- MODULE SpendGuard -----------------------------
(***************************************************************************)
(* The spend guard of the provider calls: DbBudget in librarian/budget.py, *)
(* over llm_budget (one row per hour, day and month) and llm_reservations. *)
(*                                                                         *)
(* The transactions of reserve, settle and sweep are modelled statement by *)
(* statement, with the row locks they take; their changes become visible   *)
(* when they commit.  A lock is held until its transaction ends, so a row  *)
(* that was read after it was locked is still the same at the commit.      *)
(* Amounts are natural numbers (units of 1e-8 USD).                        *)
(***************************************************************************)
EXTENDS Naturals, FiniteSets, Sums

CONSTANTS
  Call,      \* call ids, one per provider attempt
  Sweeper,   \* processes that run sweep
  Rank,      \* the order of the call ids
  Worst,     \* worst_usd of each call
  Actual,    \* the costs a provider may report for a call
  Caps,      \* the caps that settings may give
  Window,    \* period_start values
  TheRow,    \* an arbitrary window, the one the refinement looks at
  StartOf,   \* date_trunc: the window of each period at each time
  Ttl,       \* life of a reservation
  MaxTime,   \* bound on the times at which a call is reserved
  MaxFaults, \* bound on crashes and on transactions that fail
  Null

Period == {"hour", "day", "month"}

\* PERIODS: the order in which the rows of the windows are locked.
Order == [k \in Period |-> CASE k = "hour" -> 1 [] k = "day" -> 2 [] k = "month" -> 3]

Horizon == MaxTime + Ttl + 1
Time == 0..Horizon
Agent == Call \union Sweeper

RowsAt(t) == {<<k, StartOf[t][k]>> : k \in Period}
BudgetRow == UNION {RowsAt(t) : t \in Time}
Rows == Call \union BudgetRow

ASSUME SpendAssumption ==
  /\ IsFiniteSet(Call)
  /\ Call \intersect (Sweeper \union BudgetRow) = {}
  /\ Rank \in [Call -> Nat]
  /\ \A c, d \in Call : Rank[c] = Rank[d] => c = d
  /\ Worst \in [Call -> Nat]
  /\ Actual \in [Call -> SUBSET Nat]
  /\ Caps \subseteq [Period -> Nat]
  /\ Ttl \in Nat /\ MaxTime \in Nat /\ MaxFaults \in Nat
  /\ StartOf \in [Time -> [Period -> Window]]
  /\ TheRow \in BudgetRow
  /\ Null \notin Nat \union [at : Nat, usd : Nat]

VARIABLES
  time,
  budget,       \* llm_budget, as committed
  reservation,  \* llm_reservations: the time each open call was reserved, or Null
  call,         \* how far each caller got: new, open (reserved, being sent), over
  tx,           \* the transaction each caller and each sweeper is in
  bill,         \* history: what each call was charged in the end
  faults

vars == <<time, budget, reservation, call, tx, bill, faults>>

NoTx == [op |-> "none", at |-> 0, caps |-> Null, usd |-> Null, need |-> {}, held |-> {}]

Init ==
  /\ time = 0
  /\ budget = [r \in BudgetRow |-> [spent |-> 0, reserved |-> 0, cap |-> 0]]
  /\ reservation = [c \in Call |-> Null]
  /\ call = [c \in Call |-> "new"]
  /\ tx = [a \in Agent |-> NoTx]
  /\ bill = [c \in Call |-> Null]
  /\ faults = 0

-----------------------------------------------------------------------------
(* Helpers.  Operators named Faulty... are seeded faults, used only to test *)
(* that the runs notice them.                                              *)

\* expires_at < now()
FaultyExpired(c) == reservation[c] # Null /\ reservation[c] + Ttl > time

Expired(c) == reservation[c] # Null /\ reservation[c] + Ttl < time

\* r is the row of the next statement of a's transaction: the windows of the
\* reservation in hand come first, by period, then the reservations by call id.
NextRow(a, r) ==
  LET windows == tx[a].need \intersect BudgetRow
      ids == tx[a].need \intersect Call
  IN \/ r \in windows /\ \A q \in windows : Order[r[1]] <= Order[q[1]]
     \/ windows = {} /\ r \in ids /\ \A d \in ids : Rank[r] <= Rank[d]

\* a's statement waits for a lock that b holds.
Waits(a, b) == a # b /\ \E r \in tx[b].held : NextRow(a, r)

Blocked(a) == \E b \in Agent : Waits(a, b)

\* PostgreSQL aborts a transaction of a circular wait.
Deadlocked(a) ==
  \E D \in SUBSET Agent : a \in D /\ \A x \in D : \E y \in D : Waits(x, y)

FaultyFitsOpenIgnored(a, r) == budget[r].spent + Worst[a] <= tx[a].caps[r[1]]

FaultyFitsBeforehand(a, r) ==
  budget[r].spent + budget[r].reserved <= tx[a].caps[r[1]]

\* spent_usd + reserved_usd + worst <= cap_usd
Fits(a, r) ==
  budget[r].spent + budget[r].reserved + Worst[a] <= tx[a].caps[r[1]]

Run(a, op, at, caps, usd, need) ==
  tx' = [tx EXCEPT ![a] = [op |-> op, at |-> at, caps |-> caps, usd |-> usd,
                           need |-> need, held |-> {}]]

End(a) == tx' = [tx EXCEPT ![a] = NoTx]

-----------------------------------------------------------------------------
(* Actions.                                                                *)

\* reserve: now() is the start of the transaction; the caps are those of the
\* settings its process was started with.
BeginReserve(c) ==
  /\ call[c] = "new" /\ tx[c] = NoTx /\ time <= MaxTime
  /\ \E caps \in Caps : Run(c, "reserve", time, caps, Null, RowsAt(time))
  /\ UNCHANGED <<time, budget, reservation, call, bill, faults>>

\* settle, with the actual cost or None (the worst case).
BeginSettle(c) ==
  /\ call[c] = "open" /\ tx[c] = NoTx
  /\ \E usd \in Actual[c] \union {Worst[c]} : Run(c, "settle", time, Null, usd, {c})
  /\ UNCHANGED <<time, budget, reservation, call, bill, faults>>

\* sweep: one transaction settles every expired reservation.
BeginSweep(s) ==
  /\ tx[s] = NoTx
  /\ \E c \in Call : Expired(c)
  /\ Run(s, "sweep", time, Null, Null, {c \in Call : Expired(c)})
  /\ UNCHANGED <<time, budget, reservation, call, bill, faults>>

\* One statement: it gets its row's lock.  A reservation that is still there
\* is deleted and its windows come next; one that is gone is left alone.
Lock(a) ==
  /\ ~Blocked(a)
  /\ \E r \in tx[a].need :
       LET gone == r \in Call /\ reservation[r] = Null
           windows == IF r \in Call /\ ~gone
                      THEN RowsAt(reservation[r]) \ tx[a].held ELSE {}
       IN /\ NextRow(a, r)
          /\ tx[a].op = "reserve" => Fits(a, r)
          /\ tx' = [tx EXCEPT ![a].need = (@ \ {r}) \union windows,
                              ![a].held = IF gone THEN @ ELSE @ \union {r}]
  /\ UNCHANGED <<time, budget, reservation, call, bill, faults>>

\* A window has no room: the transaction rolls back, the call is not made.
Deny(c) ==
  /\ tx[c].op = "reserve" /\ ~Blocked(c)
  /\ \E r \in tx[c].need : NextRow(c, r) /\ ~Fits(c, r)
  /\ End(c)
  /\ call' = [call EXCEPT ![c] = "over"]
  /\ UNCHANGED <<time, budget, reservation, bill, faults>>

CommitReserve(c) ==
  /\ tx[c].op = "reserve" /\ tx[c].need = {}
  /\ budget' = [r \in BudgetRow |->
       IF r \in tx[c].held
       THEN [spent |-> budget[r].spent, reserved |-> budget[r].reserved + Worst[c],
             cap |-> tx[c].caps[r[1]]]
       ELSE budget[r]]
  /\ reservation' = [reservation EXCEPT ![c] = tx[c].at]
  /\ call' = [call EXCEPT ![c] = "open"]
  /\ End(c)
  /\ UNCHANGED <<time, bill, faults>>

\* What a charges for the reservation c: a sweep knows no actual cost.
Charge(a, c) == IF tx[a].op = "settle" THEN tx[a].usd ELSE Worst[c]

FaultySettledInCurrent(a, r) ==
  {c \in tx[a].held \intersect Call : r \in RowsAt(time)}

\* The reservations of the row r that a's transaction deletes.
SettledIn(a, r) == {c \in tx[a].held \intersect Call : r \in RowsAt(reservation[c])}

FaultySettledByCharge(a, r) ==
  LET S == SettledIn(a, r) IN
  [spent |-> budget[r].spent + Sum([c \in S |-> Charge(a, c)], S),
   reserved |-> budget[r].reserved - Sum([c \in S |-> Charge(a, c)], S),
   cap |-> budget[r].cap]

\* The row r after a's updates: GREATEST(reserved - worst, 0), spent + charge.
Settled(a, r) ==
  LET S == SettledIn(a, r)
      worst == Sum(Worst, S)
  IN [spent |-> budget[r].spent + Sum([c \in S |-> Charge(a, c)], S),
      reserved |-> IF budget[r].reserved > worst THEN budget[r].reserved - worst ELSE 0,
      cap |-> budget[r].cap]

CommitSettle(a) ==
  /\ tx[a].op \in {"settle", "sweep"} /\ tx[a].need = {}
  /\ budget' = [r \in BudgetRow |-> IF r \in tx[a].held THEN Settled(a, r) ELSE budget[r]]
  /\ reservation' = [c \in Call |-> IF c \in tx[a].held THEN Null ELSE reservation[c]]
  /\ bill' = [c \in Call |->
       IF c \in tx[a].held THEN [at |-> reservation[c], usd |-> Charge(a, c)] ELSE bill[c]]
  /\ call' = [c \in Call |-> IF c = a THEN "over" ELSE call[c]]
  /\ End(a)
  /\ UNCHANGED <<time, faults>>

\* The transaction fails and rolls back; its caller makes no second attempt.
Rollback(a) ==
  /\ tx[a] # NoTx
  /\ End(a)
  /\ call' = [c \in Call |-> IF c = a THEN "over" ELSE call[c]]
  /\ UNCHANGED <<time, budget, reservation, bill>>

DeadlockVictim(a) == Deadlocked(a) /\ Rollback(a) /\ UNCHANGED faults

TxFails(a) == faults < MaxFaults /\ faults' = faults + 1 /\ Rollback(a)

\* The caller dies between reserve and settle (or never learns that its
\* reserve was committed).
CallerDies(c) ==
  /\ call[c] = "open" /\ tx[c] = NoTx
  /\ faults < MaxFaults /\ faults' = faults + 1
  /\ call' = [call EXCEPT ![c] = "over"]
  /\ UNCHANGED <<time, budget, reservation, tx, bill>>

Tick ==
  /\ time < Horizon
  /\ time' = time + 1
  /\ UNCHANGED <<budget, reservation, call, tx, bill, faults>>

-----------------------------------------------------------------------------
Next ==
  \/ Tick
  \/ \E c \in Call : BeginReserve(c) \/ BeginSettle(c) \/ Deny(c) \/ CommitReserve(c)
                       \/ CallerDies(c)
  \/ \E s \in Sweeper : BeginSweep(s)
  \/ \E a \in Agent : Lock(a) \/ CommitSettle(a) \/ DeadlockVictim(a) \/ TxFails(a)

SafeSpec == Init /\ [][Next]_vars

\* Time passes, a transaction that can go on does, a circular wait is broken,
\* a row lock goes to the one that waited longest (so a waiter is not passed
\* over for ever), and the worker's loop keeps sweeping.  Nothing makes a
\* caller settle: it may be dead.
Fairness ==
  /\ WF_vars(Tick)
  /\ \A c \in Call : WF_vars(Deny(c) \/ CommitReserve(c))
  /\ \A s \in Sweeper : WF_vars(BeginSweep(s))
  /\ \A a \in Agent : SF_vars(Lock(a)) /\ WF_vars(CommitSettle(a))
  /\ WF_vars(\E a \in Agent : DeadlockVictim(a))

Spec == SafeSpec /\ Fairness

-----------------------------------------------------------------------------
(* Properties.                                                             *)

Money == [spent : Nat, reserved : Nat, cap : Nat]

Transaction ==
  [op : {"none", "reserve", "settle", "sweep"}, at : Time, caps : Caps \union {Null},
   usd : Nat \union {Null}, need : SUBSET Rows, held : SUBSET Rows]

\* Types.
TypeOK ==
  /\ time \in Time
  /\ budget \in [BudgetRow -> Money]
  /\ reservation \in [Call -> Time \union {Null}]
  /\ call \in [Call -> {"new", "open", "over"}]
  /\ tx \in [Agent -> Transaction]
  /\ bill \in [Call -> [at : Time, usd : Nat] \union {Null}]
  /\ faults \in Nat

OpenIn(r) == {c \in Call : reservation[c] # Null /\ r \in RowsAt(reservation[c])}

BilledIn(r) == {c \in Call : bill[c] # Null /\ r \in RowsAt(bill[c].at)}

\* The counter reserved_usd of every window is the sum of the worst cases of
\* the open reservations that count in it: no crash, sweep, late settle or
\* change of the hour leaks a reservation, and GREATEST(..., 0) never bites.
ReservedIsOpen == \A r \in BudgetRow : budget[r].reserved = Sum(Worst, OpenIn(r))

BilledUsd == [c \in Call |-> IF bill[c] = Null THEN 0 ELSE bill[c].usd]

\* spent_usd is the sum of what the finished calls of the window were charged,
\* each once, although a sweep and a late settle may both try.
SpentIsBilled == \A r \in BudgetRow : budget[r].spent = Sum(BilledUsd, BilledIn(r))

\* What the providers charged beyond the worst case of their calls.
Excess == [c \in Call |-> IF BilledUsd[c] > Worst[c] THEN BilledUsd[c] - Worst[c] ELSE 0]

\* "The spend never exceeds the cap": concurrent calls never reserve more than
\* the cap of their window, whatever caps the processes are started with; only
\* an answer that costs more than its worst case can push the sum beyond it.
WithinCap ==
  \A r \in BudgetRow :
    budget[r].spent + budget[r].reserved <= budget[r].cap + Sum(Excess, BilledIn(r))

\* "A crash between reserve and settle is never free": a reservation goes away
\* only with a charge, and the worst case unless its own caller settles it.
NeverFree ==
  [][\A c \in Call : reservation[c] # Null /\ reservation'[c] = Null =>
       /\ bill'[c] # Null
       /\ c \in tx[c].held \/ bill'[c].usd = Worst[c]]_vars

\* What makes these invariants inductive: a transaction has locked, or has
\* yet to lock, all the rows it will change; what a reserve checked on a locked
\* row still holds; a settle deletes its own reservation only ...
OwnTx(a) ==
  LET t == tx[a] IN
  /\ a \in Sweeper => t.op \in {"none", "sweep"}
  /\ a \in Call => t.op \in {"none", "reserve", "settle"}
  /\ t.op = "none" => t.need = {} /\ t.held = {}
  /\ t.op = "reserve" =>
       /\ call[a] = "new" /\ t.caps \in Caps
       /\ t.need \union t.held = RowsAt(t.at)
       /\ \A r \in t.held : Fits(a, r)
  /\ t.op = "settle" =>
       /\ call[a] = "open" /\ t.usd \in Actual[a] \union {Worst[a]}
       /\ (t.need \union t.held) \intersect Call \subseteq {a}
  /\ t.op \in {"settle", "sweep"} =>
       \A c \in t.held \intersect Call :
         reservation[c] # Null /\ RowsAt(reservation[c]) \subseteq t.held \union t.need

\* ... and no row is locked twice, no call both open and billed.
Transactions ==
  /\ \A a \in Agent : OwnTx(a)
  /\ \A a, b \in Agent : a # b => tx[a].held \intersect tx[b].held = {}
  /\ \A c \in Call : /\ reservation[c] # Null => bill[c] = Null
                     /\ call[c] = "new" => reservation[c] = Null /\ bill[c] = Null

IInv == TypeOK /\ Transactions /\ ReservedIsOpen /\ SpentIsBilled /\ WithinCap

\* Every reservation is settled or swept in the end.
EveryCallBilled == \A c \in Call : reservation[c] # Null ~> reservation[c] = Null

\* The guard, seen from one window, implements SpendPromise.
Promise == INSTANCE SpendPromise WITH
  open <- OpenIn(TheRow),
  bill <- [c \in Call |-> IF c \in BilledIn(TheRow) THEN bill[c].usd ELSE Null],
  Cap <- {caps[TheRow[1]] : caps \in Caps}

KeepsPromise == Promise!Spec
=============================================================================
