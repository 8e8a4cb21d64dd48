--------------------------- MODULE SpendGuardProofs ---------------------------
(***************************************************************************)
(* The spend guard is safe for every number of calls and sweepers, every   *)
(* amount and every set of caps: its counters are exactly the open         *)
(* reservations and the charges, and the cap of a window is kept.          *)
(***************************************************************************)
EXTENDS SpendGuard, FiniteSetTheorems, TLAPS

-----------------------------------------------------------------------------
(* Sums over finite sets, as sizes of disjoint unions.                     *)

\* A unit is a pair of an element of S and a number up to its amount.
LEMMA UnitsMember ==
  ASSUME NEW f, NEW S, NEW x
  PROVE  x \in Units(f, S) <=> \E c \in S : \E i \in 1..f[c] : x = <<c, i>>
BY DEF Units

\* Sums of natural numbers over finite sets are natural numbers.
LEMMA SumIsNat ==
  ASSUME NEW S, IsFiniteSet(S), NEW f, \A c \in S : f[c] \in Nat
  PROVE  IsFiniteSet(Units(f, S)) /\ Sum(f, S) \in Nat
<1> DEFINE g == [c \in S |-> {c} \X (1..f[c])]
           T == {{c} \X (1..f[c]) : c \in S}
<1>1. \A t \in T : IsFiniteSet(t)
  <2> SUFFICES ASSUME NEW c \in S PROVE IsFiniteSet({c} \X (1..f[c]))
    OBVIOUS
  <2>1. IsFiniteSet({c})
    BY FS_Singleton
  <2>2. 1 \in Int /\ f[c] \in Int
    OBVIOUS
  <2>3. IsFiniteSet(1..f[c])
    BY <2>2, FS_Interval
  <2> QED BY <2>1, <2>3, FS_Product
<1>2. g \in Surjection(S, T)
  BY DEF Surjection
<1>3. IsFiniteSet(T)
  BY <1>2, FS_Surjection
<1>4. IsFiniteSet(UNION T)
  BY <1>1, <1>3, FS_UNION
<1> QED BY <1>4, FS_CardinalityType DEF Units, Sum

\* Nothing sums to nothing.
LEMMA SumOfNone == \A f : Sum(f, {}) = 0
<1> SUFFICES ASSUME NEW f PROVE Units(f, {}) = {}
  BY FS_EmptySet DEF Sum
<1> QED BY DEF Units

\* A sum depends on the amounts of its elements only.
LEMMA SumEqual ==
  ASSUME NEW S, NEW f, NEW g, \A c \in S : f[c] = g[c]
  PROVE  Sum(f, S) = Sum(g, S)
BY DEF Sum, Units

\* Sums of disjoint sets add up.
LEMMA SumOfUnion ==
  ASSUME NEW S, IsFiniteSet(S), NEW T, IsFiniteSet(T), S \intersect T = {},
         NEW f, \A c \in S \union T : f[c] \in Nat
  PROVE  Sum(f, S \union T) = Sum(f, S) + Sum(f, T)
<1>1. /\ IsFiniteSet(Units(f, S)) /\ IsFiniteSet(Units(f, T))
      /\ Sum(f, S) \in Nat /\ Sum(f, T) \in Nat
  BY SumIsNat
<1>2. Units(f, S \union T) = Units(f, S) \union Units(f, T)
  BY DEF Units
<1>3. Units(f, S) \intersect Units(f, T) = {}
  <2> SUFFICES ASSUME NEW x \in Units(f, S), x \in Units(f, T) PROVE FALSE
    OBVIOUS
  <2>1. (\E c \in S : x[1] = c) /\ (\E c \in T : x[1] = c)
    BY UnitsMember
  <2> QED BY <2>1
<1>4. Cardinality(Units(f, S) \intersect Units(f, T)) = 0
  BY <1>3, FS_EmptySet
<1>5. Sum(f, S \union T) = Sum(f, S) + Sum(f, T) - 0
  BY <1>1, <1>2, <1>4, FS_Union DEF Sum
<1> QED BY <1>1, <1>5

\* The sum over one element is its amount.
LEMMA SumOfOne ==
  ASSUME NEW c, NEW f, f[c] \in Nat
  PROVE  Sum(f, {c}) = f[c]
<1>1. Units(f, {c}) = {c} \X (1..f[c])
  BY DEF Units
<1>2. IsFiniteSet({c}) /\ Cardinality({c}) = 1
  BY FS_Singleton
<1>3. 1 \in Int /\ f[c] \in Int
  OBVIOUS
<1>4. IsFiniteSet(1..f[c]) /\ Cardinality(1..f[c]) = IF 1 > f[c] THEN 0 ELSE f[c] - 1 + 1
  BY <1>3, FS_Interval
<1>5. Cardinality(1..f[c]) = f[c]
  BY <1>4
<1>6. Cardinality({c} \X (1..f[c])) = Cardinality({c}) * Cardinality(1..f[c])
  BY <1>2, <1>4, FS_Product
<1>7. 1 * f[c] = f[c]
  OBVIOUS
<1>8. Cardinality({c} \X (1..f[c])) = f[c]
  BY <1>2, <1>5, <1>6, <1>7
<1> QED BY <1>1, <1>8 DEF Sum

\* The sum over a part is at most the sum over the whole.
LEMMA SumOfPart ==
  ASSUME NEW T, IsFiniteSet(T), NEW S, S \subseteq T,
         NEW f, \A c \in T : f[c] \in Nat
  PROVE  /\ Sum(f, S) \in Nat /\ Sum(f, T \ S) \in Nat
         /\ Sum(f, T) = Sum(f, S) + Sum(f, T \ S)
<1>1. IsFiniteSet(S) /\ IsFiniteSet(T \ S)
  BY FS_Subset
<1>2. T = S \union (T \ S) /\ S \intersect (T \ S) = {}
  OBVIOUS
<1> QED BY <1>1, <1>2, SumIsNat, SumOfUnion

\* If every amount is at most the sum of two others, so is the total.
LEMMA SumBounded ==
  ASSUME NEW S, IsFiniteSet(S), NEW f, NEW g, NEW h,
         \A c \in S : f[c] \in Nat /\ g[c] \in Nat /\ h[c] \in Nat /\ f[c] <= g[c] + h[c]
  PROVE  Sum(f, S) <= Sum(g, S) + Sum(h, S)
<1> DEFINE m == [x \in Units(h, S) |-> <<x[1], g[x[1]] + x[2]>>]
           V == {m[x] : x \in Units(h, S)}
<1>1. /\ IsFiniteSet(Units(f, S)) /\ IsFiniteSet(Units(g, S)) /\ IsFiniteSet(Units(h, S))
      /\ Sum(f, S) \in Nat /\ Sum(g, S) \in Nat /\ Sum(h, S) \in Nat
  BY SumIsNat
<1>2. m \in Surjection(Units(h, S), V)
  BY DEF Surjection
<1>3. IsFiniteSet(V) /\ Cardinality(V) <= Sum(h, S)
  BY <1>1, <1>2, FS_Surjection DEF Sum
<1>4. Units(f, S) \subseteq Units(g, S) \union V
  <2> SUFFICES ASSUME NEW c \in S, NEW i \in 1..f[c], <<c, i>> \notin Units(g, S)
               PROVE  <<c, i>> \in V
    BY UnitsMember
  <2>1. ~(i \in 1..g[c])
    BY UnitsMember
  <2>2. g[c] \in Nat /\ f[c] \in Nat /\ h[c] \in Nat /\ f[c] <= g[c] + h[c]
    OBVIOUS
  <2>3. i - g[c] \in 1..h[c] /\ g[c] + (i - g[c]) = i
    BY <2>1, <2>2
  <2>4. <<c, i - g[c]>> \in Units(h, S)
    BY <2>3, UnitsMember
  <2>5. m[<<c, i - g[c]>>] = <<c, i>>
    BY <2>3, <2>4
  <2> QED BY <2>4, <2>5
<1> HIDE DEF V
<1>5. IsFiniteSet(Units(g, S) \union V)
      /\ Cardinality(Units(g, S) \union V)
           = Cardinality(Units(g, S)) + Cardinality(V) - Cardinality(Units(g, S) \intersect V)
  BY <1>1, <1>3, FS_Union
<1>6. Cardinality(Units(g, S) \intersect V) \in Nat /\ Cardinality(V) \in Nat
  BY <1>1, <1>3, FS_Intersection, FS_CardinalityType
<1>7. Cardinality(Units(f, S)) <= Cardinality(Units(g, S) \union V)
  BY <1>4, <1>5, FS_Subset
<1> QED BY <1>1, <1>3, <1>5, <1>6, <1>7 DEF Sum

-----------------------------------------------------------------------------
(* The rows and the calls.                                                 *)

\* The rows of a time are rows of llm_budget, and no call id is one of them.
LEMMA RowsOfTime ==
  /\ \A t \in Time : RowsAt(t) \subseteq BudgetRow
  /\ Call \intersect BudgetRow = {}
  /\ \A r \in BudgetRow : r[1] \in Period
BY SpendAssumption DEF BudgetRow, RowsAt

\* Every set of calls has a sum, for amounts that are natural numbers.
LEMMA CallSums ==
  ASSUME NEW S \in SUBSET Call, NEW f, \A c \in S : f[c] \in Nat
  PROVE  IsFiniteSet(S) /\ Sum(f, S) \in Nat
BY SpendAssumption, FS_Subset, SumIsNat

\* What Lock leaves of a transaction.
LEMMA TxUpdate ==
  ASSUME tx \in [Agent -> Transaction], NEW a \in Agent,
         NEW N \in SUBSET Rows, NEW H \in SUBSET Rows,
         tx' = [tx EXCEPT ![a].need = N, ![a].held = H]
  PROVE  /\ tx' \in [Agent -> Transaction]
         /\ tx'[a] = [op |-> tx[a].op, at |-> tx[a].at, caps |-> tx[a].caps,
                      usd |-> tx[a].usd, need |-> N, held |-> H]
         /\ \A b \in Agent \ {a} : tx'[b] = tx[b]
<1>1. /\ tx'[a] = [[tx[a] EXCEPT !.need = N] EXCEPT !.held = H]
      /\ \A b \in Agent \ {a} : tx'[b] = tx[b]
      /\ DOMAIN tx' = Agent /\ tx' = [b \in Agent |-> tx'[b]]
  OBVIOUS
<1>2. tx[a] \in Transaction
  OBVIOUS
<1>3. tx'[a] = [op |-> tx[a].op, at |-> tx[a].at, caps |-> tx[a].caps,
                usd |-> tx[a].usd, need |-> N, held |-> H]
  BY <1>1, <1>2 DEF Transaction
<1>4. tx'[a] \in Transaction
  BY <1>2, <1>3 DEF Transaction
<1>5. \A b \in Agent : tx'[b] \in Transaction
  BY <1>1, <1>4
<1> QED BY <1>1, <1>3, <1>5

-----------------------------------------------------------------------------
\* The initial state has empty counters.
LEMMA InitIInv == Init => IInv
<1> SUFFICES ASSUME Init PROVE IInv
  OBVIOUS
<1>1. NoTx \in Transaction
  BY SpendAssumption DEF NoTx, Transaction, Time, Horizon
<1>2. TypeOK
  BY <1>1, SpendAssumption DEF Init, TypeOK, Money, Time, Horizon
<1>3. Transactions
  BY SpendAssumption DEF Init, Transactions, OwnTx, NoTx, Agent
<1>4. \A r \in BudgetRow : OpenIn(r) = {} /\ BilledIn(r) = {}
  BY DEF Init, OpenIn, BilledIn
<1>5. ReservedIsOpen /\ SpentIsBilled
  BY <1>4, SumOfNone DEF Init, ReservedIsOpen, SpentIsBilled
<1>6. WithinCap
  <2> SUFFICES ASSUME NEW r \in BudgetRow
               PROVE  budget[r].spent + budget[r].reserved
                        <= budget[r].cap + Sum(Excess, BilledIn(r))
    BY DEF WithinCap
  <2>1. budget[r].spent = 0 /\ budget[r].reserved = 0 /\ budget[r].cap = 0
    BY DEF Init
  <2>2. Sum(Excess, BilledIn(r)) = 0
    BY <1>4, SumOfNone
  <2> QED BY <2>1, <2>2
<1> QED BY <1>2, <1>3, <1>5, <1>6 DEF IInv

-----------------------------------------------------------------------------
\* Facts about the transactions of a state that satisfies the invariant.

\* A charge is a natural number.
LEMMA ChargeIsNat ==
  ASSUME TypeOK, Transactions, NEW a \in Agent, NEW c \in tx[a].held \intersect Call,
         tx[a].op \in {"settle", "sweep"}
  PROVE  /\ Charge(a, c) \in Nat
         /\ tx[a].op = "settle" => c = a /\ Charge(a, c) \in Actual[c] \union {Worst[c]}
         /\ tx[a].op # "settle" => Charge(a, c) = Worst[c]
<1>1. OwnTx(a)
  BY DEF Transactions
<1>2. CASE tx[a].op = "settle"
  <2>1. c = a
    BY <1>1, <1>2 DEF OwnTx
  <2>2. Charge(a, c) \in Actual[c] \union {Worst[c]}
    BY <1>1, <1>2, <2>1 DEF OwnTx, Charge
  <2> QED BY <1>2, <2>1, <2>2, SpendAssumption
<1>3. CASE tx[a].op # "settle"
  BY <1>3, SpendAssumption DEF Charge
<1> QED BY <1>2, <1>3

\* The charges of a transaction in one row.
Charges(a, r) == Sum([c \in SettledIn(a, r) |-> Charge(a, c)], SettledIn(a, r))

\* A settlement charges the calls it settles and leaves the cap.
LEMMA SettledIsMoney ==
  ASSUME TypeOK, Transactions, NEW a \in Agent, NEW r \in BudgetRow,
         tx[a].op \in {"settle", "sweep"}
  PROVE  /\ Settled(a, r) \in Money
         /\ Charges(a, r) \in Nat /\ Sum(Worst, SettledIn(a, r)) \in Nat
         /\ Settled(a, r).spent = budget[r].spent + Charges(a, r)
         /\ Settled(a, r).cap = budget[r].cap
<1> DEFINE S == SettledIn(a, r)
           f == [c \in S |-> Charge(a, c)]
<1>1. S \in SUBSET Call /\ S \subseteq tx[a].held \intersect Call
  BY DEF SettledIn
<1>2. \A c \in S : f[c] \in Nat
  BY <1>1, ChargeIsNat
<1>3. Sum(f, S) \in Nat
  <2> HIDE DEF S, f
  <2> QED BY <1>1, <1>2, CallSums
<1>4. Sum(Worst, S) \in Nat
  <2> HIDE DEF S, f
  <2> QED BY <1>1, CallSums, SpendAssumption
<1>5. budget[r] \in Money
  BY DEF TypeOK
<1>6. Settled(a, r) = [spent |-> budget[r].spent + Sum(f, S),
        reserved |-> IF budget[r].reserved > Sum(Worst, S)
                     THEN budget[r].reserved - Sum(Worst, S) ELSE 0,
        cap |-> budget[r].cap]
  BY DEF Settled
<1>7. Charges(a, r) = Sum(f, S)
  BY DEF Charges
<1> HIDE DEF S, f
<1> QED BY <1>3, <1>4, <1>5, <1>6, <1>7 DEF Money, S

-----------------------------------------------------------------------------
\* Every step keeps the types.
LEMMA TypeStep == TypeOK /\ Transactions /\ [Next]_vars => TypeOK'
<1> SUFFICES ASSUME TypeOK, Transactions, [Next]_vars PROVE TypeOK'
  OBVIOUS
<1> USE DEF TypeOK
<1>0. NoTx \in Transaction /\ Null \notin Nat
  BY SpendAssumption DEF NoTx, Transaction, Time, Horizon
<1>a. ASSUME NEW a \in Agent, End(a) PROVE tx' \in [Agent -> Transaction]
  BY <1>0, <1>a DEF End
<1>b. \A t \in Time : RowsAt(t) \subseteq Rows
  BY RowsOfTime DEF Rows
<1>c. ASSUME NEW a \in Agent, NEW op \in {"reserve", "settle", "sweep"},
             NEW caps \in Caps \union {Null}, NEW usd \in Nat \union {Null},
             NEW need \in SUBSET Rows, Run(a, op, time, caps, usd, need)
      PROVE  tx' \in [Agent -> Transaction]
  BY <1>c DEF Run, Transaction
<1>1. CASE Tick
  BY <1>1, SpendAssumption DEF Tick, Time, Horizon
<1>2. ASSUME NEW c \in Call, BeginReserve(c) PROVE TypeOK'
  <2>1. tx' \in [Agent -> Transaction]
    BY <1>2, <1>b, <1>c DEF BeginReserve, Agent
  <2> QED BY <1>2, <2>1 DEF BeginReserve
<1>3. ASSUME NEW c \in Call, BeginSettle(c) PROVE TypeOK'
  <2>1. PICK usd \in Actual[c] \union {Worst[c]} : Run(c, "settle", time, Null, usd, {c})
    BY <1>3 DEF BeginSettle
  <2>2. usd \in Nat /\ {c} \in SUBSET Rows /\ c \in Agent
    BY SpendAssumption DEF Agent, Rows
  <2>3. tx' \in [Agent -> Transaction]
    BY <1>c, <2>1, <2>2
  <2> QED BY <1>3, <2>3 DEF BeginSettle
<1>4. ASSUME NEW c \in Call, Deny(c) PROVE TypeOK'
  <2>1. tx' \in [Agent -> Transaction]
    BY <1>4, <1>a DEF Deny, Agent
  <2> QED BY <1>4, <2>1 DEF Deny
<1>5. ASSUME NEW c \in Call, CommitReserve(c) PROVE TypeOK'
  <2>1. tx' \in [Agent -> Transaction]
    BY <1>5, <1>a DEF CommitReserve, Agent
  <2>2. OwnTx(c) /\ tx[c] \in Transaction
    BY DEF Transactions, Agent
  <2>3. tx[c].caps \in [Period -> Nat] /\ tx[c].at \in Time
    BY <1>5, <2>2, SpendAssumption DEF OwnTx, CommitReserve, Transaction
  <2>4. budget' \in [BudgetRow -> Money]
    <3> SUFFICES ASSUME NEW r \in BudgetRow
                 PROVE  /\ [spent |-> budget[r].spent,
                             reserved |-> budget[r].reserved + Worst[c],
                             cap |-> tx[c].caps[r[1]]] \in Money
                        /\ budget[r] \in Money
      BY <1>5 DEF CommitReserve
    <3>1. budget[r] \in Money /\ Worst[c] \in Nat /\ tx[c].caps[r[1]] \in Nat
      BY <2>3, RowsOfTime, SpendAssumption
    <3> QED BY <3>1 DEF Money
  <2> QED BY <1>5, <2>1, <2>3, <2>4 DEF CommitReserve
<1>6. ASSUME NEW c \in Call, CallerDies(c) PROVE TypeOK'
  BY <1>6 DEF CallerDies
<1>7. ASSUME NEW s \in Sweeper, BeginSweep(s) PROVE TypeOK'
  <2>1. {c \in Call : Expired(c)} \in SUBSET Rows /\ s \in Agent
    BY DEF Agent, Rows
  <2>2. Run(s, "sweep", time, Null, Null, {c \in Call : Expired(c)})
    BY <1>7 DEF BeginSweep
  <2>3. tx' \in [Agent -> Transaction]
    BY <1>c, <2>1, <2>2
  <2> QED BY <1>7, <2>3 DEF BeginSweep
<1>8. ASSUME NEW a \in Agent, Lock(a) PROVE TypeOK'
  <2>1. tx[a] \in Transaction /\ tx[a].need \subseteq Rows /\ tx[a].held \subseteq Rows
    BY DEF Transaction
  <2>2. \E N, H \in SUBSET Rows : tx' = [tx EXCEPT ![a].need = N, ![a].held = H]
    <3> PICK r \in tx[a].need :
          LET gone == r \in Call /\ reservation[r] = Null
              windows == IF r \in Call /\ ~gone
                         THEN RowsAt(reservation[r]) \ tx[a].held ELSE {}
          IN tx' = [tx EXCEPT ![a].need = (@ \ {r}) \union windows,
                              ![a].held = IF gone THEN @ ELSE @ \union {r}]
      BY <1>8 DEF Lock
    <3> DEFINE W == IF r \in Call /\ ~(r \in Call /\ reservation[r] = Null)
                    THEN RowsAt(reservation[r]) \ tx[a].held ELSE {}
               N == (tx[a].need \ {r}) \union W
               H == IF r \in Call /\ reservation[r] = Null THEN tx[a].held
                    ELSE tx[a].held \union {r}
    <3>1. tx' = [tx EXCEPT ![a].need = N, ![a].held = H]
      OBVIOUS
    <3>2. W \subseteq Rows
      BY <1>b
    <3>3. N \in SUBSET Rows /\ H \in SUBSET Rows
      BY <2>1, <3>2
    <3> HIDE DEF N, H
    <3> QED BY <3>1, <3>3
  <2>3. tx' \in [Agent -> Transaction]
    BY <2>2, TxUpdate
  <2> QED BY <1>8, <2>3 DEF Lock
<1>9. ASSUME NEW a \in Agent, CommitSettle(a) PROVE TypeOK'
  <2>1. tx' \in [Agent -> Transaction]
    BY <1>9, <1>a DEF CommitSettle
  <2>2. budget' \in [BudgetRow -> Money]
    BY <1>9, SettledIsMoney DEF CommitSettle
  <2>3. bill' \in [Call -> [at : Time, usd : Nat] \union {Null}]
    <3> SUFFICES ASSUME NEW c \in Call, c \in tx[a].held
                 PROVE  reservation[c] \in Time /\ Charge(a, c) \in Nat
      BY <1>9 DEF CommitSettle
    <3>1. OwnTx(a)
      BY DEF Transactions
    <3> QED BY <1>9, <3>1, ChargeIsNat DEF OwnTx, CommitSettle
  <2>4. reservation' \in [Call -> Time \union {Null}]
    BY <1>9 DEF CommitSettle
  <2>5. call' \in [Call -> {"new", "open", "over"}]
    BY <1>9 DEF CommitSettle
  <2> QED BY <1>9, <2>1, <2>2, <2>3, <2>4, <2>5 DEF CommitSettle
<1>10. ASSUME NEW a \in Agent, Rollback(a), UNCHANGED faults \/ faults' = faults + 1
       PROVE  TypeOK'
  <2>1. tx' \in [Agent -> Transaction]
    BY <1>10, <1>a DEF Rollback
  <2> QED BY <1>10, <2>1 DEF Rollback
<1>11. CASE UNCHANGED vars
  BY <1>11 DEF vars
<1> QED BY <1>1, <1>2, <1>3, <1>4, <1>5, <1>6, <1>7, <1>8, <1>9, <1>10, <1>11
      DEF Next, DeadlockVictim, TxFails

-----------------------------------------------------------------------------
\* Every step keeps the discipline of the transactions.  Only the owner of a
\* lock changes its row, so the others' checks and reservations stay as they
\* are.
OwnTxUnchanged(b) ==
  /\ tx'[b] = tx[b]
  /\ b \in Call => call'[b] = call[b]
  /\ \A r \in tx[b].held :
       /\ r \in Call => reservation'[r] = reservation[r]
       /\ r \in BudgetRow => budget'[r] = budget[r]

\* A transaction nobody touches stays sound.
LEMMA OwnTxStays ==
  ASSUME TypeOK, NEW b \in Agent, OwnTx(b), OwnTxUnchanged(b)
  PROVE  OwnTx(b)'
<1>1. tx[b] \in Transaction
  BY DEF TypeOK
<1>2. ASSUME tx[b].op = "reserve"
      PROVE  /\ call'[b] = call[b]
             /\ \A r \in tx[b].held : budget'[r] = budget[r] /\ Fits(b, r)'
  <2>1. b \in Call
    BY <1>2 DEF OwnTx, Agent
  <2>2. tx[b].held \subseteq BudgetRow
    BY <1>1, <1>2, RowsOfTime DEF OwnTx, Transaction
  <2>3. \A r \in tx[b].held : budget'[r] = budget[r] /\ Fits(b, r)
    BY <1>2, <2>2 DEF OwnTx, OwnTxUnchanged
  <2> QED BY <2>1, <2>3 DEF OwnTxUnchanged, Fits
<1>3. tx[b].op = "settle" => call'[b] = call[b]
  BY DEF OwnTx, OwnTxUnchanged, Agent
<1>4. \A c \in tx[b].held \intersect Call : reservation'[c] = reservation[c]
  BY DEF OwnTxUnchanged
<1> QED BY <1>2, <1>3, <1>4 DEF OwnTx, OwnTxUnchanged

\* Every step keeps the transactions sound.
LEMMA TxStep == TypeOK /\ Transactions /\ [Next]_vars => Transactions'
<1> SUFFICES ASSUME TypeOK, Transactions, [Next]_vars PROVE Transactions'
  OBVIOUS
<1>0. \A b \in Agent : tx[b] \in Transaction /\ OwnTx(b)
  BY DEF TypeOK, Transactions
<1>a. \A b \in Agent : OwnTxUnchanged(b) => OwnTx(b)'
  BY <1>0, OwnTxStays
<1>b. /\ \A b, d \in Agent : b # d => tx[b].held \intersect tx[d].held = {}
      /\ \A c \in Call : /\ reservation[c] # Null => bill[c] = Null
                         /\ call[c] = "new" => reservation[c] = Null /\ bill[c] = Null
  BY DEF Transactions
<1>c. /\ NoTx.op = "none" /\ NoTx.need = {} /\ NoTx.held = {}
  BY DEF NoTx
<1>d. ASSUME NEW a \in Agent, End(a)
      PROVE  OwnTx(a)' /\ tx'[a] = NoTx /\ \A b \in Agent \ {a} : tx'[b] = tx[b]
  <2>1. tx'[a] = NoTx /\ \A b \in Agent \ {a} : tx'[b] = tx[b]
    BY <1>d DEF End, TypeOK
  <2> QED BY <1>c, <2>1 DEF OwnTx
<1>e. ASSUME NEW a \in Agent, NEW op, NEW caps, NEW usd, NEW need,
             Run(a, op, time, caps, usd, need)
      PROVE  /\ tx'[a] = [op |-> op, at |-> time, caps |-> caps, usd |-> usd,
                          need |-> need, held |-> {}]
             /\ \A b \in Agent \ {a} : tx'[b] = tx[b]
  BY <1>e DEF Run, TypeOK
<1>1. CASE Tick
  BY <1>1, <1>a, <1>b DEF Tick, Transactions, OwnTxUnchanged
<1>2. ASSUME NEW c \in Call, BeginReserve(c) PROVE Transactions'
  <2>1. PICK caps \in Caps : Run(c, "reserve", time, caps, Null, RowsAt(time))
    BY <1>2 DEF BeginReserve
  <2>2. c \in Agent /\ c \notin Sweeper
    BY SpendAssumption DEF Agent
  <2>3. /\ tx'[c] = [op |-> "reserve", at |-> time, caps |-> caps, usd |-> Null,
                     need |-> RowsAt(time), held |-> {}]
        /\ \A b \in Agent \ {c} : tx'[b] = tx[b]
    BY <1>e, <2>1, <2>2
  <2>4. OwnTx(c)'
    BY <1>2, <2>2, <2>3 DEF BeginReserve, OwnTx
  <2>5. \A b \in Agent \ {c} : OwnTxUnchanged(b)
    BY <1>2, <2>3 DEF BeginReserve, OwnTxUnchanged
  <2> QED BY <1>2, <1>a, <1>b, <2>3, <2>4, <2>5 DEF BeginReserve, Transactions
<1>3. ASSUME NEW c \in Call, BeginSettle(c) PROVE Transactions'
  <2>1. PICK usd \in Actual[c] \union {Worst[c]} : Run(c, "settle", time, Null, usd, {c})
    BY <1>3 DEF BeginSettle
  <2>2. c \in Agent /\ c \notin Sweeper
    BY SpendAssumption DEF Agent
  <2>3. /\ tx'[c] = [op |-> "settle", at |-> time, caps |-> Null, usd |-> usd,
                     need |-> {c}, held |-> {}]
        /\ \A b \in Agent \ {c} : tx'[b] = tx[b]
    BY <1>e, <2>1, <2>2
  <2>4. OwnTx(c)'
    BY <1>3, <2>2, <2>3 DEF BeginSettle, OwnTx
  <2>5. \A b \in Agent \ {c} : OwnTxUnchanged(b)
    BY <1>3, <2>3 DEF BeginSettle, OwnTxUnchanged
  <2> QED BY <1>3, <1>a, <1>b, <2>3, <2>4, <2>5 DEF BeginSettle, Transactions
<1>4. ASSUME NEW c \in Call, Deny(c) PROVE Transactions'
  <2>1. c \in Agent /\ End(c)
    BY <1>4 DEF Deny, Agent
  <2>2. OwnTx(c)' /\ tx'[c] = NoTx /\ \A b \in Agent \ {c} : tx'[b] = tx[b]
    BY <1>d, <2>1
  <2>3. \A b \in Agent \ {c} : OwnTxUnchanged(b)
    BY <1>4, <2>2 DEF Deny, OwnTxUnchanged, TypeOK
  <2>4. \A d \in Call : call'[d] = "new" => call[d] = "new"
    BY <1>4 DEF Deny, TypeOK
  <2> QED BY <1>4, <1>a, <1>b, <1>c, <2>2, <2>3, <2>4 DEF Deny, Transactions
<1>5. ASSUME NEW c \in Call, CommitReserve(c) PROVE Transactions'
  <2>1. c \in Agent /\ End(c)
    BY <1>5 DEF CommitReserve, Agent
  <2>2. OwnTx(c)' /\ tx'[c] = NoTx /\ \A b \in Agent \ {c} : tx'[b] = tx[b]
    BY <1>d, <2>1
  <2>3. call[c] = "new" /\ reservation[c] = Null /\ bill[c] = Null
    BY <1>0, <1>5, <1>b, <2>1 DEF OwnTx, CommitReserve
  <2>4. ASSUME NEW b \in Agent \ {c} PROVE OwnTxUnchanged(b)
    <3>1. c \notin tx[b].held
      <4>1. OwnTx(b) /\ tx[b].at \in Time /\ tx[b].op \in {"none", "reserve", "settle", "sweep"}
        BY <1>0 DEF Transaction
      <4>2. CASE tx[b].op \in {"none", "reserve"}
        BY <4>1, <4>2, RowsOfTime DEF OwnTx
      <4>3. CASE tx[b].op \in {"settle", "sweep"}
        BY <2>3, <4>1, <4>3 DEF OwnTx
      <4> QED BY <4>1, <4>2, <4>3
    <3>2. \A r \in tx[b].held : r \notin tx[c].held
      BY <1>b, <2>1
    <3> QED BY <1>5, <2>2, <3>1, <3>2 DEF CommitReserve, OwnTxUnchanged, TypeOK
  <2>5. \A d \in Call : d # c => reservation'[d] = reservation[d] /\ call'[d] = call[d]
    BY <1>5 DEF CommitReserve, TypeOK
  <2>6. call'[c] = "open" /\ bill' = bill
    BY <1>5 DEF CommitReserve, TypeOK
  <2> QED BY <1>a, <1>b, <1>c, <2>2, <2>3, <2>4, <2>5, <2>6 DEF Transactions
<1>6. ASSUME NEW c \in Call, CallerDies(c) PROVE Transactions'
  <2>1. ASSUME NEW b \in Agent PROVE OwnTxUnchanged(b) \/ b = c
    BY <1>6 DEF CallerDies, OwnTxUnchanged, TypeOK
  <2>2. OwnTx(c)'
    BY <1>6, <1>c DEF CallerDies, OwnTx
  <2>3. \A d \in Call : call'[d] = "new" => call[d] = "new"
    BY <1>6 DEF CallerDies, TypeOK
  <2> QED BY <1>6, <1>a, <1>b, <2>1, <2>2, <2>3 DEF CallerDies, Transactions
<1>7. ASSUME NEW s \in Sweeper, BeginSweep(s) PROVE Transactions'
  <2>1. s \in Agent /\ s \notin Call
    BY SpendAssumption DEF Agent
  <2>2. PICK need : Run(s, "sweep", time, Null, Null, need)
    BY <1>7 DEF BeginSweep
  <2>3. /\ tx'[s] = [op |-> "sweep", at |-> time, caps |-> Null, usd |-> Null,
                     need |-> need, held |-> {}]
        /\ \A b \in Agent \ {s} : tx'[b] = tx[b]
    BY <1>e, <2>1, <2>2
  <2>4. OwnTx(s)'
    BY <2>1, <2>3 DEF OwnTx
  <2>5. \A b \in Agent \ {s} : OwnTxUnchanged(b)
    BY <1>7, <2>3 DEF BeginSweep, OwnTxUnchanged
  <2> QED BY <1>7, <1>a, <1>b, <2>3, <2>4, <2>5 DEF BeginSweep, Transactions
<1>8. ASSUME NEW a \in Agent, Lock(a) PROVE Transactions'
  <2>a. PICK r \in tx[a].need :
        LET gone == r \in Call /\ reservation[r] = Null
            windows == IF r \in Call /\ ~gone
                       THEN RowsAt(reservation[r]) \ tx[a].held ELSE {}
        IN /\ NextRow(a, r)
           /\ tx[a].op = "reserve" => Fits(a, r)
           /\ tx' = [tx EXCEPT ![a].need = (@ \ {r}) \union windows,
                               ![a].held = IF gone THEN @ ELSE @ \union {r}]
    BY <1>8 DEF Lock
  <2>b. PICK W : W = IF r \in Call /\ ~(r \in Call /\ reservation[r] = Null)
                   THEN RowsAt(reservation[r]) \ tx[a].held ELSE {}
    OBVIOUS
  <2>c. PICK N : N = (tx[a].need \ {r}) \union W
    OBVIOUS
  <2>d. PICK H : H = IF r \in Call /\ reservation[r] = Null THEN tx[a].held
                   ELSE tx[a].held \union {r}
    OBVIOUS
  <2>1. tx' = [tx EXCEPT ![a].need = N, ![a].held = H]
    BY <2>a, <2>b, <2>c, <2>d
  <2>2. W \subseteq BudgetRow /\ W \subseteq Rows
    BY <2>b, RowsOfTime DEF TypeOK, Rows
  <2>3. tx[a].need \subseteq Rows /\ tx[a].held \subseteq Rows /\ tx[a].at \in Time
    BY <1>0 DEF Transaction
  <2>4. N \in SUBSET Rows /\ H \in SUBSET Rows
    BY <2>2, <2>3, <2>c, <2>d
  <2>5. /\ tx'[a] = [op |-> tx[a].op, at |-> tx[a].at, caps |-> tx[a].caps,
                     usd |-> tx[a].usd, need |-> N, held |-> H]
        /\ \A b \in Agent \ {a} : tx'[b] = tx[b]
    <3>1. tx \in [Agent -> Transaction]
      BY DEF TypeOK
    <3> QED BY <2>1, <2>4, <3>1, TxUpdate
  <2>6. UNCHANGED <<time, budget, reservation, call, bill, faults>>
    BY <1>8 DEF Lock
  <2>7. \A b \in Agent \ {a} : r \notin tx[b].held
    BY <1>8, <2>a DEF Lock, Blocked, Waits
  <2>8. OwnTx(a)'
    <3>1. tx[a].op # "none"
      BY <1>0 DEF OwnTx
    <3>2. ASSUME tx[a].op = "reserve"
          PROVE  N \union H = RowsAt(tx[a].at) /\ \A q \in H : Fits(a, q)'
      <4>1. r \notin Call
        BY <1>0, <2>3, <3>2, RowsOfTime DEF OwnTx
      <4>2. N = tx[a].need \ {r} /\ H = tx[a].held \union {r}
        BY <4>1, <2>b, <2>c, <2>d
      <4>3. \A q \in H : Fits(a, q)
        BY <1>0, <2>a, <3>2, <4>2 DEF OwnTx
      <4>4. \A q \in H : Fits(a, q)'
        BY <2>5, <2>6, <4>3 DEF Fits
      <4> QED BY <1>0, <3>2, <4>2, <4>4 DEF OwnTx
    <3>3. ASSUME tx[a].op = "settle" PROVE (N \union H) \intersect Call \subseteq {a}
      BY <1>0, <2>2, <2>c, <2>d, <3>3, RowsOfTime DEF OwnTx
    <3>4. ASSUME tx[a].op \in {"settle", "sweep"}, NEW c \in H \intersect Call
          PROVE  reservation[c] # Null /\ RowsAt(reservation[c]) \subseteq H \union N
      <4>1. CASE c \in tx[a].held
        <5>1. reservation[c] # Null /\ RowsAt(reservation[c]) \subseteq tx[a].held \union tx[a].need
          BY <1>0, <3>4, <4>1 DEF OwnTx
        <5>2. reservation[c] \in Time
          BY <5>1 DEF TypeOK
        <5>3. r \in Call => r \notin RowsAt(reservation[c])
          BY <5>2, RowsOfTime
        <5> QED BY <2>c, <2>d, <5>1, <5>3
      <4>2. CASE c \notin tx[a].held
        BY <2>b, <2>c, <2>d, <3>4, <4>2
      <4> QED BY <4>1, <4>2
    <3>5. /\ tx'[a].op = tx[a].op /\ tx'[a].at = tx[a].at /\ tx'[a].caps = tx[a].caps
          /\ tx'[a].usd = tx[a].usd /\ tx'[a].need = N /\ tx'[a].held = H
      BY <2>5
    <3>6. /\ a \in Sweeper => tx[a].op \in {"none", "sweep"}
          /\ a \in Call => tx[a].op \in {"none", "reserve", "settle"}
          /\ tx[a].op = "reserve" => call[a] = "new" /\ tx[a].caps \in Caps
          /\ tx[a].op = "settle" =>
               call[a] = "open" /\ tx[a].usd \in Actual[a] \union {Worst[a]}
      BY <1>0 DEF OwnTx
    <3> QED BY <2>6, <3>1, <3>2, <3>3, <3>4, <3>5, <3>6 DEF OwnTx
  <2>9. \A b \in Agent \ {a} : OwnTxUnchanged(b)
    BY <2>5, <2>6 DEF OwnTxUnchanged
  <2>10. \A b, d \in Agent : b # d => tx'[b].held \intersect tx'[d].held = {}
    <3>1. tx'[a].held \subseteq tx[a].held \union {r}
      BY <2>5, <2>d
    <3>2. \A b \in Agent \ {a} : tx'[b].held = tx[b].held
      BY <2>5
    <3> QED BY <1>b, <2>7, <3>1, <3>2
  <2> QED BY <1>a, <1>b, <2>6, <2>8, <2>9, <2>10 DEF Transactions
<1>9. ASSUME NEW a \in Agent, CommitSettle(a) PROVE Transactions'
  <2>1. OwnTx(a)' /\ tx'[a] = NoTx /\ \A b \in Agent \ {a} : tx'[b] = tx[b]
    BY <1>9, <1>d DEF CommitSettle
  <2>2. ASSUME NEW b \in Agent \ {a} PROVE OwnTxUnchanged(b)
    <3>1. \A r \in tx[b].held : r \notin tx[a].held
      BY <1>b
    <3> QED BY <1>9, <2>1, <3>1 DEF CommitSettle, OwnTxUnchanged
  <2>3. \A c \in tx[a].held \intersect Call : reservation[c] # Null /\ call[c] # "new"
    BY <1>0, <1>9, <1>b DEF OwnTx, CommitSettle
  <2>4. \A c \in Call : /\ reservation'[c] # Null => bill'[c] = Null
                        /\ call'[c] = "new" => reservation'[c] = Null /\ bill'[c] = Null
    BY <1>9, <1>b, <2>3 DEF CommitSettle
  <2>5. \A b, d \in Agent : b # d => tx'[b].held \intersect tx'[d].held = {}
    BY <1>b, <1>c, <2>1
  <2>6. \A b \in Agent : OwnTx(b)'
    BY <1>a, <2>1, <2>2
  <2> QED BY <2>4, <2>5, <2>6 DEF Transactions
<1>10. ASSUME NEW a \in Agent, Rollback(a) PROVE Transactions'
  <2>1. OwnTx(a)' /\ tx'[a] = NoTx /\ \A b \in Agent \ {a} : tx'[b] = tx[b]
    BY <1>10, <1>d DEF Rollback
  <2>2. \A b \in Agent \ {a} : OwnTxUnchanged(b)
    BY <1>10, <2>1 DEF Rollback, OwnTxUnchanged
  <2>3. \A d \in Call : call'[d] = "new" => call[d] = "new"
    BY <1>10 DEF Rollback
  <2> QED BY <1>10, <1>a, <1>b, <1>c, <2>1, <2>2, <2>3 DEF Rollback, Transactions
<1>11. CASE UNCHANGED vars
  BY <1>11, <1>a, <1>b DEF vars, Transactions, OwnTxUnchanged
<1> QED BY <1>1, <1>2, <1>3, <1>4, <1>5, <1>6, <1>7, <1>8, <1>9, <1>10, <1>11
      DEF Next, DeadlockVictim, TxFails

-----------------------------------------------------------------------------
\* The three accounting invariants, for one row.
Account(r) ==
  /\ budget[r].reserved = Sum(Worst, OpenIn(r))
  /\ budget[r].spent = Sum(BilledUsd, BilledIn(r))
  /\ budget[r].spent + budget[r].reserved <= budget[r].cap + Sum(Excess, BilledIn(r))

Accounts == \A r \in BudgetRow : Account(r)

\* The invariant split in types, transactions and accounts.
LEMMA IInvParts == IInv <=> TypeOK /\ Transactions /\ Accounts
BY DEF IInv, Accounts, Account, ReservedIsOpen, SpentIsBilled, WithinCap

\* What was charged, and what was charged beyond the worst case.
LEMMA BilledIsNat ==
  ASSUME TypeOK
  PROVE  /\ \A c \in Call : /\ Worst[c] \in Nat /\ BilledUsd[c] \in Nat
                          /\ Excess[c] \in Nat /\ BilledUsd[c] <= Worst[c] + Excess[c]
         /\ \A c \in Call : bill[c] # Null =>
               /\ bill[c] \in [at : Time, usd : Nat] /\ BilledUsd[c] = bill[c].usd
<1>1. \A c \in Call : bill[c] # Null =>
        bill[c] \in [at : Time, usd : Nat] /\ BilledUsd[c] = bill[c].usd
  BY DEF TypeOK, BilledUsd
<1>2. \A c \in Call : BilledUsd[c] \in Nat /\ Worst[c] \in Nat
  BY <1>1, SpendAssumption DEF BilledUsd
<1>3. \A c \in Call : Excess[c] = IF BilledUsd[c] > Worst[c]
                                THEN BilledUsd[c] - Worst[c] ELSE 0
  BY DEF Excess
<1> QED BY <1>1, <1>2, <1>3

\* An account does not change while its row, the open calls and the bills of
\* its window stay as they are.
LEMMA AccountStays ==
  ASSUME NEW r \in BudgetRow, Account(r), budget'[r] = budget[r],
         OpenIn(r)' = OpenIn(r), BilledIn(r)' = BilledIn(r),
         \A c \in BilledIn(r) : BilledUsd'[c] = BilledUsd[c] /\ Excess'[c] = Excess[c]
  PROVE  Account(r)'
<1>1. Sum(BilledUsd', BilledIn(r)) = Sum(BilledUsd, BilledIn(r))
  BY SumEqual
<1>2. Sum(Excess', BilledIn(r)) = Sum(Excess, BilledIn(r))
  BY SumEqual
<1> QED BY <1>1, <1>2 DEF Account

\* A reserve adds its worst case to the rows it locked, and it had room there.
LEMMA ReserveAccount ==
  ASSUME TypeOK, Transactions, NEW c \in Call, CommitReserve(c),
         NEW r \in BudgetRow, Account(r)
  PROVE  Account(r)'
<1>1. c \in Agent /\ OwnTx(c) /\ tx[c] \in Transaction
  BY DEF Agent, Transactions, TypeOK
<1>2. /\ tx[c].at \in Time /\ tx[c].held = RowsAt(tx[c].at) /\ tx[c].caps \in Caps
      /\ \A q \in tx[c].held : Fits(c, q)
      /\ reservation[c] = Null /\ bill[c] = Null
  BY <1>1 DEF CommitReserve, OwnTx, Transaction, Transactions
<1>3. /\ BilledIn(r)' = BilledIn(r) /\ BilledUsd' = BilledUsd /\ Excess' = Excess
  BY DEF CommitReserve, BilledIn, BilledUsd, Excess
<1>4. reservation' = [reservation EXCEPT ![c] = tx[c].at]
  BY DEF CommitReserve
<1>5. CASE r \in tx[c].held
  <2>1. OpenIn(r)' = OpenIn(r) \union {c} /\ c \notin OpenIn(r)
    BY <1>2, <1>4, <1>5, SpendAssumption DEF OpenIn, TypeOK, Time
  <2>2. IsFiniteSet(OpenIn(r)) /\ IsFiniteSet({c})
    BY CallSums, FS_Singleton, SpendAssumption, FS_Subset DEF OpenIn
  <2>3. Sum(Worst, {c}) = Worst[c]
    BY SumOfOne, SpendAssumption
  <2>4. Sum(Worst, OpenIn(r)') = Sum(Worst, OpenIn(r)) + Worst[c]
    <3>1. \A d \in OpenIn(r) \union {c} : Worst[d] \in Nat
      BY SpendAssumption DEF OpenIn
    <3> QED BY <2>1, <2>2, <2>3, <3>1, SumOfUnion
  <2>5. /\ budget'[r].spent = budget[r].spent
        /\ budget'[r].reserved = budget[r].reserved + Worst[c]
        /\ budget'[r].cap = tx[c].caps[r[1]]
    BY <1>5 DEF CommitReserve
  <2>6. budget[r].spent + budget[r].reserved + Worst[c] <= tx[c].caps[r[1]]
    BY <1>2, <1>5 DEF Fits
  <2>7. Sum(Excess, BilledIn(r)) \in Nat
    BY BilledIsNat, CallSums DEF BilledIn
  <2>8. /\ budget[r].spent \in Nat /\ budget[r].reserved \in Nat
        /\ Worst[c] \in Nat /\ tx[c].caps[r[1]] \in Nat
    BY <1>2, RowsOfTime, SpendAssumption DEF TypeOK, Money
  <2>9. budget'[r].spent + budget'[r].reserved <= budget'[r].cap + Sum(Excess, BilledIn(r))
    BY <2>5, <2>6, <2>7, <2>8
  <2> QED BY <1>3, <2>4, <2>5, <2>9 DEF Account
<1>6. CASE r \notin tx[c].held
  <2>1. OpenIn(r)' = OpenIn(r)
    BY <1>2, <1>4, <1>6 DEF OpenIn, TypeOK
  <2>2. budget'[r] = budget[r]
    BY <1>6 DEF CommitReserve
  <2> QED BY <1>3, <2>1, <2>2, AccountStays
<1> QED BY <1>5, <1>6

\* What a settle or a sweep does to the calls of a window.
LEMMA SettleSets ==
  ASSUME TypeOK, Transactions, NEW a \in Agent, CommitSettle(a), NEW r \in BudgetRow
  PROVE  /\ SettledIn(a, r) \subseteq OpenIn(r)
         /\ OpenIn(r)' = OpenIn(r) \ SettledIn(a, r)
         /\ BilledIn(r)' = BilledIn(r) \union SettledIn(a, r)
         /\ BilledIn(r) \intersect SettledIn(a, r) = {}
         /\ r \notin tx[a].held => SettledIn(a, r) = {}
         /\ \A c \in BilledIn(r) : bill'[c] = bill[c]
         /\ \A c \in SettledIn(a, r) :
              bill'[c] = [at |-> reservation[c], usd |-> Charge(a, c)]
<1>1. /\ \A c \in tx[a].held \intersect Call :
           reservation[c] # Null /\ bill[c] = Null /\ RowsAt(reservation[c]) \subseteq tx[a].held
      /\ \A c \in tx[a].held \intersect Call : reservation[c] \in Time /\ Charge(a, c) \in Nat
  <2>1. OwnTx(a)
    BY DEF Transactions
  <2> QED BY <2>1, ChargeIsNat DEF OwnTx, CommitSettle, Transactions, TypeOK
<1>2. /\ \A c \in Call : reservation'[c] = IF c \in tx[a].held THEN Null ELSE reservation[c]
      /\ \A c \in Call : bill'[c] = IF c \in tx[a].held
           THEN [at |-> reservation[c], usd |-> Charge(a, c)] ELSE bill[c]
  BY DEF CommitSettle
<1>3. \A c \in tx[a].held \intersect Call :
        [at |-> reservation[c], usd |-> Charge(a, c)] # Null
  BY <1>1, SpendAssumption DEF Time, Horizon
<1>4. SettledIn(a, r) \subseteq OpenIn(r) /\ BilledIn(r) \intersect SettledIn(a, r) = {}
  BY <1>1 DEF SettledIn, OpenIn, BilledIn
<1>5. OpenIn(r)' = OpenIn(r) \ SettledIn(a, r)
  BY <1>2 DEF SettledIn, OpenIn
<1>6. \A c \in SettledIn(a, r) : bill'[c] = [at |-> reservation[c], usd |-> Charge(a, c)]
  BY <1>2 DEF SettledIn
<1>7. \A c \in BilledIn(r) : c \in Call /\ c \notin tx[a].held /\ bill'[c] = bill[c]
  BY <1>1, <1>2 DEF BilledIn
<1>8. BilledIn(r)' = BilledIn(r) \union SettledIn(a, r)
  <2>1. ASSUME NEW c \in Call
        PROVE  c \in BilledIn(r)' <=> c \in BilledIn(r) \/ c \in SettledIn(a, r)
    <3>1. CASE c \in tx[a].held
      <4>1. bill'[c] = [at |-> reservation[c], usd |-> Charge(a, c)]
        BY <1>2, <3>1
      <4>2. bill'[c] # Null /\ bill'[c].at = reservation[c]
        BY <1>3, <3>1, <4>1
      <4> QED BY <1>7, <3>1, <4>2 DEF BilledIn, SettledIn
    <3>2. CASE c \notin tx[a].held
      BY <1>2, <3>2 DEF BilledIn, SettledIn
    <3> QED BY <3>1, <3>2
  <2>2. BilledIn(r)' \subseteq Call /\ BilledIn(r) \subseteq Call /\ SettledIn(a, r) \subseteq Call
    BY DEF BilledIn, SettledIn
  <2> QED BY <2>1, <2>2
<1>9. r \notin tx[a].held => SettledIn(a, r) = {}
  BY <1>1 DEF SettledIn
<1> QED BY <1>4, <1>5, <1>6, <1>7, <1>8, <1>9

\* A settle or a sweep moves the worst case of each reservation it deletes out
\* of reserved_usd and its charge into spent_usd.
LEMMA SettleAccount ==
  ASSUME TypeOK, Transactions, NEW a \in Agent, CommitSettle(a),
         NEW r \in BudgetRow, Account(r), TypeOK'
  PROVE  Account(r)'
<1>a. PICK S : S = SettledIn(a, r)
  OBVIOUS
<1>b. PICK f : f = [c \in S |-> Charge(a, c)]
  OBVIOUS
<1>c. PICK B : B = BilledIn(r)
  OBVIOUS
<1>d. PICK Q : Q = OpenIn(r)
  OBVIOUS
<1>e. PICK u : u = BilledUsd'
  OBVIOUS
<1>x. PICK e : e = Excess'
  OBVIOUS
<1>1. /\ S \subseteq Q /\ OpenIn(r)' = Q \ S /\ BilledIn(r)' = B \union S
      /\ B \intersect S = {}
      /\ r \notin tx[a].held => S = {}
      /\ S \in SUBSET Call /\ B \in SUBSET Call /\ Q \in SUBSET Call
  BY <1>a, <1>c, <1>d, SettleSets DEF OpenIn, BilledIn
<1>2. /\ \A c \in Call : bill'[c] = bill[c] => BilledUsd'[c] = BilledUsd[c] /\ Excess'[c] = Excess[c]
      /\ \A c \in B : bill'[c] = bill[c]
      /\ \A c \in S : bill'[c] # Null /\ bill'[c].usd = f[c]
  <2>1. \A c \in Call : bill'[c] = bill[c] => BilledUsd'[c] = BilledUsd[c]
    BY DEF BilledUsd
  <2>2. \A c \in Call : bill'[c] = bill[c] => Excess'[c] = Excess[c]
    BY <2>1 DEF Excess
  <2>3. \A c \in S : bill'[c] # Null
    BY <1>1 DEF BilledIn
  <2>4. \A c \in B : bill'[c] = bill[c]
    BY <1>c, SettleSets
  <2>5. \A c \in S : bill'[c] = [at |-> reservation[c], usd |-> Charge(a, c)]
    BY <1>a, SettleSets
  <2>6. ASSUME NEW c \in S PROVE bill'[c].usd = f[c]
    <3>1. f[c] = Charge(a, c)
      BY <1>b
    <3>2. bill'[c] = [at |-> reservation[c], usd |-> Charge(a, c)]
      BY <2>5
    <3> QED BY <3>1, <3>2
  <2> QED BY <2>1, <2>2, <2>3, <2>4, <2>6
<1>3. \A c \in B : u[c] = BilledUsd[c] /\ e[c] = Excess[c]
  BY <1>1, <1>2, <1>e, <1>x
<1>n. \A c \in Call : /\ Worst[c] \in Nat /\ u[c] \in Nat /\ e[c] \in Nat
                     /\ u[c] <= Worst[c] + e[c]
  <2>1. (\A c \in Call : /\ Worst[c] \in Nat /\ BilledUsd[c] \in Nat
                        /\ Excess[c] \in Nat /\ BilledUsd[c] <= Worst[c] + Excess[c])'
    BY BilledIsNat, PTL
  <2> QED BY <1>e, <1>x, <2>1
<1>4. \A c \in S : u[c] = f[c]
  BY <1>1, <1>2, <1>e DEF BilledUsd
<1>5. /\ Sum(BilledUsd, B) \in Nat /\ Sum(Excess, B) \in Nat
      /\ Sum(f, S) \in Nat /\ Sum(e, S) \in Nat
      /\ IsFiniteSet(S) /\ IsFiniteSet(B) /\ IsFiniteSet(Q)
  BY <1>1, <1>4, <1>n, BilledIsNat, CallSums, SpendAssumption, FS_Subset
<1>6. Sum(u, B \union S) = Sum(BilledUsd, B) + Sum(f, S)
  <2>1. Sum(u, B) = Sum(BilledUsd, B)
    BY <1>3, SumEqual
  <2>2. Sum(u, S) = Sum(f, S)
    BY <1>4, SumEqual
  <2>3. \A c \in B \union S : u[c] \in Nat
    BY <1>1, <1>n
  <2> QED BY <1>1, <1>5, <2>1, <2>2, <2>3, SumOfUnion
<1>7. Sum(e, B \union S) = Sum(Excess, B) + Sum(e, S)
  <2>1. Sum(e, B) = Sum(Excess, B)
    BY <1>3, SumEqual
  <2>2. \A c \in B \union S : e[c] \in Nat
    BY <1>1, <1>n
  <2> QED BY <1>1, <1>5, <2>1, <2>2, SumOfUnion
<1>8. /\ Sum(Worst, S) \in Nat /\ Sum(Worst, Q \ S) \in Nat
      /\ Sum(Worst, Q) = Sum(Worst, S) + Sum(Worst, Q \ S)
  BY <1>1, <1>5, SumOfPart, SpendAssumption
<1>9. Sum(f, S) <= Sum(Worst, S) + Sum(e, S)
  <2>1. \A c \in S : /\ f[c] \in Nat /\ Worst[c] \in Nat /\ e[c] \in Nat
                     /\ f[c] <= Worst[c] + e[c]
    BY <1>1, <1>4, <1>n
  <2> QED BY <1>5, <2>1, SumBounded
<1>10. CASE r \in tx[a].held
  <2>1. budget'[r] = Settled(a, r)
    BY <1>10 DEF CommitSettle
  <2>2. /\ budget'[r].spent = budget[r].spent + Sum(f, S)
        /\ budget'[r].reserved = IF budget[r].reserved > Sum(Worst, S)
                                 THEN budget[r].reserved - Sum(Worst, S) ELSE 0
        /\ budget'[r].cap = budget[r].cap
    BY <1>a, <1>b, <2>1 DEF Settled
  <2>3. /\ budget[r].reserved = Sum(Worst, Q)
        /\ budget[r].spent = Sum(BilledUsd, B)
        /\ budget[r].spent + budget[r].reserved <= budget[r].cap + Sum(Excess, B)
    BY <1>c, <1>d DEF Account
  <2>4. budget[r].cap \in Nat
    BY DEF TypeOK, Money
  <2>5. budget'[r].reserved = Sum(Worst, Q \ S)
    BY <1>8, <2>2, <2>3
  <2>6. budget'[r].spent = Sum(u, B \union S)
    BY <1>6, <2>2, <2>3
  <2>7. budget'[r].spent + budget'[r].reserved <= budget'[r].cap + Sum(e, B \union S)
    BY <1>5, <1>7, <1>8, <1>9, <2>2, <2>3, <2>4, <2>5
  <2> QED BY <1>1, <1>e, <1>x, <2>5, <2>6, <2>7 DEF Account
<1>11. CASE r \notin tx[a].held
  <2>1. S = {} /\ budget'[r] = budget[r]
    BY <1>1, <1>11 DEF CommitSettle
  <2>2. OpenIn(r)' = OpenIn(r) /\ BilledIn(r)' = BilledIn(r)
    BY <1>1, <1>c, <1>d, <2>1
  <2> QED BY <1>3, <1>c, <1>e, <1>x, <2>1, <2>2, AccountStays
<1> QED BY <1>10, <1>11

-----------------------------------------------------------------------------
\* Every step keeps the accounts.
LEMMA AccountsStep == TypeOK /\ Transactions /\ Accounts /\ [Next]_vars => Accounts'
<1> SUFFICES ASSUME TypeOK, Transactions, Accounts, [Next]_vars, NEW r \in BudgetRow
             PROVE  Account(r)'
  BY DEF Accounts
<1>1. Account(r) /\ TypeOK'
  BY TypeStep DEF Accounts
<1>2. ASSUME UNCHANGED <<budget, reservation, bill>> PROVE Account(r)'
  BY <1>1, <1>2 DEF Account, OpenIn, BilledIn, BilledUsd, Excess
<1>3. ASSUME NEW c \in Call, CommitReserve(c) PROVE Account(r)'
  BY <1>1, <1>3, ReserveAccount
<1>4. ASSUME NEW a \in Agent, CommitSettle(a) PROVE Account(r)'
  BY <1>1, <1>4, SettleAccount
<1>5. \/ UNCHANGED <<budget, reservation, bill>>
      \/ \E c \in Call : CommitReserve(c)
      \/ \E a \in Agent : CommitSettle(a)
  BY DEF Next, vars, Tick, BeginReserve, BeginSettle, Deny, CallerDies, BeginSweep, Lock,
         DeadlockVictim, TxFails, Rollback
<1> QED BY <1>2, <1>3, <1>4, <1>5

\* Every step keeps the invariant.
LEMMA IInvStep == IInv /\ [Next]_vars => IInv'
<1>1. TypeOK /\ Transactions /\ Accounts /\ [Next]_vars
        => TypeOK' /\ Transactions' /\ Accounts'
  BY TypeStep, TxStep, AccountsStep
<1>2. (IInv <=> TypeOK /\ Transactions /\ Accounts)'
  BY IInvParts, PTL
<1> QED BY <1>1, <1>2, IInvParts

\* The inductive invariant of the spend guard.
THEOREM Invariance == SafeSpec => []IInv
<1> QED BY InitIInv, IInvStep, PTL DEF SafeSpec

\* Every reachable state of reserve, settle and sweep is well typed.
THEOREM TypeCorrect == SafeSpec => []TypeOK
<1>1. IInv => TypeOK
  BY DEF IInv
<1> QED BY <1>1, Invariance, PTL

\* reserved_usd is always exactly the worst cases of the open reservations.
THEOREM NothingLeaks == SafeSpec => []ReservedIsOpen
<1>1. IInv => ReservedIsOpen
  BY DEF IInv
<1> QED BY <1>1, Invariance, PTL

\* spent_usd is always exactly the charges, each counted once.
THEOREM NothingTwice == SafeSpec => []SpentIsBilled
<1>1. IInv => SpentIsBilled
  BY DEF IInv
<1> QED BY <1>1, Invariance, PTL

\* No window goes beyond its cap, up to what providers charged beyond the worst
\* cases of their calls.
THEOREM CapKept == SafeSpec => []WithinCap
<1>1. IInv => WithinCap
  BY DEF IInv
<1> QED BY <1>1, Invariance, PTL

\* No reservation disappears without a charge, and only the caller itself may
\* charge less than the worst case.
THEOREM CrashIsCharged == SafeSpec => NeverFree
<1> DEFINE Step == \A c \in Call : reservation[c] # Null /\ reservation'[c] = Null =>
                    /\ bill'[c] # Null
                    /\ c \in tx[c].held \/ bill'[c].usd = Worst[c]
<1>1. ASSUME IInv, [Next]_vars PROVE Step
  <2> SUFFICES ASSUME NEW c \in Call, reservation[c] # Null, reservation'[c] = Null
               PROVE  bill'[c] # Null /\ (c \in tx[c].held \/ bill'[c].usd = Worst[c])
    OBVIOUS
  <2>1. TypeOK /\ Transactions
    BY <1>1 DEF IInv
  <2>2. ASSUME NEW d \in Call, CommitReserve(d) PROVE FALSE
    <3>1. tx[d].at \in Time
      BY <2>1 DEF TypeOK, Agent, Transaction
    <3>2. reservation'[c] = IF c = d THEN tx[d].at ELSE reservation[c]
      BY <2>1, <2>2 DEF CommitReserve, TypeOK
    <3> QED BY <3>1, <3>2, SpendAssumption DEF Time
  <2>3. PICK a \in Agent : CommitSettle(a)
    BY <1>1, <2>2 DEF Next, vars, Tick, BeginReserve, BeginSettle, Deny, CallerDies,
                      BeginSweep, Lock, DeadlockVictim, TxFails, Rollback
  <2>4. c \in tx[a].held /\ bill'[c] = [at |-> reservation[c], usd |-> Charge(a, c)]
    BY <2>3 DEF CommitSettle
  <2>5. reservation[c] \in Time
    BY <2>1 DEF TypeOK
  <2>6. /\ Charge(a, c) \in Nat
        /\ tx[a].op = "settle" => c = a
        /\ tx[a].op # "settle" => Charge(a, c) = Worst[c]
    BY <2>1, <2>3, <2>4, ChargeIsNat DEF CommitSettle
  <2>7. bill'[c] # Null
    BY <2>4, <2>5, <2>6, SpendAssumption DEF Time, Horizon
  <2> QED BY <2>4, <2>6, <2>7
<1>2. IInv /\ [Next]_vars => [Step]_vars
  BY <1>1
<1> QED BY <1>2, Invariance, PTL DEF SafeSpec, NeverFree

-----------------------------------------------------------------------------
\* The window TheRow as SpendPromise sees it.
RowBill == [c \in Call |-> IF c \in BilledIn(TheRow) THEN bill[c].usd ELSE Null]

\* What the promise bills is the sum of the bills on its row.
LEMMA RowBilled ==
  ASSUME TypeOK
  PROVE  /\ Promise!Billed = BilledIn(TheRow)
         /\ Sum(RowBill, BilledIn(TheRow)) = Sum(BilledUsd, BilledIn(TheRow))
<1>1. \A c \in Call : c \in BilledIn(TheRow) => bill[c].usd \in Nat /\ BilledUsd[c] = bill[c].usd
  BY BilledIsNat DEF BilledIn
<1>2. Promise!Billed = BilledIn(TheRow)
  BY <1>1, SpendAssumption DEF Promise!Billed, BilledIn
<1>3. \A c \in BilledIn(TheRow) : RowBill[c] = BilledUsd[c]
  BY <1>1 DEF RowBill, BilledIn
<1> QED BY <1>2, <1>3, SumEqual

\* A reserve that counts in the window is an admission.
LEMMA ReserveAdmits ==
  ASSUME TypeOK, Transactions, Accounts, NEW c \in Call, CommitReserve(c)
  PROVE  Promise!Admit(c) \/ UNCHANGED <<OpenIn(TheRow), RowBill>>
<1>1. c \in Agent /\ OwnTx(c) /\ tx[c] \in Transaction
  BY DEF Agent, Transactions, TypeOK
<1>2. /\ tx[c].at \in Time /\ tx[c].held = RowsAt(tx[c].at) /\ tx[c].caps \in Caps
      /\ \A q \in tx[c].held : Fits(c, q)
      /\ reservation[c] = Null /\ bill[c] = Null
  BY <1>1 DEF CommitReserve, OwnTx, Transaction, Transactions
<1>3. RowBill' = RowBill
  BY DEF CommitReserve, RowBill, BilledIn
<1>4. reservation' = [reservation EXCEPT ![c] = tx[c].at]
  BY DEF CommitReserve
<1>5. CASE TheRow \in tx[c].held
  <2>1. OpenIn(TheRow)' = OpenIn(TheRow) \union {c}
    BY <1>2, <1>4, <1>5, SpendAssumption DEF OpenIn, TypeOK, Time
  <2>2. c \notin OpenIn(TheRow) \union Promise!Billed
    BY <1>2, RowBilled DEF OpenIn, BilledIn
  <2>3. Sum(RowBill, Promise!Billed) + Sum(Worst, OpenIn(TheRow)) + Worst[c]
          <= tx[c].caps[TheRow[1]]
    BY <1>2, <1>5, RowBilled, SpendAssumption DEF Fits, Accounts, Account
  <2>4. \E cap \in {caps[TheRow[1]] : caps \in Caps} :
          Sum(RowBill, Promise!Billed) + Sum(Worst, OpenIn(TheRow)) + Worst[c] <= cap
    BY <1>2, <2>3
  <2>a. \A f, S : Promise!Sum(f, S) = Sum(f, S)
    BY DEF Promise!Sum, Promise!Units, Promise!Cardinality, Sum, Units, Cardinality
  <2>5. Promise!Admit(c) <=>
          /\ c \notin OpenIn(TheRow) \union Promise!Billed
          /\ \E cap \in {caps[TheRow[1]] : caps \in Caps} :
               Sum(RowBill, Promise!Billed) + Sum(Worst, OpenIn(TheRow)) + Worst[c] <= cap
          /\ OpenIn(TheRow)' = OpenIn(TheRow) \union {c}
          /\ RowBill' = RowBill
    BY <2>a DEF Promise!Admit, RowBill
  <2> QED BY <1>3, <2>1, <2>2, <2>4, <2>5
<1>6. CASE TheRow \notin tx[c].held
  BY <1>2, <1>3, <1>4, <1>6 DEF OpenIn, TypeOK
<1> QED BY <1>5, <1>6

\* A settle or a sweep bills the calls of the window that it deletes.
LEMMA SettleBills ==
  ASSUME TypeOK, Transactions, NEW a \in Agent, CommitSettle(a), TypeOK'
  PROVE  \/ SettledIn(a, TheRow) # {} /\ Promise!Bill(SettledIn(a, TheRow))
         \/ UNCHANGED <<OpenIn(TheRow), RowBill>>
<1>1. TheRow \in BudgetRow
  BY SpendAssumption
<1>a. PICK S : S = SettledIn(a, TheRow)
  OBVIOUS
<1>2. /\ S \subseteq OpenIn(TheRow) /\ S \subseteq tx[a].held \intersect Call
      /\ OpenIn(TheRow)' = OpenIn(TheRow) \ S
      /\ BilledIn(TheRow)' = BilledIn(TheRow) \union S
      /\ \A c \in BilledIn(TheRow) : bill'[c] = bill[c]
      /\ \A c \in S : bill'[c].usd = Charge(a, c)
  <2>1. S \subseteq tx[a].held \intersect Call
    BY <1>a DEF SettledIn
  <2>2. \A c \in S : bill'[c] = [at |-> reservation[c], usd |-> Charge(a, c)]
    BY <1>1, <1>a, SettleSets
  <2>3. ASSUME NEW c \in S PROVE bill'[c].usd = Charge(a, c)
    <3>1. bill'[c] = [at |-> reservation[c], usd |-> Charge(a, c)]
      BY <2>2
    <3> QED BY <3>1
  <2> QED BY <1>1, <1>a, <2>1, <2>3, SettleSets
<1>3. \A c \in Call \ S : RowBill'[c] = RowBill[c]
  BY <1>2 DEF RowBill
<1>4. \A c \in S : RowBill'[c] = Charge(a, c)
  BY <1>2 DEF RowBill
<1>5. \A c \in S : Charge(a, c) \in Actual[c] \union {Worst[c]}
  BY <1>2, ChargeIsNat DEF CommitSettle
<1>6. CASE S = {}
  BY <1>2, <1>3, <1>6 DEF RowBill
<1>7. CASE S # {}
  <2>1. DOMAIN RowBill' = Call
    BY DEF RowBill
  <2> QED BY <1>a, <1>2, <1>3, <1>4, <1>5, <1>7, <2>1 DEF Promise!Bill, RowBill
<1> QED BY <1>a, <1>6, <1>7

\* Seen from any one window, the guard implements its abstract specification:
\* admission against the bills and the worst cases, one bill for each call.
THEOREM ImplementsPromise == SafeSpec => KeepsPromise
<1>1. Init => Promise!Init
  BY DEF Init, Promise!Init, OpenIn, BilledIn
<1>2. IInv /\ [Next]_vars => [Promise!Next]_<<OpenIn(TheRow), RowBill>>
  <2> SUFFICES ASSUME IInv, [Next]_vars
               PROVE  Promise!Next \/ UNCHANGED <<OpenIn(TheRow), RowBill>>
    OBVIOUS
  <2>1. TypeOK /\ Transactions /\ Accounts /\ TypeOK'
    BY IInvParts, TypeStep
  <2>2. ASSUME UNCHANGED <<budget, reservation, bill>>
        PROVE  UNCHANGED <<OpenIn(TheRow), RowBill>>
    BY <2>2 DEF OpenIn, RowBill, BilledIn
  <2>3. ASSUME NEW c \in Call, CommitReserve(c)
        PROVE  Promise!Next \/ UNCHANGED <<OpenIn(TheRow), RowBill>>
    BY <2>1, <2>3, ReserveAdmits DEF Promise!Next
  <2>4. ASSUME NEW a \in Agent, CommitSettle(a)
        PROVE  Promise!Next \/ UNCHANGED <<OpenIn(TheRow), RowBill>>
    BY <2>1, <2>4, SettleBills DEF Promise!Next, Promise!Bill
  <2>5. \/ UNCHANGED <<budget, reservation, bill>>
        \/ \E c \in Call : CommitReserve(c)
        \/ \E a \in Agent : CommitSettle(a)
    BY DEF Next, vars, Tick, BeginReserve, BeginSettle, Deny, CallerDies, BeginSweep, Lock,
           DeadlockVictim, TxFails, Rollback
  <2> QED BY <2>2, <2>3, <2>4, <2>5
<1> QED BY <1>1, <1>2, Invariance, PTL DEF SafeSpec, KeepsPromise, Promise!Spec, RowBill
=============================================================================
