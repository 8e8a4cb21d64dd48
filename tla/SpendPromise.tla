---------------------------- MODULE SpendPromise ----------------------------
(***************************************************************************)
(* What the spend guard promises for one budget window (an hour, a day or  *)
(* a month), without counters, transactions or locks: a call is admitted   *)
(* only if the bills of the finished calls and the worst cases of the open *)
(* ones leave room for its own worst case, and an admitted call is billed  *)
(* once, its actual cost or its worst case.                                *)
(***************************************************************************)
EXTENDS Naturals, FiniteSets, Sums

CONSTANTS Call, Worst, Actual, Cap, Null

VARIABLES
  open,   \* the calls admitted to this window and not billed yet
  bill    \* what each finished call of this window was charged

Billed == {c \in Call : bill[c] # Null}

Init == open = {} /\ bill = [c \in Call |-> Null]

Admit(c) ==
  /\ c \notin open \union Billed
  /\ \E cap \in Cap : Sum(bill, Billed) + Sum(Worst, open) + Worst[c] <= cap
  /\ open' = open \union {c}
  /\ UNCHANGED bill

\* Several calls may be billed at once (a sweep is one transaction).
Bill(S) ==
  /\ S # {} /\ S \subseteq open
  /\ open' = open \ S
  /\ \A c \in Call \ S : bill'[c] = bill[c]
  /\ \A c \in S : bill'[c] \in Actual[c] \union {Worst[c]}
  /\ DOMAIN bill' = Call

Next == (\E c \in Call : Admit(c)) \/ (\E S \in SUBSET open : Bill(S))

Spec == Init /\ [][Next]_<<open, bill>>
=============================================================================
