---------------------------- MODULE ItemHistory -----------------------------
(***************************************************************************)
(* What the bi-temporal store promises its readers.  belief[i][k][v] is    *)
(* the content of item i that a reader asking "what held at v, as known at *)
(* k" is given.  A write of the store is one Learn step: at one instant t, *)
(* the same for every item of the batch, an interval of valid time gets a  *)
(* new content and, when the fact is closed, nothing is believed of the    *)
(* time after it.  Everything known before t, and every valid instant the  *)
(* write does not name, is believed as before.                             *)
(***************************************************************************)
EXTENDS Integers

CONSTANTS
  Items,     \* logical ids
  Forever,   \* bound of both time axes
  Contents,  \* what a version can say
  Nothing    \* no version is valid

Moments == 0 .. Forever - 1

VARIABLE belief

Init ==
  /\ belief \in [Items -> [Moments -> [Moments -> Contents \cup {Nothing}]]]
  /\ \A i \in Items, k, v \in Moments : belief[i][k][v] = belief[i][0][v]

(* What is known of v may be replaced from t on only if nothing was learnt *)
(* of it at t or later, and only if a reader asking before t is still      *)
(* given it.                                                               *)
Replaceable(old, t, v) ==
  /\ \A k \in t .. Forever - 1 : old[k][v] = old[t][v]
  /\ old[t][v] # Nothing => t > 0 /\ old[t - 1][v] = old[t][v]

(* From t on, something new is known of [start, end), and nothing any more *)
(* of what is believed of [end, until).                                    *)
Revised(old, new, t, start, end, until) ==
  LET given(v) == start =< v /\ v < end
      ended(v) == end =< v /\ v < until /\ old[Forever - 1][v] # Nothing
  IN
  /\ \A k, v \in Moments :
       new[k][v] = IF k < t THEN old[k][v]
                   ELSE IF given(v) THEN new[t][start]
                   ELSE IF ended(v) THEN Nothing
                   ELSE old[k][v]
  /\ \A v \in Moments : given(v) \/ ended(v) => Replaceable(old, t, v)
  /\ start < end => new[t][start] # Nothing

Learn(old, new, t) ==
  \/ new = old
  \/ \E start \in Moments, end, until \in 0 .. Forever :
       /\ start =< end /\ end =< until
       /\ Revised(old, new, t, start, end, until)

Next ==
  LET old == belief
      new == belief'
  IN
  \E t \in Moments :
    /\ \E i \in Items : new[i][t] # old[i][t]
    /\ new \in [Items -> [Moments -> [Moments -> Contents \cup {Nothing}]]]
    /\ \A i \in Items : Learn(old[i], new[i], t)

Spec == Init /\ [][Next]_belief

=============================================================================
