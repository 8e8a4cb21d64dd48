------------------------------ MODULE Temporal ------------------------------
(***************************************************************************)
(* Interval arithmetic of the bi-temporal store (core/temporal.py).  Both  *)
(* axes, valid time and transaction time, are natural numbers (the         *)
(* microseconds of the code); an open end, None in Python and 'infinity'   *)
(* in SQL, is Forever.  Intervals are half-open.                           *)
(***************************************************************************)
EXTENDS Integers

CONSTANT Forever

ASSUME ForeverAssumption == Forever \in Nat \ {0}

Instants == 0 .. Forever - 1
Ends     == 0 .. Forever

Overlaps(aFrom, aTo, bFrom, bTo) == aFrom < bTo /\ bFrom < aTo

Segment(from, to) == [from |-> from, to |-> to]

FaultySegmentBefore(vFrom, vTo, cFrom, cTo) ==
  {s \in {Segment(vFrom, cFrom)} : s.from < s.to}

(* What a correction of [cFrom, cTo) leaves of a row [vFrom, vTo) that it  *)
(* overlaps: the part before it and the part after it, if they exist.      *)
SurvivingSegments(vFrom, vTo, cFrom, cTo) ==
  {s \in {Segment(vFrom, cFrom), Segment(cTo, vTo)} : s.from < s.to}

(* t is the transaction time of an event that reads the clock at now and   *)
(* supersedes rows recorded at the instants in recorded: the clock, or one *)
(* microsecond after the latest of those rows if the clock is behind it.   *)
SelectT(t, now, recorded) ==
  /\ t \in {now} \cup {r + 1 : r \in recorded}
  /\ now =< t
  /\ \A r \in recorded : r + 1 =< t

=============================================================================
