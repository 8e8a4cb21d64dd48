-------------------------------- MODULE Sums --------------------------------
(***************************************************************************)
(* Sums of natural numbers over finite sets.  A sum is the size of a       *)
(* disjoint union: f[c] units for every c, told apart by their number.     *)
(* This needs no recursion, so facts about sums can be proved from facts   *)
(* about finite sets.                                                      *)
(***************************************************************************)
EXTENDS Naturals, FiniteSets

Units(f, S) == UNION {{c} \X (1..f[c]) : c \in S}

Sum(f, S) == Cardinality(Units(f, S))
=============================================================================
